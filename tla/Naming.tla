------------------------------- MODULE Naming -------------------------------
(***************************************************************************)
(* The lookup cache in front of the router (i2pnet/src/naming.rs): hits    *)
(* for good, misses held back for a doubling time, a bounded table.  The   *)
(* lock is not held while the router is asked, so several threads may be   *)
(* asking for the same name, and the answer of one meets what another put  *)
(* in meanwhile.                                                           *)
(*                                                                         *)
(* `age` counts the entries by insertion (Cache.inserted); a hold is the   *)
(* ticks it has left, measured, as in the code, from the moment the lookup *)
(* began.  A lookup lasts at most LookupTicks: SamSession::lookup has a    *)
(* timeout on the connection, the HELLO and the NAMING reply.  Together    *)
(* they may outlast the first hold, so nothing is assumed of the two: a    *)
(* lookup may still be out when another has failed, served its hold, been  *)
(* tried again and failed again.  It then writes the count it began with,  *)
(* plus one, over the longer hold (`overtaken` remembers which lookups     *)
(* those are).                                                             *)
(***************************************************************************)
EXTENDS Naturals, FiniteSets, FiniteSetsExt

CONSTANTS Name, Asker,
          MaxEntries,      \* MAX_ENTRIES
          NegativeInitial, NegativeMax,   \* NEGATIVE_INITIAL, NEGATIVE_MAX
          NegativeShift,   \* the 6 the shift is clamped at
          LookupTicks,     \* the longest a lookup takes
          MaxMisses        \* cap of the failure count

ASSUME NamingAssumption ==
    /\ IsFiniteSet(Name) /\ IsFiniteSet(Asker)
    /\ MaxEntries \in Nat \ {0}
    /\ NegativeInitial \in Nat \ {0} /\ NegativeMax \in Nat /\ NegativeInitial <= NegativeMax
    /\ NegativeShift \in Nat /\ MaxMisses \in Nat \ {0}
    /\ LookupTicks \in Nat

VARIABLES
    cached,    \* what the table has for each name: nothing, a hit or a miss
    held,      \* ticks a miss is still held back
    misses,    \* the failures a miss records
    age,       \* insertion rank: 0 none, 1 the oldest
    asking,    \* the name each thread asks the router for, or {}
    prior,     \* the failures it saw when it began
    lasted,    \* ticks its lookup has taken
    overtaken  \* the threads whose name went in or out of the table since (history)

tableVars == <<cached, held, misses, age>>
askVars == <<asking, prior, lasted, overtaken>>
namingVars == <<tableVars, askVars>>

Entries == {n \in Name : cached[n] # "none"}

NamingTypeOK ==
    /\ cached \in [Name -> {"none", "hit", "miss"}]
    /\ held \in [Name -> 0 .. NegativeMax] /\ misses \in [Name -> 0 .. MaxMisses]
    /\ age \in [Name -> 0 .. Cardinality(Name)]
    /\ {age[n] : n \in Entries} = 1 .. Cardinality(Entries)
    /\ asking \in [Asker -> {{}} \cup {{n} : n \in Name}]
    /\ prior \in [Asker -> 0 .. MaxMisses] /\ lasted \in [Asker -> 0 .. LookupTicks]
    /\ overtaken \subseteq Asker

NamingInit ==
    /\ cached = [n \in Name |-> "none"] /\ held = [n \in Name |-> 0]
    /\ misses = [n \in Name |-> 0] /\ age = [n \in Name |-> 0]
    /\ asking = [a \in Asker |-> {}] /\ prior = [a \in Asker |-> 0]
    /\ lasted = [a \in Asker |-> 0] /\ overtaken = {}

-----------------------------------------------------------------------------
\* Cache::oldest among the names of `of`.
Oldest(of) == CHOOSE n \in of : \A m \in of : age[n] <= age[m]

\* Cache::insert: the name it throws out to make room, if it must.
Evicted(name) ==
    LET stale == {n \in Entries : cached[n] = "miss"} IN
    IF Cardinality(Entries) < MaxEntries \/ name \in Entries THEN {}
    ELSE {Oldest(IF stale # {} THEN stale ELSE Entries)}

\* Cache::insert: `what` for `name`, now the youngest entry.
Insert(name, what, hold, count) ==
    LET gone == Evicted(name) \cup {name}
        kept == Entries \ gone
        rank(n) == Cardinality({m \in kept : age[m] <= age[n]}) IN
    /\ cached' = [n \in Name |-> IF n = name THEN what ELSE IF n \in kept THEN cached[n] ELSE "none"]
    /\ held' = [n \in Name |-> IF n = name THEN hold ELSE IF n \in kept THEN held[n] ELSE 0]
    /\ misses' = [n \in Name |-> IF n = name THEN count ELSE IF n \in kept THEN misses[n] ELSE 0]
    /\ age' = [n \in Name |-> IF n = name THEN Cardinality(kept) + 1
                              ELSE IF n \in kept THEN rank(n) ELSE 0]

\* The hold of the n-th failure in a row.
Hold(n) ==
    Min({NegativeInitial * 2 ^ Min({n - 1, NegativeShift}), NegativeMax})

\* NamingCache::lookup, up to the unlock: a hit, or a miss still held, is
\* answered at once; anything else asks the router.
Lookup(a, n) ==
    /\ asking[a] = {}
    /\ cached[n] # "hit" /\ ~(cached[n] = "miss" /\ held[n] > 0)
    /\ asking' = [asking EXCEPT ![a] = {n}]
    /\ prior' = [prior EXCEPT ![a] = misses[n]]
    /\ lasted' = [lasted EXCEPT ![a] = 0]
    /\ UNCHANGED <<tableVars, overtaken>>

Return(a) ==
    /\ asking' = [asking EXCEPT ![a] = {}] /\ prior' = [prior EXCEPT ![a] = 0]
    /\ lasted' = [lasted EXCEPT ![a] = 0]

\* The other threads asking for a name that has just gone in or out.
Overtakes(a, changed) ==
    overtaken' = {b \in Asker \ {a} : b \in overtaken \/ asking[b] \cap changed # {}}

Resolved(a) ==
    /\ \E n \in asking[a] : Insert(n, "hit", 0, 0) /\ Overtakes(a, Evicted(n) \cup {n})
    /\ Return(a)

\* Mutant: a miss buries the hit of a lookup that ran alongside.
Unresolved_Buries(a) ==
    /\ \E n \in asking[a] : /\ Insert(n, "miss", Hold(1), Min({prior[a] + 1, MaxMisses}))
                           /\ Overtakes(a, Evicted(n) \cup {n})
    /\ Return(a)

\* A failure is remembered, unless a lookup that ran alongside has succeeded.
Unresolved(a) ==
    /\ \E n \in asking[a] :
         LET count == Min({prior[a] + 1, MaxMisses})
             left == Hold(count) - Min({lasted[a], Hold(count)}) IN
         IF cached[n] = "hit" THEN UNCHANGED tableVars /\ Overtakes(a, {})
         ELSE Insert(n, "miss", left, count) /\ Overtakes(a, Evicted(n) \cup {n})
    /\ Return(a)

\* The resolver refused the name itself (InvalidInput): nothing is cached.
NotAName(a) == asking[a] # {} /\ Return(a) /\ Overtakes(a, {}) /\ UNCHANGED tableVars

NamingTick ==
    /\ \A a \in Asker : asking[a] # {} => lasted[a] < LookupTicks
    /\ held' = [n \in Name |-> IF held[n] > 0 THEN held[n] - 1 ELSE 0]
    /\ lasted' = [a \in Asker |-> IF asking[a] # {} THEN lasted[a] + 1 ELSE 0]
    /\ UNCHANGED <<cached, misses, age, asking, prior, overtaken>>

NamingNext ==
    \/ NamingTick
    \/ \E a \in Asker :
         Resolved(a) \/ Unresolved(a) \/ NotAName(a) \/ \E n \in Name : Lookup(a, n)

NamingSpec == NamingInit /\ [][NamingNext]_namingVars

-----------------------------------------------------------------------------
\* A resolved name stays resolved whatever the lookups that ran beside it come
\* back with, until a full table holds nothing but hits (Cache::insert, and the
\* check before a miss goes in).
HitsStay ==
    \A n \in Name : cached[n] = "hit" /\ cached'[n] # "hit" =>
        /\ Cardinality(Entries) = MaxEntries /\ \A m \in Entries : cached[m] = "hit"
        /\ \A m \in Entries : age[n] <= age[m]

\* The doubling is undone by nothing but a lookup that was overtaken: any other
\* failure finds the hold before it served in full, and counts exactly one more
\* than the table does, although the count was read before the unlock.  (An
\* overtaken one may put the count back and cut the hold short: the code writes
\* what it began with.)
DoublingKept ==
    \A n \in Name :
        /\ cached[n] = "miss" /\ cached'[n] = "miss"
        /\ misses'[n] # misses[n] \/ held'[n] + 1 < held[n]
        => \E a \in Asker :
             /\ asking[a] = {n} /\ asking'[a] = {}
             /\ \/ a \in overtaken
                \/ held[n] = 0 /\ misses'[n] = Min({misses[n] + 1, MaxMisses})

\* The table never outgrows its limit, whoever fills it.
TableBounded == Cardinality(Entries) <= MaxEntries

\* What lookups that overlap can cost: a hit nothing, the table's limit nothing,
\* and a hold its doubling only when its name was answered for while the lookup
\* was out, in whatever order the answers come (lookup, insert).
AnswersKept == [][HitsStay /\ DoublingKept /\ TableBounded']_namingVars
=============================================================================
