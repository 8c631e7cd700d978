------------------------------ MODULE Commands ------------------------------
(***************************************************************************)
(* One invocation of clove(1) that names torrents (clove/src/main.rs)      *)
(* against a daemon others are using too (resolve and list in              *)
(* cloved/src/registry.rs, torrent_action in cloved/src/main.rs).          *)
(*                                                                         *)
(* References and info-hashes are sequences of digits: below 10 decimal,   *)
(* below 16 hexadecimal, anything above is a character that is neither.    *)
(* Every request is answered from several separate locks of the registry,  *)
(* so torrents may come and go between a listing and a request, and within *)
(* a request.                                                              *)
(***************************************************************************)
EXTENDS Naturals, Sequences, FiniteSets, FiniteSetsExt, SequencesExt

CONSTANTS Hash,             \* info-hashes, all of one length
          Reference,        \* what the operator may type
          HashLen,          \* 40
          MinPrefix,        \* MIN_PREFIX, of both programs
          MaxIndexDigits,   \* MAX_INDEX_DIGITS
          MaxRefs,          \* references in one command (a bound)
          MaxClock,         \* times at which torrents are added (a bound)
          MaxChanges        \* what others do meanwhile (a bound)

ASSUME CommandsAssumption ==
    /\ {HashLen, MinPrefix, MaxIndexDigits, MaxRefs, MaxChanges} \subseteq Nat /\ MaxClock \in Nat \ {0}
    /\ Hash \subseteq [1 .. HashLen -> 0 .. 15] /\ IsFiniteSet(Hash)
    /\ \A r \in Reference : r \in Seq(Nat)
    /\ MaxIndexDigits < MinPrefix /\ MinPrefix <= HashLen

VARIABLES
    added,      \* Hosted.added of each torrent, by the clock on the wall; 0 for none
    magnets,    \* Registry.pending
    changes,    \* how many more there may be
    verb, all, refs,   \* the command: "remove" or "other", --all, references
    stage,      \* where it is
    shown,      \* the listing it was expanded against
    targets,    \* what it will name to the daemon, one request each
    next,       \* the target it is at
    hash,       \* what the daemon resolved it to, as a set
    meant,      \* for each target: what it named when it was resolved
    acted,      \* for each target: what was acted on
    failed,     \* for_each's count
    exit,       \* how it ended
    gone        \* how often a hash was removed since the listing (a ghost)

tableVars == <<added, magnets, changes>>
lineVars == <<verb, all, refs>>
commandVars == <<tableVars, lineVars, stage, shown, targets, next, hash, meant, acted, failed, exit, gone>>

Hosted == {h \in Hash : added[h] > 0}

CommandsTypeOK ==
    /\ added \in [Hash -> 0 .. MaxClock] /\ magnets \subseteq Hash
    /\ changes \in 0 .. MaxChanges /\ verb \in {"none", "remove", "other"} /\ all \in BOOLEAN
    /\ refs \in Seq(Reference) /\ Len(refs) <= MaxRefs
    /\ stage \in {"typing", "locating", "expanding", "requesting", "resolved", "checked", "over"}
    /\ Range(shown) \subseteq Hash /\ Range(targets) \subseteq Hash \cup Reference
    /\ next \in 1 .. Len(targets) + 1 /\ Cardinality(hash) <= 1
    /\ DOMAIN meant = DOMAIN targets /\ DOMAIN acted = DOMAIN targets
    /\ failed \in 0 .. Len(targets)
    /\ exit \in {"none", "ok", "failed", "usage", "unreachable"}
    /\ gone \in [Hash -> Nat]

\* A hash may be hosted and pending at once: add_torrent does not look at the
\* pending magnets.
CommandsInit ==
    /\ added \in [Hash -> 0 .. MaxClock] /\ magnets \in SUBSET Hash /\ changes = MaxChanges
    /\ verb = "none" /\ all = FALSE /\ refs = <<>> /\ stage = "typing"
    /\ shown = <<>> /\ targets = <<>> /\ next = 1 /\ hash = {}
    /\ meant = <<>> /\ acted = <<>> /\ failed = 0 /\ exit = "none" /\ gone = [h \in Hash |-> 0]

-----------------------------------------------------------------------------
(* References *)

IsIndex(r) == Len(r) \in 1 .. MaxIndexDigits /\ \A k \in DOMAIN r : r[k] < 10

IsReference(r) == Len(r) \in MinPrefix .. HashLen /\ \A k \in DOMAIN r : r[k] < 16

Position(r) == FoldLeft(LAMBDA sum, digit : 10 * sum + digit, 0, r)

Lower(g, h) == \E k \in 1 .. HashLen : g[k] < h[k] /\ \A j \in 1 .. k - 1 : g[j] = h[j]

\* sort_by_key: by a key, ties by hash.
Earlier(key, g, h) == key[g] < key[h] \/ (key[g] = key[h] /\ Lower(g, h))

Rows(S, key) ==
    [k \in 1 .. Cardinality(S) |->
        CHOOSE h \in S : Cardinality({g \in S : g = h \/ Earlier(key, g, h)}) = k]

\* Registry::list: add order, ties by hash; magnets after, by hash.
TorrentRows == Rows(Hosted, added)
Listing == TorrentRows \o Rows(magnets, [h \in Hash |-> 0])

\* Mutant: a prefix that names several takes the first.
Resolve_First(r) ==
    IF Len(r) = HashLen THEN {r}
    ELSE LET found == {h \in Hosted \cup magnets : IsPrefix(r, h)}
         IN  IF found = {} THEN {} ELSE {CHOOSE h \in found : \A g \in found \ {h} : Lower(h, g)}

\* Registry::resolve: a full hash is itself, whatever the table holds; a prefix
\* must name exactly one entry, so a hash that is hosted and pending has none.
Resolve(r) ==
    IF Len(r) = HashLen THEN {r}
    ELSE LET found(S) == {h \in S : IsPrefix(r, h)}
         IN  IF Cardinality(found(Hosted)) + Cardinality(found(magnets)) = 1
             THEN found(Hosted) \cup found(magnets) ELSE {}

-----------------------------------------------------------------------------
(* The command *)

Exits(how) == exit' = how /\ stage' = "over"

\* The command line, parse_refs, and what expand refuses before it asks.
TypeCommand(v, every, r) ==
    /\ stage = "typing"
    /\ verb' = v /\ all' = every /\ refs' = r
    /\ stage' = "locating"
    /\ UNCHANGED <<tableVars, shown, targets, next, hash, meant, acted, failed, exit, gone>>

\* resolve: the configuration and the token file, readable or not.
Locate ==
    /\ stage = "locating"
    /\ \/ stage' = "expanding" /\ UNCHANGED exit
       \/ \E how \in {"usage", "failed"} : Exits(how)
    /\ UNCHANGED <<tableVars, lineVars, shown, targets, next, hash, meant, acted, failed, gone>>

\* listed_targets: a magnet can be removed and nothing else.
ListedTargets(withPending) == IF withPending THEN Listing ELSE TorrentRows

AllTargets == ListedTargets(verb = "remove")

\* resolve_indices: the torrent a position stands for, if there is one.
AtPosition(listing, r) ==
    IF Position(r) \in DOMAIN listing THEN {listing[Position(r)]} ELSE {}

\* The targets are settled and the requests begin.
Settled(listing, list) ==
    /\ shown' = listing /\ targets' = list
    /\ meant' = [i \in DOMAIN list |-> {}] /\ acted' = [i \in DOMAIN list |-> {}]
    /\ gone' = [h \in Hash |-> 0]
    /\ IF list = <<>> THEN Exits("ok") ELSE stage' = "requesting" /\ UNCHANGED exit

\* What expand refuses before it asks the daemon, and whether it asks.
Misused ==
    \/ all /\ refs # <<>>
    \/ ~all /\ (refs = <<>> \/ \E i \in DOMAIN refs : ~IsIndex(refs[i]) /\ ~IsReference(refs[i]))

NeedsListing == ~Misused /\ (all \/ \E i \in DOMAIN refs : IsIndex(refs[i]))

\* expand, with its one listing where one is needed.
Expand ==
    /\ stage = "expanding"
    /\ LET missing == \E i \in DOMAIN refs : IsIndex(refs[i]) /\ AtPosition(Listing, refs[i]) = {}
           lookedUp(r) == IF IsIndex(r) THEN CHOOSE h \in AtPosition(Listing, r) : TRUE ELSE r
       IN  \/ /\ Misused /\ Exits("usage")
              /\ UNCHANGED <<shown, targets, meant, acted, gone>>
           \/ /\ ~Misused /\ all
              /\ Settled(Listing, AllTargets)
           \/ /\ ~Misused /\ ~all /\ missing /\ Exits("failed")
              /\ UNCHANGED <<shown, targets, meant, acted, gone>>
           \/ /\ ~Misused /\ ~all /\ ~missing
              /\ Settled(Listing, [i \in DOMAIN refs |-> lookedUp(refs[i])])
    /\ UNCHANGED <<tableVars, lineVars, next, hash, failed>>

\* for_each: the next target, or the exit code.
Reported(ok) ==
    /\ hash' = {} /\ failed' = IF ok THEN failed ELSE failed + 1
    /\ IF next = Len(targets)
       THEN Exits(IF failed' = 0 THEN "ok" ELSE "failed") /\ UNCHANGED next
       ELSE next' = next + 1 /\ stage' = "requesting" /\ UNCHANGED exit

\* Where the client has a request to send.
Asking == stage = "requesting" \/ (stage = "expanding" /\ NeedsListing)

\* request: the daemon may be gone, which ends the command whatever is left.
Unreachable ==
    /\ Asking /\ Exits("unreachable")
    /\ UNCHANGED <<tableVars, lineVars, shown, targets, next, hash, meant, acted, failed, gone>>

\* request: a refusal (a token of another run) or no answer that can be read.
RequestFails ==
    /\ Asking
    /\ IF stage = "requesting" THEN Reported(FALSE) ELSE Exits("failed") /\ UNCHANGED <<next, hash, failed>>
    /\ UNCHANGED <<tableVars, lineVars, shown, targets, meant, acted, gone>>

\* torrent_action: the reference is resolved under the lock, which is released.
ResolveTarget ==
    /\ stage = "requesting"
    /\ meant' = [meant EXCEPT ![next] = {h \in Hosted \cup magnets \cup {targets[next]} : IsPrefix(targets[next], h)
                                              /\ Len(h) = HashLen}]
    /\ LET found == Resolve(targets[next])
       IN  IF found = {} THEN Reported(FALSE)
           ELSE hash' = found /\ stage' = "resolved" /\ UNCHANGED <<next, failed, exit>>
    /\ UNCHANGED <<tableVars, lineVars, shown, targets, acted, gone>>

\* Nothing but removing can be done to a magnet.
CheckPending ==
    /\ stage = "resolved"
    /\ IF verb # "remove" /\ hash \subseteq magnets THEN Reported(FALSE)
       ELSE stage' = "checked" /\ UNCHANGED <<next, hash, failed, exit>>
    /\ UNCHANGED <<tableVars, lineVars, shown, targets, meant, acted, gone>>

\* Registry::remove: the magnet if there is one, else the torrent.
Removes(h) ==
    /\ IF h \in magnets THEN magnets' = magnets \ {h} /\ UNCHANGED added
                        ELSE added' = [added EXCEPT ![h] = 0] /\ UNCHANGED magnets
    /\ gone' = [gone EXCEPT ![h] = @ + 1]

\* The action itself, on the hash that was resolved; its answer may be lost.
Perform(answer) ==
    /\ stage = "checked"
    /\ \/ /\ hash \subseteq Hosted \/ (verb = "remove" /\ hash \subseteq magnets)
          /\ acted' = [acted EXCEPT ![next] = hash]
          /\ IF verb = "remove" THEN \E h \in hash : Removes(h) ELSE UNCHANGED <<added, magnets, gone>>
          /\ Reported(answer)
       \/ Reported(FALSE) /\ UNCHANGED <<added, magnets, gone, acted>>
    /\ UNCHANGED <<changes, lineVars, shown, targets, meant>>

-----------------------------------------------------------------------------
(* Everybody else *)

Others == changes > 0 /\ changes' = changes - 1

\* now_unix_millis may be any time, earlier ones too.
Hosts(h) == h \notin Hosted /\ \E time \in 1 .. MaxClock : added' = [added EXCEPT ![h] = time]

SomebodyAdds(h) ==
    /\ Others
    /\ \/ Hosts(h) /\ UNCHANGED magnets
       \/ h \notin Hosted \cup magnets /\ magnets' = magnets \cup {h} /\ UNCHANGED added
    /\ UNCHANGED <<lineVars, stage, shown, targets, next, hash, meant, acted, failed, exit, gone>>

SomebodyRemoves(h) ==
    /\ Others /\ h \in Hosted \cup magnets /\ Removes(h)
    /\ UNCHANGED <<lineVars, stage, shown, targets, next, hash, meant, acted, failed, exit>>

\* complete_magnet: add_torrent refuses one that is hosted, and the magnet stays.
MetadataArrives(h) ==
    /\ Others /\ h \in magnets /\ Hosts(h) /\ magnets' = magnets \ {h}
    /\ UNCHANGED <<lineVars, stage, shown, targets, next, hash, meant, acted, failed, exit, gone>>

CommandsNext ==
    \/ \E v \in {"remove", "other"}, every \in BOOLEAN, r \in SeqOf(Reference, MaxRefs) : TypeCommand(v, every, r)
    \/ Locate \/ Expand \/ Unreachable \/ RequestFails \/ ResolveTarget \/ CheckPending
    \/ \E answer \in BOOLEAN : Perform(answer)
    \/ \E h \in Hash : SomebodyAdds(h) \/ SomebodyRemoves(h) \/ MetadataArrives(h)

CommandsSpec == CommandsInit /\ [][CommandsNext]_commandVars

-----------------------------------------------------------------------------
(* Properties *)

\* A command touches only what it was given names for: a position is the row
\* of the one listing it was read from, however the table has changed since;
\* a full hash is that torrent; a prefix is a torrent that alone had it when
\* it was looked up, and one that names several touches none of them.
TouchesOnlyNamed ==
    \A i \in DOMAIN targets : acted[i] # {} =>
        /\ meant[i] = acted[i]
        /\ ~all /\ IsIndex(refs[i]) => acted[i] = {shown[Position(refs[i])]}
        /\ ~all /\ ~IsIndex(refs[i]) => \A h \in acted[i] : IsPrefix(refs[i], h)

\* Exit code 0 means done: every torrent named was acted on, and one that
\* failed among several is not forgotten (for_each).
ExitHonest == exit = "ok" => \A i \in DOMAIN targets : acted[i] # {}

\* remove --all that succeeds has removed everything the daemon listed, magnets
\* and those that became torrents meanwhile included, and twice what it listed
\* as both.
AllMeansAll ==
    exit = "ok" /\ all /\ verb = "remove" =>
        \A h \in Hash : gone[h] >= Cardinality({i \in DOMAIN shown : shown[i] = h})

\* A command does what it says and says what it did, while others change the
\* table between its requests (resolve, for_each).
CommandHonest == CommandsTypeOK /\ TouchesOnlyNamed /\ ExitHonest /\ AllMeansAll
=============================================================================
