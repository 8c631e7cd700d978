------------------------------- MODULE Beneath -------------------------------
(***************************************************************************)
(* Opening and deleting a torrent's file beneath the download root         *)
(* (walk_beneath, open_beneath and remove_beneath in clove-core/src/       *)
(* storage.rs), one system call at a time, while somebody else who may     *)
(* write there renames, removes and links whatever he likes.               *)
(*                                                                         *)
(* Level k of the path is what its k-th name is, in the directory the walk *)
(* has open, at this moment; level Depth is the file.  `where` says whose  *)
(* directory the open descriptor is.                                       *)
(***************************************************************************)
EXTENDS Naturals

CONSTANTS Depth           \* components of the path

Level == 1 .. Depth
Kind == {"absent", "dir", "file", "link"}

ASSUME BeneathAssumption == Depth \in Nat \ {0}

VARIABLES
    rootThere,  \* the download directory exists
    entry,      \* what each level is
    purpose,    \* "none", "open" or "remove"
    safe,       \* do the components pass check_component?
    level,      \* the component the walk is at, 0 for the root
    asked,      \* mkdirat has been tried at this level
    where,      \* the open directory: "none", "inside" or "outside"
    made,       \* the levels this walk created
    outcome     \* "none", "opened", "removed", "nothing", "failed" ...
                \* ... or "escaped": a file that is not beneath the root

walkVars == <<purpose, safe, level, asked, where, made, outcome>>
beneathVars == <<rootThere, entry, walkVars>>

BeneathTypeOK ==
    /\ rootThere \in BOOLEAN /\ entry \in [Level -> Kind]
    /\ purpose \in {"none", "open", "remove"} /\ safe \in BOOLEAN
    /\ level \in 0 .. Depth /\ asked \in BOOLEAN
    /\ where \in {"none", "inside", "outside"} /\ made \subseteq Level
    /\ outcome \in {"none", "opened", "removed", "nothing", "failed", "escaped"}

BeneathInit ==
    /\ rootThere \in BOOLEAN /\ entry \in [Level -> Kind]
    /\ purpose = "none" /\ safe = FALSE /\ level = 0 /\ asked = FALSE
    /\ where = "none" /\ made = {} /\ outcome = "none"

-----------------------------------------------------------------------------
Walking == purpose # "none" /\ outcome = "none"
Ends(how) == outcome' = how /\ UNCHANGED <<purpose, safe, level, asked, where, made>>

\* What a name that is not there means: nothing to delete, or a failure.
Missing == IF purpose = "remove" THEN "nothing" ELSE "failed"

\* A walk begins; the components are looked at before anything is touched.
Begin(how, ok) ==
    /\ purpose = "none"
    /\ purpose' = how /\ safe' = ok
    /\ outcome' = IF ok THEN "none" ELSE "failed"
    /\ UNCHANGED <<rootThere, entry, level, asked, where, made>>

\* create_dir_all, if something is to be created, and the root's descriptor.
OpenRoot ==
    /\ Walking /\ level = 0
    /\ \/ /\ rootThere \/ purpose = "open"
          /\ rootThere' = TRUE
          /\ level' = 1 /\ where' = "inside"
          /\ UNCHANGED <<entry, purpose, safe, asked, made, outcome>>
       \/ /\ ~rootThere /\ purpose = "remove"
          /\ Ends(Missing) /\ UNCHANGED <<rootThere, entry>>

MayCreate == purpose = "open"

\* mkdirat: whatever is already there will do for now.
MakeDir ==
    /\ Walking /\ level \in 1 .. Depth - 1 /\ MayCreate /\ ~asked
    /\ entry' = [entry EXCEPT ![level] = IF @ = "absent" THEN "dir" ELSE @]
    /\ made' = IF entry[level] = "absent" THEN made \cup {level} ELSE made
    /\ asked' = TRUE
    /\ UNCHANGED <<rootThere, purpose, safe, level, where, outcome>>

\* Mutant: opened by name, links and all.
Descend_Follows ==
    /\ where' = IF entry[level] = "link" THEN "outside" ELSE where
    /\ level' = level + 1 /\ asked' = FALSE
    /\ UNCHANGED <<purpose, safe, made, outcome>>

\* openat with O_NOFOLLOW | O_DIRECTORY.
Descend ==
    \/ /\ entry[level] = "dir"
       /\ level' = level + 1 /\ asked' = FALSE
       /\ UNCHANGED <<purpose, safe, where, made, outcome>>
    \/ entry[level] = "absent" /\ Ends(Missing)
    \/ entry[level] \in {"link", "file"} /\ Ends("failed")

OpenDir ==
    /\ Walking /\ level \in 1 .. Depth - 1 /\ (MayCreate => asked)
    /\ Descend
    /\ UNCHANGED <<rootThere, entry>>

\* open_beneath: O_CREAT | O_NOFOLLOW on the last component.
OpenFile ==
    /\ Walking /\ level = Depth /\ purpose = "open"
    /\ IF entry[Depth] \in {"link", "dir"}
       THEN Ends("failed") /\ UNCHANGED entry
       ELSE /\ outcome' = IF where = "outside" THEN "escaped" ELSE "opened"
            /\ entry' = [entry EXCEPT ![Depth] = "file"]
            /\ made' = IF entry[Depth] = "absent" THEN made \cup {Depth} ELSE made
            /\ UNCHANGED <<purpose, safe, level, asked, where>>
    /\ UNCHANGED rootThere

\* remove_beneath: unlinkat takes the name, a link's own if it is one.
Unlink ==
    /\ Walking /\ level = Depth /\ purpose = "remove"
    /\ CASE entry[Depth] = "absent" -> Ends("nothing") /\ UNCHANGED entry
         [] entry[Depth] = "dir"    -> Ends("failed") /\ UNCHANGED entry
         [] OTHER -> /\ Ends(IF where = "outside" THEN "escaped" ELSE "removed")
                     /\ entry' = [entry EXCEPT ![Depth] = "absent"]
    /\ UNCHANGED rootThere

\* Any of the calls may fail for a reason of its own.
SystemError == Walking /\ Ends("failed") /\ UNCHANGED <<rootThere, entry>>

\* Anybody else who writes below the root.
Meddles(k, kind) ==
    /\ entry' = [entry EXCEPT ![k] = kind]
    /\ UNCHANGED <<rootThere, walkVars>>

BeneathNext ==
    \/ \E how \in {"open", "remove"}, ok \in BOOLEAN : Begin(how, ok)
    \/ OpenRoot \/ MakeDir \/ OpenDir \/ OpenFile \/ Unlink \/ SystemError
    \/ \E k \in Level, kind \in Kind : Meddles(k, kind)

BeneathSpec == BeneathInit /\ [][BeneathNext]_beneathVars

-----------------------------------------------------------------------------
(* Properties *)

\* Whatever is renamed or linked between two system calls, the walk never
\* holds a directory, opens a file or deletes one that is not beneath the root
\* ("leaves a window between the two in which the component can become a
\* link", walk_beneath), and an unsafe component touches nothing.
Contained ==
    /\ where # "outside" /\ outcome # "escaped"
    /\ ~safe => where = "none"

\* Deleting creates nothing, not even for a torrent that never wrote a byte,
\* and leaves an absent root absent (remove_beneath).
DeleteCreatesNothing ==
    /\ purpose = "remove" => made = {}
    /\ purpose = "remove" /\ ~rootThere => where = "none"

\* The walk stays below its root and leaves nothing behind it should not,
\* whatever is put in its way between two system calls.
WalkSafe == BeneathTypeOK /\ Contained /\ DeleteCreatesNothing
=============================================================================
