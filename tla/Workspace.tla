------------------------------ MODULE Workspace ------------------------------
(***************************************************************************)
(* The files Forge writes into a project directory (internal/compiler:     *)
(* materialize.go, stubs.go, archive.go), one file-system operation at a   *)
(* time.                                                                   *)
(*                                                                         *)
(* Materialize replaces the generated roots: it writes each root into a    *)
(* staging sibling, then swaps by renames, the old tree going to a retired *)
(* sibling. WriteStubs offers a hooks file where the developer has none.   *)
(* ArchiveExtensions moves the developer's code of a deleted resource to   *)
(* the archive and records it in a manifest. Any operation may fail, the   *)
(* process may be killed at any of them, and a recursive delete or copy    *)
(* may stop half way. One command runs at a time, and the developer does   *)
(* not edit while one runs.                                                *)
(***************************************************************************)
EXTENDS Naturals, Sequences, FiniteSets

CONSTANTS Roots,       \* the generated roots, in the order they are swapped
          Versions,    \* the specifications that are compiled
          Files(_, _), \* the files of a version under a root, possibly none
          Names,       \* code names of resources
          Keys,        \* archive keys
          NoTree,      \* no such directory
          Stub, Torn,  \* an extension directory with the stub, whole or cut off
          Part,        \* a directory with something missing, or nothing in it
          Corrupt,     \* a manifest whose write was cut off
          MaxFaults,   \* bound on the kills and the failed operations
          MaxEdits     \* bound on what the developer writes

\* An empty file set is refused; the sentinels are no files and no edits.
ASSUME WorkspaceAssumption ==
    /\ Roots \in Seq({Roots[i] : i \in DOMAIN Roots})
    /\ \A i, j \in DOMAIN Roots : Roots[i] = Roots[j] => i = j
    /\ \A tree \in SUBSET (Versions \X UNION {Files(v, Roots[i]) : v \in Versions, i \in DOMAIN Roots}) :
          tree # NoTree
    /\ NoTree \notin {Stub, Torn, Part} /\ {NoTree, Stub, Torn, Part} \cap Nat = {}
    /\ \A names \in SUBSET Names : names # Corrupt
    /\ \A v \in Versions : \E i \in DOMAIN Roots : Files(v, Roots[i]) # {}
    /\ MaxFaults \in Nat /\ MaxEdits \in Nat

VARIABLES
    pc,          \* the operation the running command is at, or "idle"
    at, version, \* Materialize: the index of the root, and what it installs
    began,       \* Materialize: the live trees it found
    todo, name,  \* WriteStubs, ArchiveExtensions: the resources left, and the one in hand
    key,         \* ArchiveExtensions: the archive
    cmd,         \* the command that runs or ran last
    result,      \* how it ended: "ok", "error" or "killed"
    met,         \* whether it met a fault
    faults,      \* how many there have been
    live, staging, retired,  \* root -> NoTree or the set of its files
    src,         \* name -> the extension directory
    dest,        \* key -> name -> the archived directory
    manifest,    \* key -> the names recorded, or Corrupt
    edits,       \* how many times the developer wrote
    kept,        \* what the developer wrote and has not replaced
    broken       \* the moves whose record a fault came before

generated == <<live, staging, retired>>
archive == <<dest, manifest, broken>>
extensions == <<src, archive, edits, kept>>
vars == <<pc, at, version, began, todo, name, key, cmd, result, met, faults,
          generated, extensions>>

AllRoots == {Roots[i] : i \in DOMAIN Roots}
root == Roots[at]
Tree(v, r) == {<<v, f>> : f \in Files(v, r)}
Whole(v, r) == IF Files(v, r) = {} THEN NoTree ELSE Tree(v, r)
AnyTree ==
    {NoTree} \cup SUBSET (Versions \X UNION {Files(v, Roots[i]) : v \in Versions, i \in DOMAIN Roots})
Remnants(tree) == IF tree = NoTree THEN {NoTree} ELSE SUBSET tree

\* What a removal of the staging trees of all the roots may leave of them.
Leftovers ==
    {trees \in [AllRoots -> AnyTree] :
        \A r \in AllRoots : trees[r] = NoTree \/ trees[r] \in Remnants(staging[r])}

----------------------------------------------------------------------------
(* How a command goes on *)

Goto(l) ==
    /\ pc' = l
    /\ UNCHANGED <<at, version, began, todo, name, key, cmd, result, met, faults>>

Return(how) ==
    /\ pc' = "idle" /\ result' = how /\ todo' = {}
    /\ UNCHANGED <<at, version, began, name, key, cmd, met, faults>>

\* An operation fails: the command returns an error, or does l next.
FailTo(l) ==
    /\ faults < MaxFaults
    /\ faults' = faults + 1 /\ met' = TRUE /\ pc' = l
    /\ IF l = "idle" THEN result' = "error" /\ todo' = {} ELSE UNCHANGED <<result, todo>>
    /\ UNCHANGED <<at, version, began, name, key, cmd>>

Fail == FailTo("idle")

NextRoot(first) ==
    IF at < Len(Roots)
    THEN at' = at + 1 /\ pc' = first
    ELSE at' = 1 /\ pc' = "drop"

----------------------------------------------------------------------------
(* Materialize: pass 1, the staging trees *)

Materialize(v) ==
    /\ pc = "idle"
    /\ pc' = "clear" /\ at' = 1 /\ version' = v /\ began' = live
    /\ cmd' = "materialize" /\ result' = "none" /\ met' = FALSE
    /\ UNCHANGED <<todo, name, key, faults, generated, extensions>>

\* Mutant: what an earlier run left in staging is taken over.
ClearStagingNot ==
    /\ pc = "clear" /\ Goto("write")
    /\ UNCHANGED <<generated, extensions>>

ClearStaging ==
    /\ pc = "clear"
    /\ \/ /\ staging' = [staging EXCEPT ![root] = NoTree]
          /\ Goto("write")
       \/ /\ \E rest \in Remnants(staging[root]) : staging' = [staging EXCEPT ![root] = rest]
          /\ FailTo("cleanup")
    /\ UNCHANGED <<live, retired, extensions>>

WriteFile ==
    /\ pc = "write"
    /\ \E f \in Files(version, root) :
          LET tree == IF staging[root] = NoTree THEN {} ELSE staging[root]
          IN  /\ <<version, f>> \notin tree
              /\ \/ staging' = [staging EXCEPT ![root] = tree \cup {<<version, f>>}] /\ Goto("write")
                 \/ staging' = [staging EXCEPT ![root] = tree] /\ FailTo("cleanup")
    /\ UNCHANGED <<live, retired, extensions>>

Staged ==
    /\ pc = "write"
    /\ \A f \in Files(version, root) : staging[root] # NoTree /\ <<version, f>> \in staging[root]
    /\ NextRoot("clear")
    /\ UNCHANGED <<version, began, todo, name, key, cmd, result, met, faults, generated, extensions>>

\* The staging trees go, of each root as much as can be removed.
Cleanup ==
    /\ pc = "cleanup"
    /\ \/ staging' = [r \in AllRoots |-> NoTree] /\ Return("error")
       \/ staging' \in Leftovers /\ Fail
    /\ UNCHANGED <<live, retired, extensions>>

----------------------------------------------------------------------------
(* Materialize: pass 2, the swap *)

\* Mutant: leftovers of an earlier swap are not removed.
DropRetiredNot ==
    /\ pc = "drop" /\ Goto("retire")
    /\ UNCHANGED <<generated, extensions>>

\* The error is ignored.
DropRetired ==
    /\ pc = "drop"
    /\ \/ retired' = [retired EXCEPT ![root] = NoTree] /\ Goto("retire")
       \/ /\ \E rest \in Remnants(retired[root]) : retired' = [retired EXCEPT ![root] = rest]
          /\ FailTo("retire")
    /\ UNCHANGED <<live, staging, extensions>>

\* os.Rename never replaces a directory, not even an empty one. A live tree that
\* cannot be looked at is taken for none.
Retire ==
    /\ pc = "retire"
    /\ IF live[root] = NoTree THEN UNCHANGED <<live, retired>> /\ Goto("install")
       ELSE \/ /\ retired[root] = NoTree
               /\ retired' = [retired EXCEPT ![root] = live[root]]
               /\ live' = [live EXCEPT ![root] = NoTree]
               /\ Goto("install")
            \/ UNCHANGED <<live, retired>> /\ retired[root] # NoTree /\ Return("error")
            \/ UNCHANGED <<live, retired>> /\ Fail
            \/ UNCHANGED <<live, retired>> /\ FailTo("install")
    /\ UNCHANGED <<staging, extensions>>

Install ==
    /\ pc = "install"
    /\ IF Files(version, root) = {} THEN UNCHANGED <<live, staging>> /\ Goto("discard")
       ELSE \/ /\ live[root] = NoTree
               /\ live' = [live EXCEPT ![root] = staging[root]]
               /\ staging' = [staging EXCEPT ![root] = NoTree]
               /\ Goto("discard")
            \/ UNCHANGED <<live, staging>> /\ live[root] # NoTree /\ Goto("restore")
            \/ UNCHANGED <<live, staging>> /\ FailTo("restore")
    /\ UNCHANGED <<retired, extensions>>

Restore ==
    /\ pc = "restore"
    /\ \/ /\ retired[root] # NoTree /\ live[root] = NoTree
          /\ live' = [live EXCEPT ![root] = retired[root]]
          /\ retired' = [retired EXCEPT ![root] = NoTree]
          /\ Return("error")
       \/ /\ retired[root] = NoTree \/ live[root] # NoTree
          /\ UNCHANGED <<live, retired>> /\ Return("error")
       \/ UNCHANGED <<live, retired>> /\ Fail
    /\ UNCHANGED <<staging, extensions>>

\* The old tree, or a root the version has no files for.
Discard ==
    /\ pc = "discard"
    /\ \/ /\ retired' = [retired EXCEPT ![root] = NoTree]
          /\ Goto("swapped")
       \/ /\ \E rest \in Remnants(retired[root]) : retired' = [retired EXCEPT ![root] = rest]
          /\ FailTo("swapped")
    /\ UNCHANGED <<live, staging, extensions>>

Swapped ==
    /\ pc = "swapped"
    /\ IF at < Len(Roots)
       THEN at' = at + 1 /\ pc' = "drop" /\ UNCHANGED result
       ELSE at' = 1 /\ pc' = "idle" /\ result' = "ok"
    /\ UNCHANGED <<version, began, todo, name, key, cmd, met, faults, generated, extensions>>

----------------------------------------------------------------------------
(* WriteStubs *)

WriteStubs(names) ==
    /\ pc = "idle"
    /\ pc' = "stub" /\ todo' = names
    /\ cmd' = "stubs" /\ result' = "none" /\ met' = FALSE
    /\ UNCHANGED <<at, version, began, name, key, faults, generated, extensions>>

\* Mutant: the stub is written whatever is there.
OfferedAnew(dir) == {Stub}

\* What a directory is with a stub offered: one with a hooks file in it is left
\* alone, whatever the file holds.
Offered(dir) == IF dir = NoTree THEN {Stub} ELSE IF dir = Part THEN {Part, Stub} ELSE {dir}

WriteStub ==
    /\ pc = "stub"
    /\ \E n \in todo :
          \/ /\ \E dir \in Offered(src[n]) : src' = [src EXCEPT ![n] = dir]
             /\ todo' = todo \ {n}
             /\ UNCHANGED <<pc, result, met, faults>>
          \/ /\ faults < MaxFaults
             /\ \E left \in {NoTree, Part, Torn} :
                   src' = [src EXCEPT ![n] = IF @ = NoTree THEN left ELSE @]
             /\ pc' = "idle" /\ result' = "error" /\ met' = TRUE /\ faults' = faults + 1
             /\ todo' = {}
    /\ UNCHANGED <<at, version, began, name, key, cmd, generated, archive, edits, kept>>

StubsWritten ==
    /\ pc = "stub" /\ todo = {}
    /\ Return("ok")
    /\ UNCHANGED <<generated, extensions>>

----------------------------------------------------------------------------
(* ArchiveExtensions *)

ArchiveExtensions(k, names) ==
    /\ pc = "idle"
    /\ pc' = "look" /\ key' = k /\ todo' = names
    /\ cmd' = "archive" /\ result' = "none" /\ met' = FALSE
    /\ UNCHANGED <<at, version, began, name, faults, generated, extensions>>

\* A resource without extension code is skipped; an archive is never replaced.
Look ==
    /\ pc = "look"
    /\ \E n \in todo :
          /\ name' = n
          /\ IF src[n] = NoTree THEN todo' = todo \ {n} /\ UNCHANGED <<pc, result>>
             ELSE IF dest[key][n] # NoTree THEN todo' = {} /\ pc' = "idle" /\ result' = "error"
             ELSE todo' = todo \ {n} /\ pc' = "move" /\ UNCHANGED result
    /\ UNCHANGED <<at, version, began, key, cmd, met, faults, generated, extensions>>

Archived ==
    /\ pc = "look" /\ todo = {}
    /\ Return("ok")
    /\ UNCHANGED <<generated, extensions>>

\* A rename, or across devices a copy and a removal.
MoveDir ==
    /\ pc = "move"
    /\ \/ /\ dest[key][name] = NoTree
          /\ dest' = [dest EXCEPT ![key][name] = src[name]]
          /\ src' = [src EXCEPT ![name] = NoTree]
          /\ Goto("record")
       \/ UNCHANGED <<src, dest>> /\ Goto("copy")
       \/ UNCHANGED <<src, dest>> /\ Fail
    /\ UNCHANGED <<generated, manifest, edits, kept, broken>>

CopyDir ==
    /\ pc = "copy"
    /\ \/ dest' = [dest EXCEPT ![key][name] = src[name]] /\ Goto("unlink")
       \/ dest' = [dest EXCEPT ![key][name] = Part] /\ FailTo("discard copy")
    /\ UNCHANGED <<generated, src, manifest, edits, kept, broken>>

DiscardCopy ==
    /\ pc = "discard copy"
    /\ \/ dest' = [dest EXCEPT ![key][name] = NoTree] /\ Return("error")
       \/ UNCHANGED dest /\ Fail
    /\ UNCHANGED <<generated, src, manifest, edits, kept, broken>>

RemoveSource ==
    /\ pc = "unlink"
    /\ \/ src' = [src EXCEPT ![name] = NoTree] /\ Goto("record") /\ UNCHANGED broken
       \/ /\ src' = [src EXCEPT ![name] = Part] /\ Fail
          /\ broken' = broken \cup {<<key, name>>}
    /\ UNCHANGED <<generated, dest, manifest, edits, kept>>

\* Mutant: the manifest holds the last record only.
WriteManifestAnew ==
    /\ pc = "record"
    /\ manifest' = [manifest EXCEPT ![key] = {name}]
    /\ Goto("look")
    /\ UNCHANGED <<generated, src, dest, edits, kept, broken>>

\* The record is added to what the manifest holds; one that cannot be read is an
\* error and stays as it is. The file is written in place: a write that stops half
\* way leaves neither what it held nor the record.
WriteManifest ==
    /\ pc = "record"
    /\ \/ /\ manifest[key] # Corrupt
          /\ manifest' = [manifest EXCEPT ![key] = @ \cup {name}]
          /\ Goto("look") /\ UNCHANGED broken
       \/ /\ manifest[key] = Corrupt
          /\ Return("error") /\ UNCHANGED <<manifest, broken>>
       \/ /\ Fail
          /\ broken' = broken \cup {<<key, name>>}
          /\ UNCHANGED manifest
       \/ /\ Fail
          /\ manifest' = [manifest EXCEPT ![key] = Corrupt]
          /\ UNCHANGED broken
    /\ UNCHANGED <<generated, src, dest, edits, kept>>

----------------------------------------------------------------------------
(* Kills, and the developer *)

\* The process ends between two operations.
Kill ==
    /\ pc # "idle" /\ faults < MaxFaults
    /\ pc' = "idle" /\ todo' = {} /\ result' = "killed" /\ met' = TRUE /\ faults' = faults + 1
    /\ broken' = IF pc \in {"unlink", "record"} THEN broken \cup {<<key, name>>} ELSE broken
    /\ UNCHANGED <<at, version, began, name, key, cmd, generated, src, dest, manifest,
                   edits, kept>>

\* The process ends inside an operation that is more than one system call.
KillInside ==
    /\ faults < MaxFaults
    /\ \/ /\ pc = "clear"
          /\ \E rest \in Remnants(staging[root]) : staging' = [staging EXCEPT ![root] = rest]
          /\ UNCHANGED <<retired, src, dest, manifest, broken>>
       \/ /\ pc = "cleanup" /\ staging' \in Leftovers
          /\ UNCHANGED <<retired, src, dest, manifest, broken>>
       \/ /\ pc \in {"drop", "discard"}
          /\ \E rest \in Remnants(retired[root]) : retired' = [retired EXCEPT ![root] = rest]
          /\ UNCHANGED <<staging, src, dest, manifest, broken>>
       \/ /\ pc = "stub"
          /\ \E n \in todo, left \in {Part, Torn} :
                src[n] = NoTree /\ src' = [src EXCEPT ![n] = left]
          /\ UNCHANGED <<staging, retired, dest, manifest, broken>>
       \/ /\ pc = "copy"
          /\ dest' = [dest EXCEPT ![key][name] = Part]
          /\ UNCHANGED <<staging, retired, src, manifest, broken>>
       \/ /\ pc = "unlink"
          /\ src' = [src EXCEPT ![name] = Part]
          /\ broken' = broken \cup {<<key, name>>}
          /\ UNCHANGED <<staging, retired, dest, manifest>>
       \/ /\ pc = "record"
          /\ manifest' = [manifest EXCEPT ![key] = Corrupt]
          /\ UNCHANGED <<staging, retired, src, dest, broken>>
    /\ pc' = "idle" /\ todo' = {} /\ result' = "killed" /\ met' = TRUE /\ faults' = faults + 1
    /\ UNCHANGED <<at, version, began, name, key, cmd, live, edits, kept>>

\* The developer writes the extension of a resource, from the stub or anew.
Edit(n) ==
    /\ pc = "idle" /\ edits < MaxEdits
    /\ edits' = edits + 1
    /\ src' = [src EXCEPT ![n] = edits']
    /\ kept' = (kept \ {src[n]}) \cup {edits'}
    /\ UNCHANGED <<pc, at, version, began, todo, name, key, cmd, result, met, faults,
                   generated, archive>>

----------------------------------------------------------------------------
Init ==
    /\ pc = "idle" /\ at = 1 /\ version \in Versions
    /\ began = [r \in AllRoots |-> NoTree]
    /\ todo = {} /\ name \in Names /\ key \in Keys
    /\ cmd = "none" /\ result = "none" /\ met = FALSE /\ faults = 0
    /\ live = began /\ staging = began /\ retired = began
    /\ src = [n \in Names |-> NoTree]
    /\ dest = [k \in Keys |-> src]
    /\ manifest = [k \in Keys |-> {}]
    /\ edits = 0 /\ kept = {} /\ broken = {}

GeneratedStep ==
    \/ ClearStaging \/ WriteFile \/ Staged \/ Cleanup
    \/ DropRetired \/ Retire \/ Install \/ Restore \/ Discard \/ Swapped

ExtensionStep ==
    \/ WriteStub \/ StubsWritten
    \/ Look \/ Archived \/ MoveDir \/ CopyDir \/ DiscardCopy \/ RemoveSource \/ WriteManifest

Next ==
    \/ \E v \in Versions : Materialize(v)
    \/ GeneratedStep
    \/ \E names \in (SUBSET Names) \ {{}} : WriteStubs(names)
    \/ \E k \in Keys, names \in (SUBSET Names) \ {{}} : ArchiveExtensions(k, names)
    \/ ExtensionStep
    \/ Kill \/ KillInside
    \/ \E n \in Names : Edit(n)

Spec == Init /\ [][Next]_vars

----------------------------------------------------------------------------
(* Properties *)

IsWhole(tree, r) == \E v \in Versions : tree # NoTree /\ tree = Whole(v, r)

\* What a run of Materialize promises for a root, however it ends (its comment). It
\* is never a mixture of two versions, and half written only if it was not whole before.
\* Where it is missing and was there before, the run was stopped between the two
\* renames: what was there is in the retired sibling as it was, and what was to come
\* is whole in the staging one.
SwapIsSafe ==
    \A r \in AllRoots :
        /\ \/ live[r] = NoTree \/ IsWhole(live[r], r)
           \/ ~IsWhole(began[r], r) /\ \E v \in Versions : live[r] \subseteq Tree(v, r)
        /\ live[r] = NoTree /\ began[r] # NoTree /\ Files(version, r) # {} =>
              retired[r] = began[r] /\ staging[r] = Whole(version, r)

\* materialize.go: "an interrupted materialization leaves each generated root either
\* fully updated or untouched - never a half-written tree".
NeverHalfWritten == \A r \in AllRoots : live[r] = NoTree \/ IsWhole(live[r], r)

\* Running Materialize again recovers, whatever the kills and failures before it
\* left on disk: a run that meets no fault of its own does not return an error, and
\* after it every root is exactly what the version has.
RerunRecovers ==
    pc = "idle" /\ cmd = "materialize" /\ result \in {"ok", "error"} /\ ~met =>
        result = "ok" /\ \A r \in AllRoots : live[r] = Whole(version, r)

\* What the developer wrote and did not replace is somewhere, complete: in place or
\* in an archive. Neither a stub, nor a move that fails or is killed half way, nor
\* an archive of another extension under the same name costs it (the
\* comments of WriteStubs and ArchiveExtensions).
UserCodeKept ==
    \A c \in kept : \E n \in Names : src[n] = c \/ \E k \in Keys : dest[k][n] = c

Recorded(k, n) == manifest[k] # Corrupt /\ n \in manifest[k]

\* The manifest never names an archive that does not exist. An archive is missing
\* from a manifest that can be read only if a fault came between its move and its
\* record (ArchiveExtensions). One whose write was cut off names nothing any more.
ManifestMatches ==
    \A k \in Keys, n \in Names :
        /\ Recorded(k, n) => dest[k][n] # NoTree
        /\ pc = "idle" /\ dest[k][n] \notin {NoTree, Part} /\ <<k, n>> \notin broken =>
              Recorded(k, n) \/ manifest[k] = Corrupt

\* writeManifest (archive.go): "archiving into the same key twice never drops an
\* earlier association".
AssociationsKept ==
    [][\A k \in Keys, n \in Names : Recorded(k, n) => Recorded(k, n)']_vars
=============================================================================
