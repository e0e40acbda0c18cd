---------------------------- MODULE WorkspaceProofs ----------------------------
(***************************************************************************)
(* What Forge does to a project directory, for any roots, versions,        *)
(* extensions and archives and any number of faults: an inductive          *)
(* invariant, in two halves that share the command at hand (pc, cmd):      *)
(* what is known of the three generated trees of a root at each position   *)
(* of Materialize, and what is known of a directory of the developer's     *)
(* while it is moved.                                                      *)
(***************************************************************************)
EXTENDS Workspace, TLAPS

FirstPass  == {"clear", "write", "cleanup"}
SecondPass == {"drop", "retire", "install", "restore", "discard", "swapped"}
Extending  == {"stub", "look", "move", "copy", "discard copy", "unlink", "record"}

-----------------------------------------------------------------------------
(* The generated roots.                                                    *)

\* A tree on disk holds files of one version, if not all of them.
OfOneVersion(tree, r) == tree = NoTree \/ \E v \in Versions : tree \subseteq Tree(v, r)

Trees == {t \in [AllRoots -> AnyTree] : \A r \in AllRoots : OfOneVersion(t[r], r)}

GeneratedTypeOK ==
    /\ pc \in {"idle"} \cup FirstPass \cup SecondPass \cup Extending
    /\ at \in DOMAIN Roots /\ version \in Versions
    /\ began \in Trees /\ live \in Trees /\ staging \in Trees /\ retired \in Trees
    /\ cmd \in {"none", "materialize", "stubs", "archive"}
    /\ result \in {"none", "ok", "error", "killed"}
    /\ met \in BOOLEAN /\ faults \in Nat

HasFiles(r) == Files(version, r) # {}
Ready(r)    == staging[r] = Whole(version, r)

\* What a run knows of the roots it has dealt with, has in hand, and has before it.
PassOK ==
    /\ pc \in FirstPass => live = began
    /\ pc \in {"clear", "write"} => \A i \in DOMAIN Roots : i < at => Ready(Roots[i])
    /\ pc = "write" =>
          \/ staging[root] = NoTree
          \/ HasFiles(root) /\ staging[root] \subseteq Tree(version, root)
    /\ pc \in SecondPass => \A i \in DOMAIN Roots :
          /\ i > at => live[Roots[i]] = began[Roots[i]] /\ Ready(Roots[i])
          /\ i < at /\ HasFiles(Roots[i]) => live[Roots[i]] # NoTree
    /\ pc \in {"drop", "retire"} => live[root] = began[root] /\ Ready(root)
    /\ pc \in {"install", "restore"} =>
          /\ Ready(root)
          /\ \/ live[root] = began[root]
             \/ live[root] = NoTree /\ retired[root] = began[root]
    /\ pc \in {"discard", "swapped"} /\ HasFiles(root) => live[root] # NoTree

\* The two halves of SwapIsSafe for one root.
Unharmed(r) == IsWhole(began[r], r) => live[r] = NoTree \/ IsWhole(live[r], r)
Recoverable(r) ==
    live[r] = NoTree /\ began[r] # NoTree /\ HasFiles(r) =>
        retired[r] = began[r] /\ staging[r] = Whole(version, r)
SwapOK == \A r \in AllRoots : Unharmed(r) /\ Recoverable(r)

\* What a run that has met no fault knows.
CleanOK ==
    /\ pc \in FirstPass \cup SecondPass => cmd = "materialize"
    /\ pc \in Extending => cmd # "materialize"
    /\ ~met =>
          /\ pc \notin {"cleanup", "restore"}
          /\ pc \in SecondPass => \A i \in DOMAIN Roots :
                i < at => live[Roots[i]] = Whole(version, Roots[i])
          /\ pc = "retire" => retired[root] = NoTree
          /\ pc = "install" => live[root] = NoTree
          /\ pc \in {"discard", "swapped"} => live[root] = Whole(version, root)

GInv == GeneratedTypeOK /\ PassOK /\ SwapOK /\ CleanOK /\ RerunRecovers

LEMMA RootsAre ==
    /\ Len(Roots) \in Nat /\ DOMAIN Roots = 1 .. Len(Roots)
    /\ \A i \in DOMAIN Roots : Roots[i] \in AllRoots
    /\ \A r \in AllRoots : \E i \in DOMAIN Roots : r = Roots[i]
    /\ \A i, j \in DOMAIN Roots : Roots[i] = Roots[j] => i = j
BY WorkspaceAssumption DEF AllRoots

LEMMA TreesAre ==
    ASSUME NEW v \in Versions, NEW r \in AllRoots
    PROVE  /\ Whole(v, r) = NoTree <=> Files(v, r) = {}
           /\ Files(v, r) # {} => Whole(v, r) = Tree(v, r)
           /\ Tree(v, r) \in AnyTree /\ Tree(v, r) # NoTree
           /\ OfOneVersion(Whole(v, r), r)
<1>1. PICK i \in DOMAIN Roots : r = Roots[i]  BY RootsAre
<1>2. Tree(v, r) \in SUBSET (Versions \X UNION {Files(w, Roots[j]) : w \in Versions, j \in DOMAIN Roots})
  BY <1>1 DEF Tree
<1>3. Tree(v, r) # NoTree  BY <1>2, WorkspaceAssumption
<1>4. Tree(v, r) \in AnyTree  BY <1>2 DEF AnyTree
<1> QED BY <1>3, <1>4 DEF Whole, OfOneVersion

LEMMA Remnant ==
    ASSUME NEW t \in Trees, NEW r \in AllRoots, NEW rest \in Remnants(t[r])
    PROVE  rest \in AnyTree /\ OfOneVersion(rest, r)
<1>1. t[r] \in AnyTree /\ OfOneVersion(t[r], r)  BY DEF Trees
<1> QED BY <1>1 DEF Remnants, OfOneVersion, AnyTree

LEMMA LeftoversAre ==
    ASSUME staging \in Trees, NEW trees \in Leftovers
    PROVE  trees \in Trees
<1>1. ASSUME NEW r \in AllRoots PROVE OfOneVersion(trees[r], r)
  <2>1. CASE trees[r] = NoTree  BY <2>1 DEF OfOneVersion
  <2>2. CASE trees[r] \in Remnants(staging[r])  BY <2>2, Remnant
  <2> QED BY <2>1, <2>2 DEF Leftovers
<1> QED BY <1>1 DEF Leftovers, Trees

LEMMA AnyOne == NoTree \in AnyTree /\ \A r \in AllRoots : OfOneVersion(NoTree, r)
BY DEF AnyTree, OfOneVersion

LEMMA InHand ==
    ASSUME GeneratedTypeOK
    PROVE  /\ root \in AllRoots /\ at \in Nat
           /\ \A i \in DOMAIN Roots : i # at => Roots[i] \in AllRoots /\ Roots[i] # root
BY RootsAre DEF GeneratedTypeOK, root

\* A command that stops and leaves the trees as they are.
LEMMA Stops ==
    ASSUME GInv, pc' = "idle", met' \/ cmd # "materialize", met' \in BOOLEAN, faults' \in Nat,
           result' \in {"ok", "error", "killed"},
           UNCHANGED <<at, version, began, cmd, generated>>
    PROVE  GInv'
<1>1. GeneratedTypeOK'  BY DEF GInv, GeneratedTypeOK, generated
<1>2. PassOK' /\ CleanOK'  BY DEF PassOK, CleanOK, FirstPass, SecondPass, Extending
<1>3. SwapOK'
  BY DEF GInv, SwapOK, Unharmed, Recoverable, HasFiles, IsWhole, generated
<1>4. RerunRecovers'
  BY DEF RerunRecovers
<1> QED BY <1>1, <1>2, <1>3, <1>4 DEF GInv

LEMMA Materializing ==
    ASSUME GInv, NEW v \in Versions, Materialize(v)
    PROVE  GInv'
<1>0. 1 \in DOMAIN Roots
  <2>1. \E i \in DOMAIN Roots : Files(v, Roots[i]) # {}  BY WorkspaceAssumption
  <2> QED BY <2>1, RootsAre
<1>1. GeneratedTypeOK'
  BY <1>0 DEF GInv, GeneratedTypeOK, Materialize, generated, FirstPass
<1>2. PassOK' /\ CleanOK'
  BY <1>1, RootsAre DEF GeneratedTypeOK, Materialize, PassOK, CleanOK, FirstPass, SecondPass, Extending,
              generated
<1>3. SwapOK'
  BY DEF Materialize, SwapOK, Unharmed, Recoverable, IsWhole, generated
<1>4. RerunRecovers'  BY DEF Materialize, RerunRecovers
<1> QED BY <1>1, <1>2, <1>3, <1>4 DEF GInv

LEMMA Clearing ==
    ASSUME GInv, ClearStaging
    PROVE  GInv'
<1>0. /\ GeneratedTypeOK /\ PassOK /\ CleanOK /\ pc = "clear" /\ live' = live /\ retired' = retired
      /\ UNCHANGED <<at, version, began, cmd>> /\ root' = root /\ live = began
  BY DEF GInv, ClearStaging, Goto, FailTo, root, PassOK, FirstPass
<1>1. /\ staging' \in Trees /\ \A o \in AllRoots \ {root} : staging'[o] = staging[o]
      /\ pc' = "write" => staging'[root] = NoTree
      /\ pc' \in {"write", "cleanup"} /\ met' \in BOOLEAN /\ faults' \in Nat
      /\ pc' = "cleanup" => met' = TRUE
      /\ result' = result
  <2>1. CASE staging' = [staging EXCEPT ![root] = NoTree] /\ Goto("write")
    BY <1>0, <2>1, InHand, AnyOne DEF Goto, GeneratedTypeOK, Trees
  <2>2. ASSUME NEW rest \in Remnants(staging[root]),
               staging' = [staging EXCEPT ![root] = rest], FailTo("cleanup")
        PROVE  /\ staging' \in Trees /\ \A o \in AllRoots \ {root} : staging'[o] = staging[o]
               /\ pc' = "cleanup" /\ met' = TRUE /\ faults' \in Nat /\ result' = result
    <3>1. rest \in AnyTree /\ OfOneVersion(rest, root)
      BY <1>0, <2>2, InHand, Remnant DEF GeneratedTypeOK
    <3>2. staging' \in Trees /\ \A o \in AllRoots \ {root} : staging'[o] = staging[o]
      BY <1>0, <2>2, <3>1, InHand DEF GeneratedTypeOK, Trees
    <3> QED BY <1>0, <2>2, <3>2 DEF FailTo, GeneratedTypeOK
  <2> QED BY <2>1, <2>2 DEF ClearStaging
<1>2. GeneratedTypeOK'  BY <1>0, <1>1 DEF GeneratedTypeOK, FirstPass
<1>3. PassOK'
  BY <1>0, <1>1, InHand DEF PassOK, FirstPass, SecondPass, Ready, GeneratedTypeOK
<1>4. SwapOK'
  BY <1>0 DEF SwapOK, Unharmed, Recoverable, IsWhole
<1>5. CleanOK' /\ RerunRecovers'
  BY <1>0, <1>1 DEF CleanOK, FirstPass, SecondPass, Extending, RerunRecovers
<1> QED BY <1>2, <1>3, <1>4, <1>5 DEF GInv

LEMMA Writing ==
    ASSUME GInv, WriteFile
    PROVE  GInv'
<1>0. /\ GeneratedTypeOK /\ PassOK /\ CleanOK /\ pc = "write" /\ live' = live /\ retired' = retired
      /\ UNCHANGED <<at, version, began, cmd, result>> /\ root' = root /\ live = began
      /\ root \in AllRoots
  BY InHand DEF GInv, WriteFile, Goto, FailTo, root, PassOK, FirstPass
<1> DEFINE tree == IF staging[root] = NoTree THEN {} ELSE staging[root]
<1>1. PICK f \in Files(version, root) :
         \/ staging' = [staging EXCEPT ![root] = tree \cup {<<version, f>>}] /\ Goto("write")
         \/ staging' = [staging EXCEPT ![root] = tree] /\ FailTo("cleanup")
  BY <1>0 DEF WriteFile
<1>2. tree \subseteq Tree(version, root) /\ <<version, f>> \in Tree(version, root)
  BY <1>0 DEF PassOK, Tree
<1> HIDE DEF tree
<1>3. PICK new \in SUBSET Tree(version, root) : staging' = [staging EXCEPT ![root] = new]
  BY <1>1, <1>2
<1>4. new \in AnyTree /\ OfOneVersion(new, root)
  BY <1>0, TreesAre DEF GeneratedTypeOK, AnyTree, OfOneVersion
<1>5. /\ staging' \in Trees /\ \A o \in AllRoots \ {root} : staging'[o] = staging[o]
      /\ staging'[root] = new
  BY <1>0, <1>3, <1>4 DEF GeneratedTypeOK, Trees
<1>6. /\ pc' \in {"write", "cleanup"} /\ met' \in BOOLEAN /\ faults' \in Nat
      /\ pc' = "cleanup" => met' = TRUE
      /\ met' = TRUE \/ met' = met
  <2>1. CASE Goto("write")  BY <1>0, <2>1 DEF Goto, GeneratedTypeOK
  <2>2. CASE FailTo("cleanup")  BY <1>0, <2>2 DEF FailTo, GeneratedTypeOK
  <2> QED BY <1>1, <2>1, <2>2
<1>7. GeneratedTypeOK'  BY <1>0, <1>5, <1>6 DEF GeneratedTypeOK, FirstPass
<1>8. PassOK'
  BY <1>0, <1>1, <1>5, <1>6, InHand DEF PassOK, FirstPass, SecondPass, Ready, HasFiles
<1>9. SwapOK'
  BY <1>0 DEF SwapOK, Unharmed, Recoverable, IsWhole
<1>10. CleanOK' /\ RerunRecovers'
  BY <1>0, <1>6 DEF CleanOK, FirstPass, SecondPass, Extending, RerunRecovers
<1> QED BY <1>7, <1>8, <1>9, <1>10 DEF GInv

LEMMA StagedOne ==
    ASSUME GInv, Staged
    PROVE  GInv'
<1>0. /\ GeneratedTypeOK /\ PassOK /\ CleanOK /\ pc = "write" /\ UNCHANGED generated
      /\ UNCHANGED <<version, began, cmd, result, met, faults>> /\ live = began
      /\ root \in AllRoots
  BY InHand DEF GInv, Staged, PassOK, FirstPass
<1>1. Ready(root)
  <2>1. CASE HasFiles(root)
    <3>1. staging[root] # NoTree /\ staging[root] \subseteq Tree(version, root)
      BY <1>0, <2>1 DEF PassOK, HasFiles, Staged
    <3>2. Tree(version, root) \subseteq staging[root]  BY <1>0, <2>1 DEF Staged, Tree
    <3> QED BY <1>0, <2>1, <3>1, <3>2, TreesAre DEF Ready, HasFiles, GeneratedTypeOK
  <2>2. CASE ~HasFiles(root)
    BY <1>0, <2>2, TreesAre DEF PassOK, Ready, HasFiles, GeneratedTypeOK
  <2> QED BY <2>1, <2>2
<1>2. \A i \in DOMAIN Roots : i <= at => Ready(Roots[i])
  BY <1>0, <1>1, RootsAre DEF PassOK, GeneratedTypeOK, root
<1>3. \/ at' = at + 1 /\ pc' = "clear" /\ at + 1 \in DOMAIN Roots
      \/ at' = 1 /\ pc' = "drop" /\ at = Len(Roots) /\ 1 \in DOMAIN Roots
  BY <1>0, RootsAre DEF Staged, NextRoot, GeneratedTypeOK
<1>4. GeneratedTypeOK'
  BY <1>0, <1>3 DEF GeneratedTypeOK, FirstPass, SecondPass, generated
<1>5. PassOK'
  <2>1. CASE pc' = "clear"
    BY <1>0, <1>2, <1>3, <2>1, RootsAre
       DEF PassOK, FirstPass, SecondPass, Ready, generated, GeneratedTypeOK
  <2>2. CASE pc' = "drop"
    BY <1>0, <1>2, <1>3, <2>2, RootsAre
       DEF PassOK, FirstPass, SecondPass, Ready, generated, GeneratedTypeOK, root
  <2> QED BY <1>3, <2>1, <2>2
<1>6. SwapOK'
  BY <1>0 DEF SwapOK, Unharmed, Recoverable, IsWhole, generated
<1>7. CleanOK'
  <2>1. cmd = "materialize"  BY <1>0 DEF CleanOK, FirstPass
  <2>2. CASE pc' = "clear"
    BY <1>0, <2>1, <2>2 DEF CleanOK, FirstPass, SecondPass, Extending
  <2>3. CASE pc' = "drop" /\ at' = 1
    <3>1. \A i \in DOMAIN Roots : ~(i < at')  BY <2>3, RootsAre
    <3> QED BY <1>0, <2>1, <2>3, <3>1 DEF CleanOK, FirstPass, SecondPass, Extending
  <2> QED BY <1>3, <2>2, <2>3
<1>8. RerunRecovers'  BY <1>3 DEF RerunRecovers
<1> QED BY <1>4, <1>5, <1>6, <1>7, <1>8 DEF GInv

LEMMA CleaningUp ==
    ASSUME GInv, Cleanup
    PROVE  GInv'
<1>0. /\ GeneratedTypeOK /\ pc = "cleanup" /\ live = began /\ live' = live /\ retired' = retired
      /\ UNCHANGED <<at, version, began, cmd>> /\ pc' = "idle" /\ result' = "error" /\ met = TRUE
  BY DEF GInv, Cleanup, Return, Fail, FailTo, PassOK, CleanOK, FirstPass, GeneratedTypeOK
<1>1. staging' \in Trees
  <2>1. CASE staging' = [r \in AllRoots |-> NoTree]  BY <2>1, AnyOne DEF Trees
  <2>2. CASE staging' \in Leftovers  BY <1>0, <2>2, LeftoversAre DEF GeneratedTypeOK
  <2> QED BY <2>1, <2>2 DEF Cleanup
<1>2. met' = TRUE /\ faults' \in Nat
  <2>1. CASE Return("error")  BY <1>0, <2>1 DEF Return, GeneratedTypeOK
  <2>2. CASE Fail  BY <1>0, <2>2 DEF Fail, FailTo, GeneratedTypeOK
  <2> QED BY <2>1, <2>2 DEF Cleanup
<1>3. GeneratedTypeOK'  BY <1>0, <1>1, <1>2 DEF GeneratedTypeOK
<1>4. PassOK' /\ CleanOK' /\ RerunRecovers'
  BY <1>0, <1>2 DEF PassOK, CleanOK, RerunRecovers, FirstPass, SecondPass, Extending
<1>5. SwapOK'
  BY <1>0 DEF SwapOK, Unharmed, Recoverable, IsWhole
<1> QED BY <1>3, <1>4, <1>5 DEF GInv

\* A removal of the retired tree of the root in hand, whole or cut short.
Removes(l) ==
    \/ retired' = [retired EXCEPT ![root] = NoTree] /\ Goto(l)
    \/ /\ \E rest \in Remnants(retired[root]) : retired' = [retired EXCEPT ![root] = rest]
       /\ FailTo(l)

LEMMA Removing ==
    ASSUME GeneratedTypeOK, NEW l \in SecondPass, Removes(l)
    PROVE  /\ retired' \in Trees /\ \A o \in AllRoots \ {root} : retired'[o] = retired[o]
           /\ pc' = l /\ faults' \in Nat /\ UNCHANGED <<at, version, began, cmd, result>>
           /\ met' = TRUE \/ (met' = met /\ retired'[root] = NoTree)
<1>1. CASE retired' = [retired EXCEPT ![root] = NoTree] /\ Goto(l)
  BY <1>1, InHand, AnyOne DEF Goto, GeneratedTypeOK, Trees
<1>2. ASSUME NEW rest \in Remnants(retired[root]), retired' = [retired EXCEPT ![root] = rest],
             FailTo(l)
      PROVE  /\ retired' \in Trees /\ \A o \in AllRoots \ {root} : retired'[o] = retired[o]
             /\ pc' = l /\ faults' \in Nat /\ UNCHANGED <<at, version, began, cmd, result>>
             /\ met' = TRUE
  <2>1. rest \in AnyTree /\ OfOneVersion(rest, root)
    BY <1>2, InHand, Remnant DEF GeneratedTypeOK
  <2>2. retired' \in Trees /\ \A o \in AllRoots \ {root} : retired'[o] = retired[o]
    BY <1>2, <2>1, InHand DEF GeneratedTypeOK, Trees
  <2>3. l # "idle"  BY DEF SecondPass
  <2> QED BY <1>2, <2>2, <2>3 DEF FailTo, GeneratedTypeOK
<1> QED BY <1>1, <1>2 DEF Removes

LEMMA Dropping ==
    ASSUME GInv, DropRetired
    PROVE  GInv'
<1>0. /\ GeneratedTypeOK /\ PassOK /\ CleanOK /\ pc = "drop" /\ live' = live /\ staging' = staging
      /\ Removes("retire")
  BY DEF GInv, DropRetired, Removes
<1>1. /\ retired' \in Trees /\ \A o \in AllRoots \ {root} : retired'[o] = retired[o]
      /\ pc' = "retire" /\ faults' \in Nat /\ UNCHANGED <<at, version, began, cmd, result>>
      /\ met' = TRUE \/ (met' = met /\ retired'[root] = NoTree)
  BY <1>0, Removing DEF SecondPass
<1>2. root' = root  BY <1>1 DEF root
<1>3. met' \in BOOLEAN  BY <1>0, <1>1 DEF GeneratedTypeOK
<1>4. GeneratedTypeOK'  BY <1>0, <1>1, <1>3 DEF GeneratedTypeOK, SecondPass
<1>5. PassOK'  BY <1>0, <1>1, <1>2 DEF PassOK, FirstPass, SecondPass, Ready, HasFiles
<1>6. SwapOK'
  BY <1>0, <1>1, InHand
     DEF GInv, PassOK, SwapOK, Unharmed, Recoverable, IsWhole, HasFiles
<1>7. CleanOK'  BY <1>0, <1>1, <1>2 DEF CleanOK, FirstPass, SecondPass, Extending
<1>8. RerunRecovers'  BY <1>1 DEF RerunRecovers
<1> QED BY <1>4, <1>5, <1>6, <1>7, <1>8 DEF GInv

LEMMA Discarding ==
    ASSUME GInv, Discard
    PROVE  GInv'
<1>0. /\ GeneratedTypeOK /\ PassOK /\ CleanOK /\ pc = "discard" /\ live' = live
      /\ staging' = staging /\ Removes("swapped")
  BY DEF GInv, Discard, Removes
<1>1. /\ retired' \in Trees /\ \A o \in AllRoots \ {root} : retired'[o] = retired[o]
      /\ pc' = "swapped" /\ faults' \in Nat /\ UNCHANGED <<at, version, began, cmd, result>>
      /\ met' = TRUE \/ met' = met
  BY <1>0, Removing DEF SecondPass
<1>2. root' = root  BY <1>1 DEF root
<1>3. met' \in BOOLEAN  BY <1>0, <1>1 DEF GeneratedTypeOK
<1>4. GeneratedTypeOK'  BY <1>0, <1>1, <1>3 DEF GeneratedTypeOK, SecondPass
<1>5. PassOK'  BY <1>0, <1>1, <1>2 DEF PassOK, FirstPass, SecondPass, Ready, HasFiles
<1>6. SwapOK'
  BY <1>0, <1>1, InHand
     DEF GInv, PassOK, SwapOK, Unharmed, Recoverable, IsWhole, HasFiles
<1>7. CleanOK'  BY <1>0, <1>1, <1>2 DEF CleanOK, FirstPass, SecondPass, Extending
<1>8. RerunRecovers'  BY <1>1 DEF RerunRecovers
<1> QED BY <1>4, <1>5, <1>6, <1>7, <1>8 DEF GInv

\* A failure that does not end the run.
LEMMA Fails ==
    ASSUME GeneratedTypeOK, NEW l, l # "idle", FailTo(l)
    PROVE  /\ pc' = l /\ met' = TRUE /\ faults' \in Nat
           /\ UNCHANGED <<at, version, began, cmd, result>> /\ root' = root
BY DEF FailTo, GeneratedTypeOK, root

LEMMA Goes ==
    ASSUME GeneratedTypeOK, NEW l, Goto(l)
    PROVE  /\ pc' = l /\ met' = met /\ faults' \in Nat
           /\ UNCHANGED <<at, version, began, cmd, result>> /\ root' = root
BY DEF Goto, GeneratedTypeOK, root

\* A failure or a refusal that ends the run and leaves the trees as they are.
LEMMA FailsAway ==
    ASSUME GInv, Fail, UNCHANGED generated
    PROVE  GInv'
<1>1. met' = TRUE /\ faults' \in Nat  BY DEF GInv, Fail, FailTo, GeneratedTypeOK
<1> QED BY <1>1, Stops DEF Fail, FailTo

LEMMA Retiring ==
    ASSUME GInv, Retire
    PROVE  GInv'
<1>0. /\ GeneratedTypeOK /\ PassOK /\ CleanOK /\ pc = "retire" /\ staging' = staging
      /\ root \in AllRoots /\ live[root] = began[root]
  BY InHand DEF GInv, Retire, PassOK
<1>1. CASE UNCHANGED <<live, retired>> /\ Goto("install") /\ live[root] = NoTree
  <2>1. /\ pc' = "install" /\ met' = met /\ faults' \in Nat
        /\ UNCHANGED <<at, version, began, cmd, result>> /\ root' = root
    BY <1>0, <1>1, Goes
  <2>2. GeneratedTypeOK'  BY <1>0, <1>1, <2>1 DEF GeneratedTypeOK, SecondPass
  <2>3. PassOK'  BY <1>0, <1>1, <2>1 DEF PassOK, FirstPass, SecondPass, Ready, HasFiles
  <2>4. SwapOK'
    BY <1>0, <1>1, <2>1 DEF GInv, SwapOK, Unharmed, Recoverable, IsWhole, HasFiles
  <2>5. CleanOK'  BY <1>0, <1>1, <2>1 DEF CleanOK, FirstPass, SecondPass, Extending
  <2>6. RerunRecovers'  BY <2>1 DEF RerunRecovers
  <2> QED BY <2>2, <2>3, <2>4, <2>5, <2>6 DEF GInv
<1>2. CASE /\ retired' = [retired EXCEPT ![root] = live[root]]
           /\ live' = [live EXCEPT ![root] = NoTree]
           /\ Goto("install")
  <2>1. /\ pc' = "install" /\ met' = met /\ faults' \in Nat
        /\ UNCHANGED <<at, version, began, cmd, result>> /\ root' = root
    BY <1>0, <1>2, Goes
  <2>2. /\ live' \in Trees /\ live'[root] = NoTree
        /\ \A o \in AllRoots \ {root} : live'[o] = live[o]
    BY <1>0, <1>2, AnyOne DEF GeneratedTypeOK, Trees
  <2>3. /\ retired' \in Trees /\ retired'[root] = began[root]
        /\ \A o \in AllRoots \ {root} : retired'[o] = retired[o]
    BY <1>0, <1>2 DEF GeneratedTypeOK, Trees
  <2>4. GeneratedTypeOK'  BY <1>0, <2>1, <2>2, <2>3 DEF GeneratedTypeOK, SecondPass
  <2>5. PassOK'
    BY <1>0, <2>1, <2>2, <2>3, InHand DEF PassOK, FirstPass, SecondPass, Ready, HasFiles
  <2>6. SwapOK'
    BY <1>0, <2>1, <2>2, <2>3
       DEF GInv, PassOK, SwapOK, Unharmed, Recoverable, IsWhole, HasFiles, Ready
  <2>7. CleanOK'
    BY <1>0, <2>1, <2>2, InHand DEF CleanOK, FirstPass, SecondPass, Extending
  <2>8. RerunRecovers'  BY <2>1 DEF RerunRecovers
  <2> QED BY <2>4, <2>5, <2>6, <2>7, <2>8 DEF GInv
<1>3. CASE UNCHANGED <<live, retired>> /\ retired[root] # NoTree /\ Return("error")
  <2>1. met = TRUE  BY <1>0, <1>3 DEF CleanOK, GeneratedTypeOK
  <2>2. pc' = "idle" /\ result' = "error" /\ UNCHANGED <<at, version, began, cmd, met, faults>>
    BY <1>3 DEF Return
  <2> QED BY <1>0, <1>3, <2>1, <2>2, Stops DEF generated, GeneratedTypeOK
<1>4. CASE UNCHANGED <<live, retired>> /\ Fail
  BY <1>0, <1>4, FailsAway DEF generated
<1>5. CASE UNCHANGED <<live, retired>> /\ FailTo("install")
  <2>1. /\ pc' = "install" /\ met' = TRUE /\ faults' \in Nat
        /\ UNCHANGED <<at, version, began, cmd, result>> /\ root' = root
    BY <1>0, <1>5, Fails
  <2>2. GeneratedTypeOK'  BY <1>0, <1>5, <2>1 DEF GeneratedTypeOK, SecondPass
  <2>3. PassOK'  BY <1>0, <1>5, <2>1 DEF PassOK, FirstPass, SecondPass, Ready, HasFiles
  <2>4. SwapOK'
    BY <1>0, <1>5, <2>1 DEF GInv, SwapOK, Unharmed, Recoverable, IsWhole, HasFiles
  <2>5. CleanOK' /\ RerunRecovers'
    BY <1>0, <2>1 DEF CleanOK, FirstPass, SecondPass, Extending, RerunRecovers
  <2> QED BY <2>2, <2>3, <2>4, <2>5 DEF GInv
<1> QED BY <1>1, <1>2, <1>3, <1>4, <1>5 DEF Retire

LEMMA Installing ==
    ASSUME GInv, Install
    PROVE  GInv'
<1>0. /\ GeneratedTypeOK /\ PassOK /\ CleanOK /\ pc = "install" /\ retired' = retired
      /\ root \in AllRoots /\ version \in Versions /\ Ready(root)
      /\ \/ live[root] = began[root]
         \/ live[root] = NoTree /\ retired[root] = began[root]
  BY InHand DEF GInv, Install, PassOK, GeneratedTypeOK
<1>1. CASE ~HasFiles(root) /\ UNCHANGED <<live, staging>> /\ Goto("discard")
  <2>1. /\ pc' = "discard" /\ met' = met /\ faults' \in Nat
        /\ UNCHANGED <<at, version, began, cmd, result>> /\ root' = root
    BY <1>0, <1>1, Goes
  <2>2. GeneratedTypeOK'  BY <1>0, <1>1, <2>1 DEF GeneratedTypeOK, SecondPass
  <2>3. PassOK'  BY <1>0, <1>1, <2>1 DEF PassOK, FirstPass, SecondPass, Ready, HasFiles
  <2>4. SwapOK'
    BY <1>0, <1>1, <2>1 DEF GInv, SwapOK, Unharmed, Recoverable, IsWhole, HasFiles
  <2>5. Whole(version, root) = NoTree  BY <1>0, <1>1, TreesAre DEF HasFiles
  <2>6. CleanOK'  BY <1>0, <1>1, <2>1, <2>5 DEF CleanOK, FirstPass, SecondPass, Extending
  <2>7. RerunRecovers'  BY <2>1 DEF RerunRecovers
  <2> QED BY <2>2, <2>3, <2>4, <2>6, <2>7 DEF GInv
<1>2. CASE /\ HasFiles(root)
           /\ live' = [live EXCEPT ![root] = staging[root]]
           /\ staging' = [staging EXCEPT ![root] = NoTree]
           /\ Goto("discard")
  <2>1. /\ pc' = "discard" /\ met' = met /\ faults' \in Nat
        /\ UNCHANGED <<at, version, began, cmd, result>> /\ root' = root
    BY <1>0, <1>2, Goes
  <2>2. /\ live' \in Trees /\ live'[root] = Whole(version, root)
        /\ \A o \in AllRoots \ {root} : live'[o] = live[o]
    BY <1>0, <1>2 DEF GeneratedTypeOK, Trees, Ready
  <2>3. /\ staging' \in Trees /\ \A o \in AllRoots \ {root} : staging'[o] = staging[o]
    BY <1>0, <1>2, AnyOne DEF GeneratedTypeOK, Trees
  <2>4. IsWhole(live'[root], root) /\ live'[root] # NoTree
    BY <1>0, <1>2, <2>2, TreesAre DEF IsWhole, HasFiles
  <2>5. GeneratedTypeOK'  BY <1>0, <2>1, <2>2, <2>3 DEF GeneratedTypeOK, SecondPass
  <2>6. PassOK'
    BY <1>0, <2>1, <2>2, <2>3, <2>4, InHand DEF PassOK, FirstPass, SecondPass, Ready, HasFiles
  <2>7. SwapOK'
    BY <1>0, <2>1, <2>2, <2>3, <2>4 DEF GInv, SwapOK, Unharmed, Recoverable, IsWhole, HasFiles
  <2>8. CleanOK'
    BY <1>0, <2>1, <2>2, InHand DEF CleanOK, FirstPass, SecondPass, Extending
  <2>9. RerunRecovers'  BY <2>1 DEF RerunRecovers
  <2> QED BY <2>5, <2>6, <2>7, <2>8, <2>9 DEF GInv
<1>3. ASSUME UNCHANGED <<live, staging>>, pc' = "restore", met' = TRUE, faults' \in Nat,
             UNCHANGED <<at, version, began, cmd, result>>, root' = root
      PROVE  GInv'
  <2>1. GeneratedTypeOK'  BY <1>0, <1>3 DEF GeneratedTypeOK, SecondPass
  <2>2. PassOK'  BY <1>0, <1>3 DEF PassOK, FirstPass, SecondPass, Ready, HasFiles
  <2>3. SwapOK'
    BY <1>0, <1>3 DEF GInv, SwapOK, Unharmed, Recoverable, IsWhole, HasFiles
  <2>4. CleanOK' /\ RerunRecovers'
    BY <1>0, <1>3 DEF CleanOK, FirstPass, SecondPass, Extending, RerunRecovers
  <2> QED BY <2>1, <2>2, <2>3, <2>4 DEF GInv
<1>4. CASE UNCHANGED <<live, staging>> /\ live[root] # NoTree /\ Goto("restore")
  <2>1. met = TRUE  BY <1>0, <1>4 DEF CleanOK, GeneratedTypeOK
  <2> QED BY <1>0, <1>3, <1>4, <2>1, Goes
<1>5. CASE UNCHANGED <<live, staging>> /\ FailTo("restore")
  BY <1>0, <1>3, <1>5, Fails
<1> QED BY <1>1, <1>2, <1>4, <1>5 DEF Install, HasFiles

LEMMA Restoring ==
    ASSUME GInv, Restore
    PROVE  GInv'
<1>0. /\ GeneratedTypeOK /\ PassOK /\ pc = "restore" /\ staging' = staging /\ met = TRUE
      /\ root \in AllRoots
      /\ \/ live[root] = began[root]
         \/ live[root] = NoTree /\ retired[root] = began[root]
  BY InHand DEF GInv, Restore, PassOK, CleanOK, GeneratedTypeOK
<1>1. CASE /\ retired[root] # NoTree /\ live[root] = NoTree
           /\ live' = [live EXCEPT ![root] = retired[root]]
           /\ retired' = [retired EXCEPT ![root] = NoTree]
           /\ Return("error")
  <2>1. pc' = "idle" /\ result' = "error" /\ UNCHANGED <<at, version, began, cmd, met, faults>>
    BY <1>1 DEF Return
  <2>2. /\ live' \in Trees /\ live'[root] = retired[root]
        /\ \A o \in AllRoots \ {root} : live'[o] = live[o]
    BY <1>0, <1>1 DEF GeneratedTypeOK, Trees
  <2>3. /\ retired' \in Trees /\ \A o \in AllRoots \ {root} : retired'[o] = retired[o]
    BY <1>0, <1>1, AnyOne DEF GeneratedTypeOK, Trees
  <2>4. IsWhole(began[root], root) => live'[root] = began[root]
    BY <1>0, <1>1, <2>2 DEF IsWhole
  <2>5. GeneratedTypeOK'  BY <1>0, <2>1, <2>2, <2>3 DEF GeneratedTypeOK
  <2>6. PassOK' /\ CleanOK' /\ RerunRecovers'
    BY <1>0, <2>1 DEF PassOK, CleanOK, RerunRecovers, FirstPass, SecondPass, Extending
  <2>7. ASSUME NEW o \in AllRoots PROVE Unharmed(o)' /\ Recoverable(o)'
    <3>1. CASE o = root
      BY <1>0, <1>1, <2>1, <2>2, <2>4, <3>1 DEF Unharmed, Recoverable, IsWhole
    <3>2. CASE o # root
      BY <1>0, <2>1, <2>2, <2>3, <3>2 DEF GInv, SwapOK, Unharmed, Recoverable, IsWhole, HasFiles
    <3> QED BY <3>1, <3>2
  <2> QED BY <2>5, <2>6, <2>7 DEF GInv, SwapOK
<1>2. CASE UNCHANGED <<live, retired>> /\ Return("error")
  <2>1. pc' = "idle" /\ result' = "error" /\ UNCHANGED <<at, version, began, cmd, met, faults>>
    BY <1>2 DEF Return
  <2> QED BY <1>0, <1>2, <2>1, Stops DEF generated, GeneratedTypeOK
<1>3. CASE UNCHANGED <<live, retired>> /\ Fail
  BY <1>0, <1>3, FailsAway DEF generated
<1> QED BY <1>1, <1>2, <1>3 DEF Restore

LEMMA SwappedOne ==
    ASSUME GInv, Swapped
    PROVE  GInv'
<1>0. /\ GeneratedTypeOK /\ PassOK /\ CleanOK /\ SwapOK /\ pc = "swapped" /\ UNCHANGED generated
      /\ UNCHANGED <<version, began, cmd, met, faults>> /\ root \in AllRoots
  BY InHand DEF GInv, Swapped
<1>1. SwapOK'
  BY <1>0 DEF SwapOK, Unharmed, Recoverable, IsWhole, HasFiles, generated
<1>2. CASE at' = at + 1 /\ pc' = "drop" /\ UNCHANGED result /\ at < Len(Roots)
  <2>1. at + 1 \in DOMAIN Roots /\ at \in Nat  BY <1>0, <1>2, RootsAre DEF GeneratedTypeOK
  <2>2. GeneratedTypeOK'
    BY <1>0, <1>2, <2>1 DEF GeneratedTypeOK, SecondPass, generated
  <2>3. \A i \in DOMAIN Roots : (i < at + 1 => i <= at) /\ (i > at + 1 => i > at) /\ i \in Nat
    BY <2>1, RootsAre
  <2>4. \A i \in DOMAIN Roots : i <= at => (i < at \/ Roots[i] = root)
    BY <2>1, <2>3, RootsAre DEF root
  <2>5. root' = Roots[at + 1] /\ at + 1 > at  BY <1>2, <2>1 DEF root
  <2>6. PassOK'
    BY <1>0, <1>2, <2>1, <2>3, <2>4, <2>5
       DEF PassOK, FirstPass, SecondPass, Ready, HasFiles, generated
  <2>7. CleanOK'
    BY <1>0, <1>2, <2>3, <2>4 DEF CleanOK, FirstPass, SecondPass, Extending, generated
  <2>8. RerunRecovers'  BY <1>2 DEF RerunRecovers
  <2> QED BY <1>1, <2>2, <2>6, <2>7, <2>8 DEF GInv
<1>3. CASE at' = 1 /\ pc' = "idle" /\ result' = "ok" /\ ~(at < Len(Roots))
  <2>1. at = Len(Roots) /\ 1 \in DOMAIN Roots  BY <1>0, <1>3, RootsAre DEF GeneratedTypeOK
  <2>2. GeneratedTypeOK'  BY <1>0, <1>3, <2>1 DEF GeneratedTypeOK, generated
  <2>3. PassOK' /\ CleanOK'
    BY <1>3 DEF PassOK, CleanOK, FirstPass, SecondPass, Extending
  <2>4. ~met => \A i \in DOMAIN Roots : live[Roots[i]] = Whole(version, Roots[i])
    <3>1. \A i \in DOMAIN Roots : i < at \/ i = at  BY <2>1, RootsAre
    <3> QED BY <1>0, <3>1 DEF CleanOK, SecondPass, root
  <2>5. RerunRecovers'
    BY <1>0, <1>3, <2>4, RootsAre DEF RerunRecovers, generated
  <2> QED BY <1>1, <2>2, <2>3, <2>5 DEF GInv
<1> QED BY <1>2, <1>3 DEF Swapped

\* A command that has nothing to do with the generated roots.
LEMMA Elsewhere ==
    ASSUME GInv, UNCHANGED <<at, version, began, generated>>,
           pc' \in Extending \cup {"idle"}, cmd' \in {"none", "stubs", "archive"},
           result' \in {"none", "ok", "error", "killed"}, met' \in BOOLEAN, faults' \in Nat
    PROVE  GInv'
<1>1. GeneratedTypeOK'  BY DEF GInv, GeneratedTypeOK, generated
<1>2. PassOK' /\ CleanOK' /\ RerunRecovers'
  BY DEF PassOK, CleanOK, RerunRecovers, FirstPass, SecondPass, Extending
<1>3. SwapOK'
  BY DEF GInv, SwapOK, Unharmed, Recoverable, HasFiles, IsWhole, generated
<1> QED BY <1>1, <1>2, <1>3 DEF GInv

LEMMA ExtendingKeeps ==
    ASSUME GInv, ExtensionStep
    PROVE  GInv'
<1>1. /\ GeneratedTypeOK /\ CleanOK /\ pc \in Extending
      /\ UNCHANGED <<at, version, began, cmd, generated>>
  BY DEF GInv, ExtensionStep, Extending, WriteStub, StubsWritten, Look, Archived, MoveDir, CopyDir,
         DiscardCopy, RemoveSource, WriteManifest, Goto, Return, Fail, FailTo
<1>2. cmd' \in {"none", "stubs", "archive"}  BY <1>1 DEF GeneratedTypeOK, CleanOK
<1>3. CASE WriteStub
  <2>1. /\ pc' = pc \/ pc' = "idle"
        /\ result' \in {"none", "ok", "error", "killed"} /\ faults' \in Nat
        /\ met' = met \/ met' = TRUE
    BY <1>1, <1>3 DEF WriteStub, GeneratedTypeOK
  <2>2. met' \in BOOLEAN  BY <1>1, <2>1 DEF GeneratedTypeOK
  <2> QED BY <1>1, <1>2, <2>1, <2>2, Elsewhere
<1>4. CASE Look
  BY <1>1, <1>2, <1>4, Elsewhere DEF Look, GeneratedTypeOK, Extending
<1>5. ASSUME NEW how \in {"ok", "error"}, Return(how) PROVE GInv'
  BY <1>1, <1>2, <1>5, Elsewhere DEF Return, GeneratedTypeOK
<1>6. ASSUME NEW l \in Extending, Goto(l) PROVE GInv'
  BY <1>1, <1>2, <1>6, Elsewhere DEF Goto, GeneratedTypeOK
<1>7. ASSUME NEW l \in Extending \cup {"idle"}, FailTo(l) PROVE GInv'
  <2>1. met' = TRUE /\ pc' = l /\ faults' \in Nat /\ result' \in {"none", "ok", "error", "killed"}
    BY <1>1, <1>7 DEF FailTo, GeneratedTypeOK
  <2> QED BY <1>1, <1>2, <2>1, Elsewhere
<1>8. {"record", "copy", "unlink", "look", "discard copy"} \subseteq Extending  BY DEF Extending
<1>9. CASE StubsWritten \/ Archived  BY <1>5, <1>9 DEF StubsWritten, Archived
<1>10. CASE MoveDir  BY <1>6, <1>7, <1>8, <1>10 DEF MoveDir, Fail
<1>11. CASE CopyDir  BY <1>6, <1>7, <1>8, <1>11 DEF CopyDir
<1>12. CASE DiscardCopy  BY <1>5, <1>7, <1>12 DEF DiscardCopy, Fail
<1>13. CASE RemoveSource  BY <1>6, <1>7, <1>8, <1>13 DEF RemoveSource, Fail
<1>14. CASE WriteManifest  BY <1>5, <1>6, <1>7, <1>8, <1>14 DEF WriteManifest, Fail
<1> QED BY <1>3, <1>4, <1>9, <1>10, <1>11, <1>12, <1>13, <1>14 DEF ExtensionStep

LEMMA Killing ==
    ASSUME GInv, Kill
    PROVE  GInv'
<1>1. met' = TRUE /\ faults' \in Nat  BY DEF GInv, Kill, GeneratedTypeOK
<1> QED BY <1>1, Stops DEF Kill

LEMMA KillingInside ==
    ASSUME GInv, KillInside
    PROVE  GInv'
<1>0. /\ GeneratedTypeOK /\ PassOK /\ CleanOK /\ SwapOK
      /\ pc' = "idle" /\ result' = "killed" /\ met' = TRUE /\ faults' \in Nat
      /\ UNCHANGED <<at, version, began, cmd, live>> /\ root \in AllRoots
  BY InHand DEF GInv, KillInside, GeneratedTypeOK
<1>1. PassOK' /\ CleanOK' /\ RerunRecovers'
  BY <1>0 DEF PassOK, CleanOK, RerunRecovers, FirstPass, SecondPass, Extending
<1>2. CASE /\ pc \in {"clear", "cleanup"} /\ UNCHANGED retired
           /\ \/ \E rest \in Remnants(staging[root]) : staging' = [staging EXCEPT ![root] = rest]
              \/ staging' \in Leftovers
  <2>1. staging' \in Trees
    <3>1. CASE \E rest \in Remnants(staging[root]) : staging' = [staging EXCEPT ![root] = rest]
      <4>1. PICK rest \in Remnants(staging[root]) : staging' = [staging EXCEPT ![root] = rest]
        BY <3>1
      <4>2. rest \in AnyTree /\ OfOneVersion(rest, root)
        BY <1>0, <4>1, Remnant DEF GeneratedTypeOK
      <4> QED BY <1>0, <4>1, <4>2 DEF GeneratedTypeOK, Trees
    <3>2. CASE staging' \in Leftovers  BY <1>0, <3>2, LeftoversAre DEF GeneratedTypeOK
    <3> QED BY <1>2, <3>1, <3>2
  <2>2. GeneratedTypeOK'  BY <1>0, <1>2, <2>1 DEF GeneratedTypeOK
  <2>3. live = began  BY <1>0, <1>2 DEF PassOK, FirstPass
  <2>4. SwapOK'  BY <1>0, <2>3 DEF SwapOK, Unharmed, Recoverable, IsWhole
  <2> QED BY <1>1, <2>2, <2>4 DEF GInv
<1>3. CASE /\ pc \in {"drop", "discard"} /\ UNCHANGED staging
           /\ \E rest \in Remnants(retired[root]) : retired' = [retired EXCEPT ![root] = rest]
  <2>1. PICK rest \in Remnants(retired[root]) : retired' = [retired EXCEPT ![root] = rest]
    BY <1>3
  <2>2. rest \in AnyTree /\ OfOneVersion(rest, root)
    BY <1>0, <2>1, Remnant DEF GeneratedTypeOK
  <2>3. retired' \in Trees /\ \A o \in AllRoots \ {root} : retired'[o] = retired[o]
    BY <1>0, <2>1, <2>2 DEF GeneratedTypeOK, Trees
  <2>4. GeneratedTypeOK'  BY <1>0, <1>3, <2>3 DEF GeneratedTypeOK
  <2>5. live[root] = began[root] \/ (HasFiles(root) => live[root] # NoTree)
    BY <1>0, <1>3 DEF PassOK
  <2>6. SwapOK'
    BY <1>0, <1>3, <2>3, <2>5 DEF SwapOK, Unharmed, Recoverable, IsWhole, HasFiles
  <2> QED BY <1>1, <2>4, <2>6 DEF GInv
<1>4. CASE UNCHANGED <<staging, retired>>
  BY <1>0, <1>4, Stops DEF generated
<1> QED BY <1>2, <1>3, <1>4 DEF KillInside

LEMMA GInitially ==
    ASSUME Init
    PROVE  GInv
<1>1. 1 \in DOMAIN Roots
  <2>1. \E i \in DOMAIN Roots : Files(version, Roots[i]) # {}  BY WorkspaceAssumption DEF Init
  <2> QED BY <2>1, RootsAre
<1>2. began \in Trees  BY AnyOne DEF Init, Trees
<1>3. GeneratedTypeOK  BY <1>1, <1>2 DEF Init, GeneratedTypeOK
<1>4. PassOK /\ CleanOK /\ RerunRecovers
  BY DEF Init, PassOK, CleanOK, RerunRecovers, FirstPass, SecondPass, Extending
<1>5. SwapOK  BY DEF Init, SwapOK, Unharmed, Recoverable
<1> QED BY <1>3, <1>4, <1>5 DEF GInv

LEMMA GNext ==
    ASSUME GInv, [Next]_vars
    PROVE  GInv'
<1>1. CASE GeneratedStep
  BY <1>1, Clearing, Writing, StagedOne, CleaningUp, Dropping, Retiring, Installing, Restoring,
     Discarding, SwappedOne DEF GeneratedStep
<1>2. ASSUME NEW names, WriteStubs(names) PROVE GInv'
  BY <1>2, Elsewhere DEF WriteStubs, GInv, GeneratedTypeOK, Extending
<1>3. ASSUME NEW k \in Keys, NEW names, ArchiveExtensions(k, names) PROVE GInv'
  BY <1>3, Elsewhere DEF ArchiveExtensions, GInv, GeneratedTypeOK, Extending
<1>4. ASSUME UNCHANGED <<pc, at, version, began, cmd, result, met, faults, generated>> PROVE GInv'
  BY <1>4 DEF GInv, GeneratedTypeOK, PassOK, SwapOK, Unharmed, Recoverable, CleanOK, RerunRecovers,
              Ready, HasFiles, root, IsWhole, generated
<1>5. ASSUME NEW n \in Names, Edit(n) PROVE GInv'  BY <1>4, <1>5 DEF Edit
<1>6. CASE UNCHANGED vars  BY <1>4, <1>6 DEF vars
<1> QED BY <1>1, <1>2, <1>3, <1>5, <1>6, Materializing, ExtendingKeeps, Killing, KillingInside
        DEF Next

-----------------------------------------------------------------------------
(* The extensions and their archives.                                      *)

Dirs == {NoTree, Stub, Torn, Part} \cup Nat

ExtensionTypeOK ==
    /\ todo \subseteq Names /\ name \in Names /\ key \in Keys
    /\ src \in [Names -> Dirs] /\ dest \in [Keys -> [Names -> Dirs]]
    /\ manifest \in [Keys -> (SUBSET Names) \cup {Corrupt}]
    /\ edits \in Nat /\ kept \subseteq Nat /\ broken \subseteq Keys \X Names

\* What ArchiveExtensions knows of the directory it has in hand.
MoveOK ==
    /\ pc \in {"move", "copy"} => dest[key][name] = NoTree /\ src[name] # NoTree
    /\ pc = "discard copy" => dest[key][name] = Part
    /\ pc \in {"move", "copy", "discard copy"} => ~Recorded(key, name)
    /\ pc = "unlink" => dest[key][name] = src[name]
    /\ pc \in {"unlink", "record"} => dest[key][name] # NoTree

Moving(k, n) == pc \in {"unlink", "record"} /\ k = key /\ n = name

ArchivesOK ==
    \A k \in Keys, n \in Names :
        /\ Recorded(k, n) => dest[k][n] # NoTree
        /\ dest[k][n] \notin {NoTree, Part} /\ <<k, n>> \notin broken /\ ~Moving(k, n) =>
              Recorded(k, n) \/ manifest[k] = Corrupt

XInv == ExtensionTypeOK /\ MoveOK /\ ArchivesOK /\ UserCodeKept

LEMMA Sentinels ==
    /\ NoTree \notin {Stub, Torn, Part}
    /\ NoTree \notin Nat /\ Stub \notin Nat /\ Torn \notin Nat /\ Part \notin Nat
    /\ \A names \in SUBSET Names : names # Corrupt
BY WorkspaceAssumption

LEMMA DestSet ==
    ASSUME ExtensionTypeOK, NEW x \in Dirs, dest' = [dest EXCEPT ![key][name] = x]
    PROVE  /\ dest' \in [Keys -> [Names -> Dirs]] /\ dest'[key][name] = x
           /\ \A k \in Keys, n \in Names :
                 k # key \/ n # name => dest'[k][n] = dest[k][n]
BY DEF ExtensionTypeOK

LEMMA SrcSet ==
    ASSUME ExtensionTypeOK, NEW n \in Names, NEW x \in Dirs, src' = [src EXCEPT ![n] = x]
    PROVE  /\ src' \in [Names -> Dirs] /\ src'[n] = x
           /\ \A m \in Names : m # n => src'[m] = src[m]
BY DEF ExtensionTypeOK

\* Nothing is lost where a directory is made that was not there, or not whole.
LEMMA CodeKeptBySrc ==
    ASSUME UserCodeKept, kept \subseteq Nat, NEW n \in Names,
           src'[n] = src[n] \/ src[n] \in {NoTree, Part},
           \A m \in Names : m # n => src'[m] = src[m],
           UNCHANGED <<dest, kept>>
    PROVE  UserCodeKept'
<1> SUFFICES ASSUME NEW c \in kept
             PROVE  \E m \in Names : src'[m] = c \/ \E k \in Keys : dest[k][m] = c
  BY DEF UserCodeKept
<1>1. c \notin {NoTree, Part}
  BY Sentinels
<1>2. PICK m \in Names : src[m] = c \/ \E k \in Keys : dest[k][m] = c
  BY DEF UserCodeKept
<1>3. src[m] = c => src'[m] = c
  BY <1>1, <1>2
<1> QED BY <1>2, <1>3

\* A step that leaves the directories alone, and has none in hand afterwards.
LEMMA XStops ==
    ASSUME XInv, UNCHANGED <<key, src, dest, manifest, edits, kept>>, name' \in Names,
           todo' \subseteq Names, broken \subseteq broken', broken' \subseteq Keys \X Names,
           pc' \notin {"move", "copy", "discard copy", "unlink", "record"},
           pc \in {"unlink", "record"} => <<key, name>> \in broken' \/ manifest[key] = Corrupt
    PROVE  XInv'
<1>1. ExtensionTypeOK'  BY DEF XInv, ExtensionTypeOK
<1>2. MoveOK'  BY DEF MoveOK
<1>3. ArchivesOK'
  <2>1. \A k \in Keys, n \in Names : Moving(k, n) => <<k, n>> \in broken' \/ manifest[k] = Corrupt
    BY DEF Moving
  <2> QED BY <2>1 DEF XInv, ArchivesOK, Recorded, Moving
<1>4. UserCodeKept'  BY DEF XInv, UserCodeKept
<1> QED BY <1>1, <1>2, <1>3, <1>4 DEF XInv

LEMMA XElsewhere ==
    ASSUME XInv, UNCHANGED <<name, key, extensions>>, todo' \subseteq Names,
           pc \notin {"unlink", "record"},
           pc' \notin {"move", "copy", "discard copy", "unlink", "record"}
    PROVE  XInv'
BY XStops DEF XInv, ExtensionTypeOK, extensions, archive

LEMMA XGenerated ==
    ASSUME XInv, GeneratedStep
    PROVE  XInv'
<1>1. /\ UNCHANGED <<name, key, extensions>> /\ pc \notin {"unlink", "record"}
      /\ todo' = todo \/ todo' = {}
      /\ pc' \notin {"move", "copy", "discard copy", "unlink", "record"}
  BY DEF GeneratedStep, ClearStaging, WriteFile, Staged, Cleanup, DropRetired, Retire, Install,
         Restore, Discard, Swapped, Goto, Return, Fail, FailTo, NextRoot
<1> QED BY <1>1, XElsewhere DEF XInv, ExtensionTypeOK

LEMMA XWriteStub ==
    ASSUME XInv, WriteStub
    PROVE  XInv'
<1>0. /\ ExtensionTypeOK /\ pc = "stub" /\ pc' \in {"stub", "idle"}
      /\ UNCHANGED <<name, key, archive, edits, kept>> /\ todo' \subseteq todo
  BY DEF XInv, WriteStub
<1>1. PICK n \in Names, dir \in Dirs :
         src' = [src EXCEPT ![n] = dir] /\ (src[n] = dir \/ src[n] \in {NoTree, Part})
  <2>1. PICK n \in todo :
           \/ \E dir \in Offered(src[n]) : src' = [src EXCEPT ![n] = dir]
           \/ \E left \in {NoTree, Part, Torn} :
                 src' = [src EXCEPT ![n] = IF @ = NoTree THEN left ELSE @]
    BY DEF WriteStub
  <2>2. n \in Names /\ src[n] \in Dirs  BY <1>0, <2>1 DEF ExtensionTypeOK
  <2>3. CASE \E dir \in Offered(src[n]) : src' = [src EXCEPT ![n] = dir]
    BY <2>2, <2>3 DEF Offered, Dirs
  <2>4. CASE \E left \in {NoTree, Part, Torn} :
                src' = [src EXCEPT ![n] = IF @ = NoTree THEN left ELSE @]
    <3>1. PICK left \in {NoTree, Part, Torn} :
             src' = [src EXCEPT ![n] = IF src[n] = NoTree THEN left ELSE src[n]]
      BY <2>4
    <3> QED BY <2>2, <3>1 DEF Dirs
  <2> QED BY <2>1, <2>3, <2>4
<1>2. /\ src' \in [Names -> Dirs] /\ src'[n] = dir
      /\ \A m \in Names : m # n => src'[m] = src[m]
  BY <1>0, <1>1, SrcSet
<1>3. ExtensionTypeOK'  BY <1>0, <1>2 DEF ExtensionTypeOK, archive
<1>4. MoveOK' /\ ArchivesOK'
  BY <1>0 DEF XInv, MoveOK, ArchivesOK, Moving, Recorded, archive
<1>5. UserCodeKept'
  <2>1. /\ UserCodeKept /\ kept \subseteq Nat /\ UNCHANGED <<dest, kept>>
        /\ src'[n] = src[n] \/ src[n] \in {NoTree, Part}
    BY <1>0, <1>1, <1>2 DEF XInv, ExtensionTypeOK, archive
  <2> QED BY <1>2, <2>1, CodeKeptBySrc
<1> QED BY <1>3, <1>4, <1>5 DEF XInv

LEMMA XLook ==
    ASSUME XInv, Look
    PROVE  XInv'
<1>0. /\ ExtensionTypeOK /\ pc = "look" /\ UNCHANGED <<key, extensions>>
  BY DEF XInv, Look
<1>1. PICK n \in todo :
         /\ name' = n
         /\ \/ todo' = todo \ {n} /\ pc' = pc
            \/ todo' = {} /\ pc' = "idle"
            \/ todo' = todo \ {n} /\ pc' = "move" /\ src[n] # NoTree /\ dest[key][n] = NoTree
  BY DEF Look
<1>2. n \in Names /\ name' \in Names /\ todo' \subseteq Names
  BY <1>0, <1>1 DEF ExtensionTypeOK
<1>3. CASE pc' \in {"look", "idle"}
  BY <1>0, <1>2, <1>3, XStops DEF ExtensionTypeOK, extensions, archive
<1>4. CASE pc' = "move" /\ src[n] # NoTree /\ dest[key][n] = NoTree
  <2>1. ExtensionTypeOK'  BY <1>0, <1>2 DEF ExtensionTypeOK, extensions, archive
  <2>2. ~Recorded(key, n)  BY <1>0, <1>2, <1>4 DEF XInv, ArchivesOK, ExtensionTypeOK
  <2>3. MoveOK'
    BY <1>0, <1>1, <1>4, <2>2 DEF MoveOK, Recorded, extensions, archive
  <2>4. ArchivesOK' /\ UserCodeKept'
    BY <1>0, <1>4 DEF XInv, ArchivesOK, Moving, Recorded, UserCodeKept, extensions, archive
  <2> QED BY <2>1, <2>3, <2>4 DEF XInv
<1> QED BY <1>0, <1>1, <1>3, <1>4

\* What is put where nothing of the developer's is, and has no record yet.
LEMMA XPuts ==
    ASSUME XInv, NEW x \in Dirs, dest' = [dest EXCEPT ![key][name] = x],
           dest[key][name] \in {NoTree, Part}, ~Recorded(key, name),
           pc \notin {"unlink", "record"},
           UNCHANGED <<name, key, manifest, edits, kept, broken>>, todo' \subseteq Names,
           src' \in [Names -> Dirs], \A m \in Names : m # name => src'[m] = src[m],
           src'[name] = src[name] \/ x = src[name],
           x \in {NoTree, Part} \/ pc' \in {"unlink", "record"},
           MoveOK'
    PROVE  XInv'
<1>0. ExtensionTypeOK  BY DEF XInv
<1>1. /\ dest' \in [Keys -> [Names -> Dirs]] /\ dest'[key][name] = x
      /\ \A k \in Keys, n \in Names : k # key \/ n # name => dest'[k][n] = dest[k][n]
  BY <1>0, DestSet
<1>2. ExtensionTypeOK'  BY <1>0, <1>1 DEF ExtensionTypeOK
<1>3. ArchivesOK'
  <2>1. ASSUME NEW k \in Keys, NEW n \in Names
        PROVE  /\ Recorded(k, n)' => dest'[k][n] # NoTree
               /\ dest'[k][n] \notin {NoTree, Part} /\ <<k, n>> \notin broken' /\ ~Moving(k, n)' =>
                     Recorded(k, n)' \/ manifest'[k] = Corrupt
    <3>1. CASE k = key /\ n = name
      BY <1>1, <3>1 DEF Recorded, Moving
    <3>2. CASE k # key \/ n # name
      BY <1>1, <3>2 DEF XInv, ArchivesOK, Recorded, Moving
    <3> QED BY <3>1, <3>2
  <2> QED BY <2>1 DEF XInv, ArchivesOK
<1>4. UserCodeKept'
  <2> SUFFICES ASSUME NEW c \in kept
               PROVE  \E n \in Names : src'[n] = c \/ \E k \in Keys : dest'[k][n] = c
    BY DEF UserCodeKept
  <2>1. c \notin {NoTree, Part}  BY <1>0, Sentinels DEF ExtensionTypeOK
  <2>2. PICK n \in Names : src[n] = c \/ \E k \in Keys : dest[k][n] = c
    BY DEF XInv, UserCodeKept
  <2>3. CASE src[n] = c
    BY <1>0, <1>1, <2>3 DEF ExtensionTypeOK
  <2>4. ASSUME NEW k \in Keys, dest[k][n] = c PROVE dest'[k][n] = c
    BY <1>1, <2>1, <2>4
  <2> QED BY <2>2, <2>3, <2>4
<1> QED BY <1>2, <1>3, <1>4 DEF XInv

LEMMA XMoveDir ==
    ASSUME XInv, MoveDir
    PROVE  XInv'
<1>0. /\ ExtensionTypeOK /\ MoveOK /\ pc = "move" /\ UNCHANGED <<name, key, manifest, edits, kept, broken>>
      /\ dest[key][name] = NoTree /\ src[name] # NoTree /\ ~Recorded(key, name)
      /\ src[name] \in Dirs /\ NoTree \in Dirs
  BY DEF XInv, MoveDir, Goto, Fail, FailTo, MoveOK, ExtensionTypeOK, Dirs
<1>1. CASE /\ dest' = [dest EXCEPT ![key][name] = src[name]]
           /\ src' = [src EXCEPT ![name] = NoTree]
           /\ Goto("record")
  <2>1. /\ src' \in [Names -> Dirs] /\ \A m \in Names : m # name => src'[m] = src[m]
    BY <1>0, <1>1 DEF ExtensionTypeOK
  <2>2. dest'[key][name] = src[name]  BY <1>0, <1>1, DestSet
  <2>3. pc' = "record" /\ todo' = todo  BY <1>1 DEF Goto
  <2>4. MoveOK'  BY <1>0, <2>2, <2>3 DEF MoveOK
  <2> QED BY <1>0, <1>1, <2>1, <2>3, <2>4, XPuts DEF ExtensionTypeOK
<1>2. CASE UNCHANGED <<src, dest>> /\ Goto("copy")
  <2>1. pc' = "copy" /\ todo' = todo  BY <1>2 DEF Goto
  <2>2. ExtensionTypeOK' /\ MoveOK' /\ ArchivesOK' /\ UserCodeKept'
    BY <1>0, <1>2, <2>1 DEF XInv, ExtensionTypeOK, MoveOK, ArchivesOK, Moving, Recorded, UserCodeKept
  <2> QED BY <2>2 DEF XInv
<1>3. CASE UNCHANGED <<src, dest>> /\ Fail
  BY <1>0, <1>3, XStops DEF Fail, FailTo, ExtensionTypeOK
<1> QED BY <1>1, <1>2, <1>3 DEF MoveDir

LEMMA XCopyDir ==
    ASSUME XInv, CopyDir
    PROVE  XInv'
<1>0. /\ ExtensionTypeOK /\ pc = "copy" /\ UNCHANGED <<name, key, src, manifest, edits, kept, broken>>
      /\ dest[key][name] = NoTree /\ src[name] # NoTree /\ ~Recorded(key, name)
      /\ src[name] \in Dirs /\ Part \in Dirs /\ src \in [Names -> Dirs] /\ todo \subseteq Names
  BY DEF XInv, CopyDir, Goto, FailTo, MoveOK, ExtensionTypeOK, Dirs
<1>1. CASE dest' = [dest EXCEPT ![key][name] = src[name]] /\ Goto("unlink")
  <2>1. dest'[key][name] = src[name]  BY <1>0, <1>1, DestSet
  <2>2. pc' = "unlink" /\ todo' = todo  BY <1>1 DEF Goto
  <2>3. MoveOK'  BY <1>0, <2>1, <2>2 DEF MoveOK
  <2> QED BY <1>0, <1>1, <2>2, <2>3, XPuts
<1>2. CASE dest' = [dest EXCEPT ![key][name] = Part] /\ FailTo("discard copy")
  <2>1. dest'[key][name] = Part  BY <1>0, <1>2, DestSet
  <2>2. pc' = "discard copy" /\ todo' = todo  BY <1>2 DEF FailTo
  <2>3. MoveOK'  BY <1>0, <2>1, <2>2 DEF MoveOK, Recorded
  <2> QED BY <1>0, <1>2, <2>2, <2>3, XPuts
<1> QED BY <1>1, <1>2 DEF CopyDir

LEMMA XDiscardCopy ==
    ASSUME XInv, DiscardCopy
    PROVE  XInv'
<1>0. /\ ExtensionTypeOK /\ pc = "discard copy" /\ pc' = "idle" /\ todo' = {}
      /\ UNCHANGED <<name, key, src, manifest, edits, kept, broken>>
      /\ dest[key][name] = Part /\ ~Recorded(key, name)
      /\ NoTree \in Dirs /\ src \in [Names -> Dirs] /\ MoveOK'
  BY DEF XInv, DiscardCopy, Return, Fail, FailTo, MoveOK, ExtensionTypeOK, Dirs
<1>1. CASE dest' = [dest EXCEPT ![key][name] = NoTree]  BY <1>0, <1>1, XPuts
<1>2. CASE UNCHANGED dest  BY <1>0, <1>2, XStops DEF ExtensionTypeOK
<1> QED BY <1>1, <1>2 DEF DiscardCopy

LEMMA XRemoveSource ==
    ASSUME XInv, RemoveSource
    PROVE  XInv'
<1>0. /\ ExtensionTypeOK /\ pc = "unlink" /\ UNCHANGED <<name, key, dest, manifest, edits, kept>>
      /\ dest[key][name] = src[name] /\ src[name] # NoTree /\ todo' \subseteq Names
      /\ name \in Names /\ key \in Keys /\ NoTree \in Dirs /\ Part \in Dirs
  BY DEF XInv, RemoveSource, Goto, Fail, FailTo, MoveOK, ExtensionTypeOK, Dirs
<1>1. PICK x \in {NoTree, Part} : src' = [src EXCEPT ![name] = x]
  BY DEF RemoveSource
<1>2. /\ src' \in [Names -> Dirs] /\ \A m \in Names : m # name => src'[m] = src[m]
  BY <1>0, <1>1, SrcSet
<1>3. \/ pc' = "record" /\ broken' = broken
      \/ pc' = "idle" /\ broken' = broken \cup {<<key, name>>}
  BY DEF RemoveSource, Goto, Fail, FailTo
<1>4. ExtensionTypeOK'  BY <1>0, <1>2, <1>3 DEF ExtensionTypeOK
<1>5. MoveOK'  BY <1>0, <1>3 DEF MoveOK
<1>6. ArchivesOK'
  <2>1. \A k \in Keys, n \in Names : Moving(k, n) => Moving(k, n)' \/ <<k, n>> \in broken'
    BY <1>0, <1>3 DEF Moving
  <2> QED BY <1>0, <1>3, <2>1 DEF XInv, ArchivesOK, Recorded
<1>7. UserCodeKept'
  BY <1>0, <1>2 DEF XInv, UserCodeKept
<1> QED BY <1>4, <1>5, <1>6, <1>7 DEF XInv

\* The manifest of the archive in hand is written, with the record added.
LEMMA XRecords ==
    ASSUME XInv, pc = "record", manifest[key] # Corrupt,
           manifest' = [manifest EXCEPT ![key] = manifest[key] \cup {name}],
           UNCHANGED <<name, key, src, dest, edits, kept, broken>>, todo' \subseteq Names,
           pc' = "look"
    PROVE  XInv'
<1>0. /\ ExtensionTypeOK /\ dest[key][name] # NoTree /\ name \in Names /\ key \in Keys
      /\ manifest \in [Keys -> (SUBSET Names) \cup {Corrupt}]
  BY DEF XInv, MoveOK, ExtensionTypeOK
<1>1. manifest[key] \in (SUBSET Names) \cup {Corrupt}  BY <1>0
<1>2. manifest[key] \in SUBSET Names  BY <1>1
<1>3. manifest[key] \cup {name} \in SUBSET Names  BY <1>0, <1>2
<1>4. manifest[key] \cup {name} # Corrupt  BY <1>3, Sentinels
<1>5. /\ manifest' \in [Keys -> (SUBSET Names) \cup {Corrupt}]
      /\ manifest'[key] = manifest[key] \cup {name}
      /\ \A k \in Keys : k # key => manifest'[k] = manifest[k]
  BY <1>0, <1>3
<1>6. ExtensionTypeOK'  BY <1>0, <1>5 DEF ExtensionTypeOK
<1>7. MoveOK' /\ UserCodeKept'  BY DEF MoveOK, XInv, UserCodeKept
<1>8. \A n \in Names : Recorded(key, n)' <=> Recorded(key, n) \/ n = name
  BY <1>0, <1>4, <1>5 DEF Recorded
<1>9. ASSUME NEW k \in Keys, NEW n \in Names
      PROVE  /\ Recorded(k, n)' => dest'[k][n] # NoTree
             /\ dest'[k][n] \notin {NoTree, Part} /\ <<k, n>> \notin broken' /\ ~Moving(k, n)' =>
                   Recorded(k, n)' \/ manifest'[k] = Corrupt
  <2>1. CASE k = key
    BY <1>0, <1>8, <2>1 DEF XInv, ArchivesOK, Moving
  <2>2. CASE k # key
    BY <1>5, <2>2 DEF XInv, ArchivesOK, Moving, Recorded
  <2> QED BY <2>1, <2>2
<1>10. ArchivesOK'  BY <1>9 DEF ArchivesOK
<1> QED BY <1>6, <1>7, <1>10 DEF XInv

\* Its write is cut off, and every record in it is lost.
LEMMA XTears ==
    ASSUME XInv, pc = "record",
           manifest' = [manifest EXCEPT ![key] = Corrupt],
           UNCHANGED <<name, key, src, dest, edits, kept, broken>>, todo' \subseteq Names,
           pc' = "idle"
    PROVE  XInv'
<1>0. /\ ExtensionTypeOK /\ name \in Names /\ key \in Keys
      /\ manifest \in [Keys -> (SUBSET Names) \cup {Corrupt}]
  BY DEF XInv, ExtensionTypeOK
<1>1. /\ manifest' \in [Keys -> (SUBSET Names) \cup {Corrupt}] /\ manifest'[key] = Corrupt
      /\ \A k \in Keys : k # key => manifest'[k] = manifest[k]
  BY <1>0
<1>2. ExtensionTypeOK'  BY <1>0, <1>1 DEF ExtensionTypeOK
<1>3. MoveOK' /\ UserCodeKept'  BY DEF MoveOK, XInv, UserCodeKept
<1>4. \A n \in Names : ~Recorded(key, n)'
  BY <1>0, <1>1 DEF Recorded
<1>5. ASSUME NEW k \in Keys, k # key, NEW n \in Names
      PROVE  /\ Recorded(k, n)' => dest'[k][n] # NoTree
             /\ dest'[k][n] \notin {NoTree, Part} /\ <<k, n>> \notin broken' /\ ~Moving(k, n)' =>
                   Recorded(k, n)' \/ manifest'[k] = Corrupt
  BY <1>1, <1>5 DEF XInv, ArchivesOK, Moving, Recorded
<1>6. ArchivesOK'  BY <1>1, <1>4, <1>5 DEF ArchivesOK
<1> QED BY <1>2, <1>3, <1>6 DEF XInv

LEMMA XWriteManifest ==
    ASSUME XInv, WriteManifest
    PROVE  XInv'
<1>0. /\ ExtensionTypeOK /\ ArchivesOK /\ pc = "record"
      /\ UNCHANGED <<name, key, src, dest, edits, kept>>
      /\ todo' = todo \/ todo' = {}
      /\ name \in Names /\ key \in Keys /\ todo' \subseteq Names
  BY DEF XInv, WriteManifest, Goto, Return, Fail, FailTo, ExtensionTypeOK
<1>1. CASE /\ manifest[key] # Corrupt
           /\ manifest' = [manifest EXCEPT ![key] = @ \cup {name}]
           /\ Goto("look") /\ UNCHANGED broken
  <2>1. manifest' = [manifest EXCEPT ![key] = manifest[key] \cup {name}]  BY <1>1
  <2>2. pc' = "look" /\ broken' = broken  BY <1>1 DEF Goto
  <2> QED BY <1>0, <1>1, <2>1, <2>2, XRecords
<1>2. CASE manifest[key] = Corrupt /\ Return("error") /\ UNCHANGED <<manifest, broken>>
  <2>1. pc' = "idle"  BY <1>2 DEF Return
  <2> QED BY <1>0, <1>2, <2>1, XStops DEF ExtensionTypeOK
<1>3. CASE Fail /\ broken' = broken \cup {<<key, name>>} /\ UNCHANGED manifest
  <2>1. pc' = "idle"  BY <1>3 DEF Fail, FailTo
  <2> QED BY <1>0, <1>3, <2>1, XStops DEF ExtensionTypeOK
<1>4. CASE /\ Fail
           /\ manifest' = [manifest EXCEPT ![key] = Corrupt]
           /\ UNCHANGED broken
  <2>1. pc' = "idle"  BY <1>4 DEF Fail, FailTo
  <2> QED BY <1>0, <1>4, <2>1, XTears
<1> QED BY <1>1, <1>2, <1>3, <1>4 DEF WriteManifest

LEMMA XKill ==
    ASSUME XInv, Kill
    PROVE  XInv'
<1>1. /\ UNCHANGED <<key, src, dest, manifest, edits, kept>> /\ name' = name
      /\ todo' = {} /\ pc' = "idle"
      /\ broken' = IF pc \in {"unlink", "record"} THEN broken \cup {<<key, name>>} ELSE broken
      /\ ExtensionTypeOK
  BY DEF Kill, XInv
<1>2. /\ name' \in Names /\ broken \subseteq broken' /\ broken' \subseteq Keys \X Names
      /\ pc \in {"unlink", "record"} => <<key, name>> \in broken'
  BY <1>1 DEF ExtensionTypeOK
<1> QED BY <1>1, <1>2, XStops

LEMMA XKillInside ==
    ASSUME XInv, KillInside
    PROVE  XInv'
<1>0. /\ ExtensionTypeOK /\ MoveOK /\ pc' = "idle" /\ todo' = {} /\ todo' \subseteq Names
      /\ UNCHANGED <<name, key, edits, kept>>
      /\ name \in Names /\ key \in Keys /\ todo \subseteq Names
      /\ src \in [Names -> Dirs] /\ {NoTree, Part, Torn} \subseteq Dirs
  BY DEF XInv, KillInside, ExtensionTypeOK, Dirs
<1>1. CASE /\ pc \in {"clear", "cleanup", "drop", "discard"}
           /\ UNCHANGED <<src, dest, manifest, broken>>
  BY <1>0, <1>1, XStops DEF ExtensionTypeOK
<1>2. CASE /\ pc = "stub"
           /\ \E n \in todo, left \in {Part, Torn} :
                 src[n] = NoTree /\ src' = [src EXCEPT ![n] = left]
           /\ UNCHANGED <<dest, manifest, broken>>
  <2>1. PICK n \in todo, left \in {Part, Torn} :
           src[n] = NoTree /\ src' = [src EXCEPT ![n] = left]
    BY <1>2
  <2>2. /\ src' \in [Names -> Dirs] /\ \A m \in Names : m # n => src'[m] = src[m]
    BY <1>0, <2>1, SrcSet
  <2>3. ExtensionTypeOK'  BY <1>0, <1>2, <2>2 DEF ExtensionTypeOK
  <2>4. MoveOK' /\ ArchivesOK'
    BY <1>0, <1>2 DEF XInv, MoveOK, ArchivesOK, Moving, Recorded
  <2>5. UserCodeKept'
    <3>1. UserCodeKept /\ kept \subseteq Nat /\ UNCHANGED <<dest, kept>> /\ n \in Names
      BY <1>0, <1>2 DEF XInv, ExtensionTypeOK
    <3> QED BY <2>1, <2>2, <3>1, CodeKeptBySrc
  <2> QED BY <2>3, <2>4, <2>5 DEF XInv
<1>3. CASE /\ pc = "copy"
           /\ dest' = [dest EXCEPT ![key][name] = Part]
           /\ UNCHANGED <<src, manifest, broken>>
  <2>1. dest[key][name] = NoTree /\ ~Recorded(key, name)  BY <1>0, <1>3 DEF MoveOK
  <2>2. MoveOK'  BY <1>0 DEF MoveOK
  <2> QED BY <1>0, <1>3, <2>1, <2>2, XPuts
<1>4. CASE /\ pc = "unlink"
           /\ src' = [src EXCEPT ![name] = Part]
           /\ broken' = broken \cup {<<key, name>>}
           /\ UNCHANGED <<dest, manifest>>
  <2>1. /\ src' \in [Names -> Dirs] /\ \A m \in Names : m # name => src'[m] = src[m]
    BY <1>0, <1>4, SrcSet
  <2>2. dest[key][name] = src[name]  BY <1>0, <1>4 DEF MoveOK
  <2>3. ExtensionTypeOK'  BY <1>0, <1>4, <2>1 DEF ExtensionTypeOK
  <2>4. MoveOK'  BY <1>0 DEF MoveOK
  <2>5. \A k \in Keys, n \in Names : Moving(k, n) => <<k, n>> \in broken'
    BY <1>4 DEF Moving
  <2>6. ArchivesOK'
    BY <1>0, <1>4, <2>5 DEF XInv, ArchivesOK, Recorded
  <2>7. UserCodeKept'  BY <1>0, <1>4, <2>1, <2>2 DEF XInv, UserCodeKept
  <2> QED BY <2>3, <2>4, <2>6, <2>7 DEF XInv
<1>5. CASE /\ pc = "record"
           /\ manifest' = [manifest EXCEPT ![key] = Corrupt]
           /\ UNCHANGED <<src, dest, broken>>
  BY <1>0, <1>5, XTears
<1> QED BY <1>0, <1>1, <1>2, <1>3, <1>4, <1>5 DEF KillInside

\* The developer gives up what was there for what is written, under a fresh number.
LEMMA XEdit ==
    ASSUME XInv, NEW n \in Names, Edit(n)
    PROVE  XInv'
<1>0. /\ ExtensionTypeOK /\ pc = "idle" /\ pc' = "idle" /\ edits' = edits + 1 /\ edits \in Nat
      /\ src' = [src EXCEPT ![n] = edits'] /\ kept' = (kept \ {src[n]}) \cup {edits'}
      /\ UNCHANGED <<todo, name, key, dest, manifest, broken>> /\ kept \subseteq Nat
  BY DEF XInv, Edit, ExtensionTypeOK, archive
<1>1. edits' \in Dirs /\ edits' \in Nat  BY <1>0 DEF Dirs
<1>2. /\ src' \in [Names -> Dirs] /\ src'[n] = edits'
      /\ \A m \in Names : m # n => src'[m] = src[m]
  BY <1>0, <1>1, SrcSet
<1>3. ExtensionTypeOK'  BY <1>0, <1>1, <1>2 DEF ExtensionTypeOK
<1>4. MoveOK' /\ ArchivesOK'
  BY <1>0 DEF XInv, MoveOK, ArchivesOK, Moving, Recorded
<1>5. UserCodeKept'
  <2> SUFFICES ASSUME NEW c \in kept'
               PROVE  \E m \in Names : src'[m] = c \/ \E k \in Keys : dest'[k][m] = c
    BY DEF UserCodeKept
  <2>1. CASE c = edits'  BY <1>2, <2>1
  <2>2. CASE c \in kept /\ c # src[n]
    <3>1. PICK m \in Names : src[m] = c \/ \E k \in Keys : dest[k][m] = c
      BY <2>2 DEF XInv, UserCodeKept
    <3> QED BY <1>0, <1>2, <2>2, <3>1
  <2> QED BY <1>0, <2>1, <2>2
<1> QED BY <1>3, <1>4, <1>5 DEF XInv

LEMMA XInitially ==
    ASSUME Init
    PROVE  XInv
<1>1. ExtensionTypeOK  BY DEF Init, ExtensionTypeOK, Dirs
<1>2. MoveOK  BY DEF Init, MoveOK
<1>3. ArchivesOK
  <2>1. \A k \in Keys : manifest[k] = {}  BY DEF Init
  <2>2. \A k \in Keys, n \in Names : dest[k][n] = NoTree  BY DEF Init
  <2>3. Corrupt # {}  BY Sentinels
  <2> QED BY <2>1, <2>2, <2>3 DEF ArchivesOK, Recorded
<1>4. UserCodeKept  BY DEF Init, UserCodeKept
<1> QED BY <1>1, <1>2, <1>3, <1>4 DEF XInv

LEMMA XNext ==
    ASSUME XInv, [Next]_vars
    PROVE  XInv'
<1>0. ExtensionTypeOK  BY DEF XInv
<1>1. ASSUME NEW v \in Versions, Materialize(v) PROVE XInv'
  BY <1>0, <1>1, XElsewhere DEF Materialize, ExtensionTypeOK
<1>2. ASSUME NEW names \in (SUBSET Names) \ {{}}, WriteStubs(names) PROVE XInv'
  BY <1>0, <1>2, XElsewhere DEF WriteStubs
<1>3. ASSUME NEW k \in Keys, NEW names \in (SUBSET Names) \ {{}}, ArchiveExtensions(k, names)
      PROVE  XInv'
  <2>1. /\ ExtensionTypeOK /\ pc = "idle" /\ pc' = "look" /\ key' \in Keys /\ todo' \subseteq Names
        /\ UNCHANGED <<name, src, dest, manifest, edits, kept, broken>>
    BY <1>0, <1>3 DEF ArchiveExtensions, extensions, archive
  <2>2. ExtensionTypeOK'  BY <2>1 DEF ExtensionTypeOK
  <2>3. MoveOK' /\ ArchivesOK' /\ UserCodeKept'
    BY <2>1 DEF XInv, MoveOK, ArchivesOK, Moving, Recorded, UserCodeKept
  <2> QED BY <2>2, <2>3 DEF XInv
<1>4. ASSUME ExtensionStep PROVE XInv'
  <2>1. CASE StubsWritten \/ Archived
    <3>1. /\ UNCHANGED <<name, key, extensions>> /\ todo' \subseteq Names
          /\ pc \in {"stub", "look"} /\ pc' = "idle"
      BY <2>1 DEF StubsWritten, Archived, Return
    <3> QED BY <3>1, XElsewhere
  <2> QED BY <1>4, <2>1, XWriteStub, XLook, XMoveDir, XCopyDir, XDiscardCopy, XRemoveSource,
             XWriteManifest DEF ExtensionStep
<1>5. CASE UNCHANGED vars
  BY <1>0, <1>5 DEF XInv, ExtensionTypeOK, MoveOK, ArchivesOK, Moving, Recorded, UserCodeKept,
                    vars, extensions, archive
<1> QED BY <1>1, <1>2, <1>3, <1>4, <1>5, XGenerated, XKill, XKillInside, XEdit DEF Next

-----------------------------------------------------------------------------
(* The properties.                                                         *)

IInv == GInv /\ XInv

\* What a command in any position may rely on, of the generated roots and of the
\* developer's directories, holds in every state.
THEOREM WorkspaceInvariant == Spec => []IInv
<1>1. Init => IInv  BY GInitially, XInitially DEF IInv
<1>2. IInv /\ [Next]_vars => IInv'  BY GNext, XNext DEF IInv
<1> QED BY <1>1, <1>2, PTL DEF Spec

\* Materialize never leaves a mixture of two versions in a live root, leaves half a
\* tree only where it found none that was whole, and can always be undone or
\* finished from what the siblings hold.
THEOREM WorkspaceSwapIsSafe == Spec => []SwapIsSafe
<1>1. IInv => SwapIsSafe
  <2> SUFFICES ASSUME GeneratedTypeOK, SwapOK, NEW r \in AllRoots
               PROVE  /\ \/ live[r] = NoTree \/ IsWhole(live[r], r)
                         \/ ~IsWhole(began[r], r) /\ \E v \in Versions : live[r] \subseteq Tree(v, r)
                      /\ live[r] = NoTree /\ began[r] # NoTree /\ Files(version, r) # {} =>
                            retired[r] = began[r] /\ staging[r] = Whole(version, r)
    BY DEF IInv, GInv, SwapIsSafe
  <2>1. OfOneVersion(live[r], r)  BY DEF GeneratedTypeOK, Trees
  <2> QED BY <2>1 DEF SwapOK, Unharmed, Recoverable, HasFiles, OfOneVersion
<1> QED BY <1>1, WorkspaceInvariant, PTL

\* Running Materialize again recovers from whatever faults came before.
THEOREM WorkspaceRerunRecovers == Spec => []RerunRecovers
<1>1. IInv => RerunRecovers  BY DEF IInv, GInv
<1> QED BY <1>1, WorkspaceInvariant, PTL

\* No stub, no move that fails or is killed half way and no archive costs the
\* developer's code.
THEOREM WorkspaceUserCodeKept == Spec => []UserCodeKept
<1>1. IInv => UserCodeKept  BY DEF IInv, XInv
<1> QED BY <1>1, WorkspaceInvariant, PTL

\* The manifest of an archive names what is there, and all of it but for faults
\* between a move and its record, or is one whose write was cut off.
THEOREM WorkspaceManifestMatches == Spec => []ManifestMatches
<1>1. IInv => ManifestMatches
  BY DEF IInv, XInv, ArchivesOK, ManifestMatches, Recorded, Moving
<1> QED BY <1>1, WorkspaceInvariant, PTL

=============================================================================
