--------------------------- MODULE InstallerProofs ---------------------------
(***************************************************************************)
(* What Installer promises, for any number of modules, versions, processes *)
(* commands and kills.                                                     *)
(***************************************************************************)
EXTENDS Installer, TLAPS

Places == {"idle", "next", "stage", "fetch", "build", "aside", "move", "scripts", "undo",
           "sweep", "record", "manifest", "unlink", "rmtree", "clean"}
Errors == {"none", "early", "late", "escaped", "raised"}
Names == Mods \cup {Nothing}
Vers == Versions \cup {Nothing}
Locals == [at : Places, todo : SUBSET Mods, op : {"none", "add", "all", "upgrade", "remove"},
           mod : Names, ver : Vers, err : Errors, again : BOOLEAN]
Trees == {NoTree} \cup [ver : Versions, whole : BOOLEAN, rec : Vers]
Finds == [manifest : Vers, tree : Trees]
Homes == Mods \cup Procs \cup {Nothing}

TypeInv ==
  /\ manifest \in [Mods -> Vers]
  /\ tree \in [Mods -> Trees] /\ backup \in [Procs -> Trees]
  /\ proc \in [Procs -> Locals] /\ found \in [Procs -> Finds]
  /\ prey \in [Procs -> Homes]
  /\ pruned \subseteq Procs /\ torn \subseteq Mods

(* No two processes have to do with one module.                            *)
OwnInv ==
  \A p, q \in Procs : p # q =>
    /\ proc[p].todo \cap proc[q].todo = {}
    /\ proc[p].mod # Nothing => proc[p].mod # proc[q].mod /\ proc[p].mod \notin proc[q].todo

(* What a pruning has open is there.                                       *)
PreyInv ==
  \A r \in Procs :
    /\ prey[r] \in Mods => tree[prey[r]] # NoTree
    /\ prey[r] \in Procs => backup[prey[r]] # NoTree

(* Does the hub discover the whole of the module, if it discovers it?      *)
Discovered(m) ==
  \/ manifest[m] = Nothing \/ tree[m].whole \/ m \in torn
  \/ \E p \in Procs : proc[p].mod = m /\ proc[p].at \in {"move", "undo"}

Untouched == {"stage", "fetch", "build", "aside"}
Aloft == {"move", "scripts", "undo"}
Published == {"sweep", "record", "manifest"}

(* What may be put back is what was found and whole, or the module counts  *)
(* as torn.                                                                *)
MayGoBack(p) ==
  /\ manifest[proc[p].mod] = found[p].manifest
  /\ \/ found[p].manifest = Nothing \/ found[p].tree.whole \/ proc[p].mod \in torn
  /\ p \in pruned => proc[p].mod \in torn /\ found[p].tree # NoTree

(* What a process knows of its module at each place; no pruning has a tree *)
(* open that it has just moved into place.                                 *)
PlaceInv(p) ==
  LET l == proc[p]
      m == l.mod
  IN  /\ l.at = "idle" => l = Idle
      /\ l.at \in {"idle", "next"} => m = Nothing /\ p \notin pruned
      /\ l.at # "clean" => l.err = "none"
      /\ l.at \notin {"idle", "next"} => m \in Mods
      /\ l.at \in Untouched \cup Aloft \cup Published => l.ver \in Versions
      /\ l.at \in Untouched => AsFound(p) \/ p \in pruned
      /\ l.at \in Untouched \cup Aloft => MayGoBack(p)
      /\ l.at \in Aloft => backup[p] = found[p].tree \/ p \in pruned
      /\ l.at \notin Aloft \cup {"sweep"} => backup[p] = NoTree
      /\ l.at \in Aloft \cup Published => \A r \in Procs : prey[r] # m
      /\ l.at \in {"scripts", "sweep", "record"} => tree[m] = Tree(l.ver, Nothing)
      /\ l.at = "manifest" => tree[m] = Tree(l.ver, l.ver)
      /\ l.at = "rmtree" => manifest[m] = Nothing
      /\ l.at = "clean" /\ l.err \in {"early", "escaped"} /\ p \notin pruned => AsFound(p)

IInv ==
  /\ TypeInv
  /\ OwnInv
  /\ PreyInv
  /\ \A m \in Mods : Discovered(m)
  /\ \A p \in Procs : PlaceInv(p)

-----------------------------------------------------------------------------
(* Rows.                                                                   *)

LEMMA Constants ==
  /\ Nothing \notin Mods /\ Nothing \notin Versions /\ Nothing \notin Procs
  /\ Mods \cap Procs = {}
  BY InstallerAssumption

LEMMA TreesTyped ==
  /\ NoTree \in Trees /\ Idle \in Locals /\ Unseen \in Finds
  /\ \A v \in Versions, r \in Vers :
       Tree(v, r) \in Trees /\ Tree(v, r).whole = TRUE /\ Tree(v, r) # NoTree
  /\ \A t \in Trees \ {NoTree} : Torn(t) \subseteq Trees \ {NoTree}
<1>1. NoTree \in Trees /\ NoTree.whole = FALSE /\ NoTree.ver = Nothing
  BY DEF Trees, NoTree
<1>2. Idle \in Locals
  BY DEF Idle, Locals, Vers, Names, Places, Errors
<1>3. Unseen \in Finds
  BY <1>1 DEF Unseen, Finds, Vers
<1>4. ASSUME NEW v \in Versions, NEW r \in Vers
      PROVE  Tree(v, r) \in Trees /\ Tree(v, r).whole = TRUE
  BY DEF Tree, Trees
<1>5. ASSUME NEW t \in Trees \ {NoTree}, NEW u \in Torn(t)
      PROVE  u \in Trees \ {NoTree}
  <2>1. t.ver \in Versions /\ t.rec \in Vers /\ t \in [ver : Versions, whole : BOOLEAN, rec : Vers]
    BY DEF Trees
  <2>2. u \in [ver : Versions, whole : BOOLEAN, rec : Vers] /\ u.ver = t.ver
    BY <2>1 DEF Torn, Vers
  <2> QED
    BY <1>1, <2>1, <2>2, Constants DEF Trees
<1> QED
  BY <1>1, <1>2, <1>3, <1>4, <1>5

(* The process goes to another place, or fails, and nothing else of it     *)
(* changes.                                                                *)
Moved(p, place, err) ==
  /\ proc' \in [Procs -> Locals]
  /\ \A q \in Procs \ {p} : proc'[q] = proc[q]
  /\ proc'[p].at = place /\ proc'[p].err = err
  /\ proc'[p].todo = proc[p].todo /\ proc'[p].mod = proc[p].mod /\ proc'[p].ver = proc[p].ver

LEMMA GotoMoves ==
  ASSUME TypeInv, NEW p \in Procs, NEW place \in Places, Goto(p, place)
  PROVE  Moved(p, place, proc[p].err)
<1> DEFINE l == [proc[p] EXCEPT !.at = place]
<1>1. proc[p] \in Locals
  BY DEF TypeInv
<1>2. /\ l \in Locals /\ l.at = place /\ l.err = proc[p].err
      /\ l.todo = proc[p].todo /\ l.mod = proc[p].mod /\ l.ver = proc[p].ver
  BY <1>1 DEF Locals
<1>3. proc' = [proc EXCEPT ![p] = l]
  BY Zenon DEF Goto
<1> HIDE DEF l
<1> QED
  BY <1>2, <1>3 DEF Moved, TypeInv

LEMMA FailMoves ==
  ASSUME TypeInv, NEW p \in Procs, NEW how \in Errors, Fail(p, how)
  PROVE  Moved(p, "clean", how)
<1> DEFINE f == [proc EXCEPT ![p].at = "clean"]
           k == [proc[p] EXCEPT !.at = "clean"]
           l == [f[p] EXCEPT !.err = how]
<1>1. proc[p] \in Locals
  BY DEF TypeInv
<1>2. k \in Locals /\ k.at = "clean" /\ k.todo = proc[p].todo /\ k.mod = proc[p].mod /\ k.ver = proc[p].ver
  BY <1>1 DEF Locals, Places
<1>3. f = [proc EXCEPT ![p] = k]
  BY Zenon
<1>4. f \in [Procs -> Locals] /\ f[p] = k /\ \A q \in Procs \ {p} : f[q] = proc[q]
  <2> HIDE DEF k, f
  <2> QED
    BY <1>2, <1>3 DEF TypeInv
<1>5. proc' = [f EXCEPT ![p].err = how]
  BY Zenon DEF Fail
<1> HIDE DEF f
<1>6. proc' = [f EXCEPT ![p] = l]
  BY <1>5, Zenon
<1> HIDE DEF k
<1>7. /\ l \in Locals /\ l.at = "clean" /\ l.err = how
      /\ l.todo = proc[p].todo /\ l.mod = proc[p].mod /\ l.ver = proc[p].ver
  BY <1>2, <1>4 DEF Locals
<1> HIDE DEF l
<1> QED
  BY <1>4, <1>6, <1>7 DEF Moved

LEMMA FailsMoves ==
  ASSUME TypeInv, NEW p \in Procs, Fails(p)
  PROVE  \E how \in {"early", "escaped"} : Moved(p, "clean", how)
  BY FailMoves DEF Fails, Errors

-----------------------------------------------------------------------------
(* A step of one process leaves the others what they know.                 *)

Leaves(q) ==
  /\ proc'[q] = proc[q] /\ found'[q] = found[q]
  /\ q \in pruned => q \in pruned'
  /\ q \in pruned' => \/ q \in pruned
                      \/ /\ proc[q].mod \in Mods \cap torn'
                         /\ proc[q].at \in Untouched \cup Aloft => found[q].tree # NoTree
  /\ backup'[q] = backup[q] \/ (q \in pruned' /\ backup[q] # NoTree)
  /\ proc[q].mod \in Mods =>
       /\ manifest'[proc[q].mod] = manifest[proc[q].mod]
       /\ proc[q].mod \in torn => proc[q].mod \in torn'
       /\ \/ tree'[proc[q].mod] = tree[proc[q].mod]
          \/ q \in pruned' /\ \E r \in Procs : prey[r] = proc[q].mod
       /\ \A r \in Procs : prey'[r] = proc[q].mod => prey[r] = proc[q].mod

LEMMA OthersKnow ==
  ASSUME IInv, NEW q \in Procs, Leaves(q)
  PROVE  PlaceInv(q)'
<1>1. PlaceInv(q) /\ proc'[q] = proc[q] /\ found'[q] = found[q]
  BY DEF IInv, Leaves
<1>2. proc[q].at \notin Aloft \cup {"sweep"} => backup'[q] = NoTree
  BY <1>1 DEF PlaceInv, Leaves
<1>3. CASE proc[q].at \in {"idle", "next"}
  <2>1. q \notin pruned'
    BY <1>1, <1>3, Constants DEF PlaceInv, Leaves
  <2> QED
    BY <1>1, <1>2, <1>3, <2>1 DEF PlaceInv, Untouched, Aloft, Published
<1>4. CASE proc[q].at \notin {"idle", "next"}
  <2> DEFINE m == proc[q].mod
  <2>1. /\ m \in Mods /\ manifest'[m] = manifest[m] /\ (m \in torn => m \in torn')
        /\ tree'[m] = tree[m] \/ (q \in pruned' /\ \E r \in Procs : prey[r] = m)
        /\ \A r \in Procs : prey'[r] = m => prey[r] = m
        /\ q \in pruned => q \in pruned'
    BY <1>1, <1>4 DEF PlaceInv, Leaves
  <2>2. AsFound(q) => AsFound(q)' \/ q \in pruned'
    BY <1>1, <2>1 DEF AsFound
  <2>3. proc[q].at \in Untouched \cup Aloft => MayGoBack(q)'
    BY <1>1, <2>1 DEF PlaceInv, MayGoBack, Leaves
  <2>4. backup'[q] = backup[q] \/ q \in pruned'
    BY DEF Leaves
  <2>5. proc[q].at \in Aloft \cup Published =>
          tree'[m] = tree[m] /\ \A r \in Procs : prey'[r] # m
    BY <1>1, <2>1 DEF PlaceInv
  <2> QED
    BY <1>1, <1>2, <1>4, <2>1, <2>2, <2>3, <2>4, <2>5 DEF PlaceInv, Aloft, Published
<1> QED
  BY <1>3, <1>4

StepOf(p) ==
  /\ \A q \in Procs \ {p} :
       /\ proc'[q] = proc[q] /\ found'[q] = found[q] /\ backup'[q] = backup[q]
       /\ q \in pruned' <=> q \in pruned
  /\ \A m \in Mods \ {proc[p].mod} :
       /\ manifest'[m] = manifest[m] /\ tree'[m] = tree[m]
       /\ m \in torn => m \in torn'
  /\ \A r \in Procs : prey'[r] \in {prey[r], Nothing, p, proc[p].mod}

LEMMA StepLeaves ==
  ASSUME IInv, NEW p \in Procs, StepOf(p), NEW q \in Procs \ {p}
  PROVE  Leaves(q)
<1>1. proc[q].mod \in Mods => proc[q].mod # proc[p].mod
  BY Constants DEF IInv, OwnInv
<1>2. \A r \in Procs : proc[q].mod \in Mods /\ prey'[r] = proc[q].mod => prey[r] = proc[q].mod
  BY <1>1, Constants DEF StepOf
<1> QED
  BY <1>1, <1>2 DEF StepOf, Leaves

LEMMA OthersWhole ==
  ASSUME IInv, NEW p \in Procs, StepOf(p), NEW m \in Mods \ {proc[p].mod}
  PROVE  Discovered(m)'
<1>1. Discovered(m) /\ manifest'[m] = manifest[m] /\ tree'[m] = tree[m] /\ (m \in torn => m \in torn')
  BY DEF IInv, StepOf
<1>2. ASSUME NEW q \in Procs, proc[q].mod = m PROVE proc'[q] = proc[q]
  BY <1>2 DEF StepOf
<1> QED
  BY <1>1, <1>2 DEF Discovered

(* A process takes on no module that another has to do with.               *)
LEMMA OwnStep ==
  ASSUME TypeInv, OwnInv, NEW p \in Procs, \A q \in Procs \ {p} : proc'[q] = proc[q],
         proc'[p].todo \subseteq proc[p].todo,
         proc'[p].mod \in proc[p].todo \cup {proc[p].mod, Nothing}
  PROVE  OwnInv'
<1>1. \A q \in Procs : proc[q].todo \subseteq Mods
  BY DEF TypeInv, Locals
<1>2. ASSUME NEW q \in Procs \ {p}
      PROVE  /\ proc'[p].todo \cap proc[q].todo = {}
             /\ proc'[p].mod # Nothing => proc'[p].mod # proc[q].mod /\ proc'[p].mod \notin proc[q].todo
             /\ proc[q].mod # Nothing => proc[q].mod \notin proc'[p].todo
  <2>1. /\ proc[p].todo \cap proc[q].todo = {}
        /\ proc[p].mod # Nothing => proc[p].mod # proc[q].mod /\ proc[p].mod \notin proc[q].todo
        /\ proc[q].mod # Nothing => proc[q].mod # proc[p].mod /\ proc[q].mod \notin proc[p].todo
    BY DEF OwnInv
  <2> QED
    BY <1>1, <2>1, Constants
<1> QED
  BY <1>2 DEF OwnInv

(* What is left to show of a step of a process.                            *)
LEMMA OneProcess ==
  ASSUME IInv, NEW p \in Procs, TypeInv', OwnInv', PreyInv', StepOf(p), PlaceInv(p)',
         \A m \in Mods : m = proc[p].mod => Discovered(m)'
  PROVE  IInv'
<1>1. \A q \in Procs : PlaceInv(q)'
  BY StepLeaves, OthersKnow
<1>2. \A m \in Mods : Discovered(m)'
  BY OthersWhole
<1> QED
  BY <1>1, <1>2 DEF IInv

-----------------------------------------------------------------------------
(* Types.                                                                  *)

LEMMA Movings ==
  ASSUME TypeInv, NEW p \in Procs, NEW place \in Places, NEW err \in Errors, Moved(p, place, err)
  PROVE  /\ proc' \in [Procs -> Locals]
         /\ OwnInv => OwnInv'
<1>1. OwnInv => OwnInv'
  BY OwnStep DEF Moved
<1> QED
  BY <1>1 DEF Moved

(* Who has the directory open has it open where it is now.                 *)
LEMMA CarriedAlong ==
  ASSUME TypeInv, NEW from, NEW to \in Homes, Carried(from, to)
  PROVE  /\ prey' \in [Procs -> Homes]
         /\ \A r \in Procs : prey'[r] = IF prey[r] = from THEN to ELSE prey[r]
  BY DEF Carried, TypeInv

-----------------------------------------------------------------------------
(* The commands.                                                           *)

LEMMA CommandKeeps ==
  ASSUME IInv, NEW p \in Procs, NEW op \in {"add", "all", "upgrade", "remove"},
         NEW mods \in SUBSET Mods, Command(p, op, mods)
  PROVE  IInv'
<1> DEFINE l == [Idle EXCEPT !.at = "next", !.op = op, !.todo = mods]
<1>1. /\ proc[p] = Idle
      /\ \A q \in Procs \ {p} : mods \cap (proc[q].todo \cup {proc[q].mod}) = {}
      /\ proc' = [proc EXCEPT ![p] = l]
      /\ UNCHANGED <<manifest, tree, backup, prey, found, pruned, torn>>
  BY DEF Command, files
<1>2. l \in Locals /\ l.at = "next" /\ l.err = "none" /\ l.todo = mods /\ l.mod = Nothing
  BY DEF Idle, Locals, Places, Errors, Names, Vers
<1> HIDE DEF l
<1>3. proc' \in [Procs -> Locals] /\ proc'[p] = l /\ \A q \in Procs \ {p} : proc'[q] = proc[q]
  BY <1>1, <1>2 DEF IInv, TypeInv
<1>4. TypeInv'
  BY <1>1, <1>3 DEF IInv, TypeInv
<1>5. OwnInv'
  <2>1. ASSUME NEW q \in Procs \ {p}
        PROVE  /\ proc'[p].todo \cap proc'[q].todo = {}
               /\ proc'[q].mod # Nothing => proc'[q].mod \notin proc'[p].todo
    BY <1>1, <1>2, <1>3
  <2>2. \A q, r \in Procs \ {p} : q # r =>
          /\ proc'[q].todo \cap proc'[r].todo = {}
          /\ proc'[q].mod # Nothing => proc'[q].mod # proc'[r].mod /\ proc'[q].mod \notin proc'[r].todo
    BY <1>3 DEF IInv, OwnInv
  <2> QED
    BY <1>2, <1>3, <2>1, <2>2 DEF OwnInv
<1>6. StepOf(p)
  BY <1>1, <1>3 DEF StepOf
<1>7. PlaceInv(p)'
  <2>1. PlaceInv(p) /\ Idle.at = "idle"
    BY DEF IInv, Idle
  <2> QED
    BY <1>1, <1>2, <1>3, <2>1 DEF PlaceInv, Untouched, Aloft, Published
<1>8. ASSUME NEW m \in Mods, m = proc[p].mod PROVE FALSE
  BY <1>1, <1>8, Constants DEF Idle
<1>9. PreyInv'
  BY <1>1 DEF IInv, PreyInv
<1> QED
  BY <1>4, <1>5, <1>6, <1>7, <1>8, <1>9, OneProcess

LEMMA TakeKeeps ==
  ASSUME IInv, NEW p \in Procs, NEW m \in Mods, NEW v \in Versions,
         NEW force \in BOOLEAN, NEW resolved \in BOOLEAN, Take(p, m, v, force, resolved)
  PROVE  IInv'
<1>1. PICK at \in {"clean", "unlink", "stage"}, err \in {"none", "early"} :
        /\ at # "clean" => err = "none"
        /\ proc' = [proc EXCEPT ![p] =
             [proc[p] EXCEPT !.todo = @ \ {m}, !.mod = m, !.ver = v, !.at = at, !.err = err,
                             !.again = FALSE]]
  BY Zenon DEF Take
<1> DEFINE l == [proc[p] EXCEPT !.todo = @ \ {m}, !.mod = m, !.ver = v, !.at = at, !.err = err,
                                !.again = FALSE]
           f == [manifest |-> manifest[m], tree |-> tree[m]]
<1>2. /\ proc' = [proc EXCEPT ![p] = l] /\ found' = [found EXCEPT ![p] = f]
      /\ proc[p].at = "next" /\ m \in proc[p].todo
      /\ UNCHANGED <<manifest, tree, backup, prey, pruned, torn>>
      /\ p \notin pruned /\ PlaceInv(p)
  <2>1. proc' = [proc EXCEPT ![p] = l]
    BY <1>1, Zenon
  <2>2. found' = [found EXCEPT ![p] = f] /\ proc[p].at = "next" /\ m \in proc[p].todo
    BY Zenon DEF Take
  <2>3. UNCHANGED <<manifest, tree, backup, prey, pruned, torn>>
    BY Zenon DEF Take, files
  <2>4. p \notin pruned /\ PlaceInv(p)
    BY <2>2 DEF IInv, PlaceInv
  <2> QED
    BY <2>1, <2>2, <2>3, <2>4
<1>3. proc[p] \in Locals
  BY DEF IInv, TypeInv
<1>4. /\ l \in Locals /\ l.at = at /\ l.err = err /\ l.mod = m /\ l.todo = proc[p].todo \ {m} /\ l.ver = v
      /\ f \in Finds /\ f.manifest = manifest[m] /\ f.tree = tree[m]
  BY <1>3, ZenonT(60) DEF Locals, Places, Errors, Names, Vers, Finds, IInv, TypeInv
<1> HIDE DEF l, f
<1>5. /\ proc' \in [Procs -> Locals] /\ proc'[p] = l /\ \A q \in Procs \ {p} : proc'[q] = proc[q]
      /\ found' \in [Procs -> Finds] /\ found'[p] = f /\ \A q \in Procs \ {p} : found'[q] = found[q]
  BY <1>2, <1>4 DEF IInv, TypeInv
<1>6. TypeInv'
  BY <1>2, <1>5 DEF IInv, TypeInv
<1>7. OwnInv'
  BY <1>2, <1>4, <1>5, OwnStep DEF IInv
<1>8. StepOf(p)
  BY <1>2, <1>5 DEF StepOf
<1>9. \A k \in Mods : Discovered(k)'
  <2>1. \A q \in Procs : proc[q].at \in {"move", "undo"} => proc'[q] = proc[q]
    BY <1>2, <1>5
  <2> QED
    BY <1>2, <2>1 DEF IInv, Discovered, Take
<1>10. AsFound(p)'
  BY <1>2, <1>4, <1>5 DEF AsFound
<1>11. MayGoBack(p)'
  <2>1. \A q \in Procs : proc[q].mod = m => proc[q].at \notin {"move", "undo"}
    BY <1>2, Constants DEF IInv, OwnInv
  <2>2. manifest[m] = Nothing \/ tree[m].whole \/ m \in torn
    BY <2>1 DEF IInv, Discovered
  <2> QED
    BY <1>2, <1>4, <1>5, <2>2 DEF MayGoBack
<1>12. PlaceInv(p)'
  BY <1>1, <1>2, <1>4, <1>5, <1>10, <1>11 DEF PlaceInv, Untouched, Aloft, Published
<1>13. PreyInv'
  BY <1>2 DEF IInv, PreyInv
<1> QED
  BY <1>6, <1>7, <1>8, <1>9, <1>12, <1>13, OneProcess

-----------------------------------------------------------------------------
(* Installing.                                                             *)

(* Pruning changes nothing that its process knows.                         *)
LEMMA PruneKeeps ==
  ASSUME IInv, NEW p \in Procs, NEW q \in Procs, Prune(p, q)
  PROVE  IInv'
<1>1. /\ backup[q] # NoTree /\ prey' = [prey EXCEPT ![p] = q]
      /\ UNCHANGED <<manifest, tree, proc, backup, found, pruned, torn>>
  BY DEF Prune, files
<1>2. /\ prey' \in [Procs -> Homes] /\ prey'[p] = q
      /\ \A r \in Procs \ {p} : prey'[r] = prey[r]
  BY <1>1 DEF IInv, TypeInv, Homes
<1>3. TypeInv' /\ OwnInv' /\ \A m \in Mods : Discovered(m)'
  BY <1>1, <1>2 DEF IInv, TypeInv, OwnInv, Discovered
<1>4. PreyInv'
  BY <1>1, <1>2, Constants DEF IInv, PreyInv
<1>5. ASSUME NEW r \in Procs PROVE Leaves(r)
  <2>1. \A s \in Procs : proc[r].mod \in Mods /\ prey'[s] = proc[r].mod => prey[s] = proc[r].mod
    BY <1>2, Constants
  <2> QED
    BY <1>1, <2>1 DEF Leaves
<1> QED
  BY <1>3, <1>4, <1>5, OthersKnow DEF IInv

(* Files of a backup or of a module are deleted, and whoever works on the  *)
(* module counts as pruned.                                                *)
LEMMA PruneFilesKeeps ==
  ASSUME IInv, NEW p \in Procs, PruneFiles(p)
  PROVE  IInv'
<1> DEFINE x == prey[p]
<1>1. UNCHANGED <<manifest, proc, found>>
  BY DEF PruneFiles
<1>2. OwnInv'
  BY <1>1 DEF IInv, OwnInv
<1>3. /\ TypeInv' /\ PreyInv' /\ (\A m \in Mods : Discovered(m)')
      /\ \A q \in Procs : Leaves(q)
  <2>1. CASE x \in Procs /\ pruned' = pruned \cup {x} /\ torn' = torn \cup {proc[x].mod} /\ UNCHANGED tree
             /\ \/ \E t \in Torn(backup[x]) : backup' = [backup EXCEPT ![x] = t] /\ UNCHANGED prey
                \/ backup' = [backup EXCEPT ![x] = NoTree] /\ Carried(x, Nothing)
    <3>1. PlaceInv(x) /\ backup[x] # NoTree /\ backup[x] \in Trees
      BY <2>1 DEF IInv, PreyInv, TypeInv
    <3>2. /\ proc[x].mod \in Mods
          /\ proc[x].at \in Untouched \cup Aloft => x \in pruned \/ found[x].tree # NoTree
      BY <3>1 DEF PlaceInv, Untouched, Aloft
    <3>3. /\ backup' \in [Procs -> Trees] /\ \A q \in Procs \ {x} : backup'[q] = backup[q]
          /\ backup'[x] # NoTree \/ \A r \in Procs : prey'[r] # x
          /\ prey' \in [Procs -> Homes] /\ \A r \in Procs : prey'[r] \in {prey[r], Nothing}
      <4>1. CASE \E t \in Torn(backup[x]) : backup' = [backup EXCEPT ![x] = t] /\ UNCHANGED prey
        <5>1. PICK t \in Torn(backup[x]) : backup' = [backup EXCEPT ![x] = t]
          BY <4>1
        <5>2. t \in Trees \ {NoTree}
          BY <3>1, TreesTyped
        <5> QED
          BY <2>1, <4>1, <5>1, <5>2 DEF IInv, TypeInv
      <4>2. CASE backup' = [backup EXCEPT ![x] = NoTree] /\ Carried(x, Nothing)
        <5>1. /\ prey' \in [Procs -> Homes]
              /\ \A r \in Procs : prey'[r] = IF prey[r] = x THEN Nothing ELSE prey[r]
          BY <4>2, CarriedAlong DEF IInv, Homes
        <5> QED
          BY <2>1, <4>2, <5>1, TreesTyped, Constants DEF IInv, TypeInv
      <4> QED
        BY <2>1, <4>1, <4>2
    <3>4. TypeInv'
      BY <1>1, <2>1, <3>2, <3>3 DEF IInv, TypeInv
    <3>5. PreyInv'
      BY <2>1, <3>3, Constants DEF IInv, PreyInv
    <3>6. \A m \in Mods : Discovered(m)'
      BY <1>1, <2>1 DEF IInv, Discovered
    <3>7. ASSUME NEW q \in Procs PROVE Leaves(q)
      <4>1. backup'[q] = backup[q] \/ (q \in pruned' /\ backup[q] # NoTree)
        BY <2>1, <3>1, <3>3
      <4> QED
        BY <1>1, <2>1, <3>2, <3>3, <4>1, Constants DEF Leaves
    <3> QED
      BY <3>4, <3>5, <3>6, <3>7
  <2>2. CASE /\ x \in Mods
             /\ \E t \in Torn(tree[x]) : tree' = [tree EXCEPT ![x] = t]
             /\ pruned' = pruned \cup {q \in Procs : proc[q].mod = x} /\ torn' = torn \cup {x}
             /\ UNCHANGED <<backup, prey>>
    <3>1. tree[x] # NoTree /\ tree[x] \in Trees
      BY <2>2 DEF IInv, PreyInv, TypeInv
    <3>2. tree' \in [Mods -> Trees] /\ tree'[x] # NoTree /\ \A m \in Mods \ {x} : tree'[m] = tree[m]
      <4>1. PICK t \in Torn(tree[x]) : tree' = [tree EXCEPT ![x] = t]
        BY <2>2
      <4>2. t \in Trees \ {NoTree}
        BY <3>1, TreesTyped
      <4> QED
        BY <2>2, <4>1, <4>2 DEF IInv, TypeInv
    <3>3. TypeInv'
      BY <1>1, <2>2, <3>2 DEF IInv, TypeInv
    <3>4. PreyInv'
      BY <2>2, <3>2 DEF IInv, PreyInv
    <3>5. \A m \in Mods : Discovered(m)'
      BY <1>1, <2>2, <3>2 DEF IInv, Discovered
    <3>6. ASSUME NEW q \in Procs, proc[q].mod = x, q \notin pruned, proc[q].at \in Untouched \cup Aloft
          PROVE  found[q].tree # NoTree
      <4>1. PlaceInv(q) /\ prey[p] = proc[q].mod
        BY <3>6 DEF IInv
      <4>2. proc[q].at \in Untouched
        BY <3>6, <4>1 DEF PlaceInv
      <4> QED
        BY <3>1, <3>6, <4>1, <4>2 DEF PlaceInv, AsFound
    <3>7. ASSUME NEW q \in Procs PROVE Leaves(q)
      <4>1. tree'[proc[q].mod] = tree[proc[q].mod] \/ proc[q].mod \notin Mods \/ proc[q].mod = x
        BY <3>2
      <4> QED
        BY <1>1, <2>2, <3>6, <4>1 DEF Leaves
    <3> QED
      BY <3>3, <3>4, <3>5, <3>7
  <2>3. CASE prey' = [prey EXCEPT ![p] = Nothing] /\ UNCHANGED <<tree, backup, pruned, torn>>
    <3>1. prey' \in [Procs -> Homes] /\ \A r \in Procs : prey'[r] \in {prey[r], Nothing}
      BY <2>3 DEF IInv, TypeInv, Homes
    <3>2. TypeInv' /\ \A m \in Mods : Discovered(m)'
      BY <1>1, <2>3, <3>1 DEF IInv, TypeInv, Discovered
    <3>3. PreyInv'
      BY <2>3, <3>1, Constants DEF IInv, PreyInv
    <3>4. ASSUME NEW q \in Procs PROVE Leaves(q)
      BY <1>1, <2>3, <3>1, Constants DEF Leaves
    <3> QED
      BY <3>2, <3>3, <3>4
  <2> QED
    BY <2>1, <2>2, <2>3 DEF PruneFiles
<1> QED
  BY <1>2, <1>3, OthersKnow DEF IInv

(* Steps that change nothing on the disk.                                  *)
LEMMA DiskKept ==
  ASSUME IInv, NEW p \in Procs, NEW place \in Places, NEW err \in Errors, Moved(p, place, err),
         UNCHANGED <<manifest, tree, backup, prey, found, pruned, torn>>,
         proc[p].at \notin {"move", "undo"}, PlaceInv(p)'
  PROVE  IInv'
<1>1. TypeInv' /\ OwnInv'
  BY Movings DEF IInv, TypeInv
<1>2. StepOf(p)
  BY DEF Moved, StepOf
<1>3. \A k \in Mods : Discovered(k)'
  <2>1. \A q \in Procs : proc[q].at \in {"move", "undo"} => proc'[q] = proc[q]
    BY DEF Moved
  <2> QED
    BY <2>1 DEF IInv, Discovered
<1>4. PreyInv'
  BY DEF IInv, PreyInv
<1> QED
  BY <1>1, <1>2, <1>3, <1>4, OneProcess

(* Up to the build, the module is as it was found, unless it is pruned.    *)
LEMMA StillAsFound ==
  ASSUME IInv, NEW p \in Procs, proc[p].at \in Untouched,
         NEW place \in Untouched \cup {"clean"}, NEW err \in Errors, Moved(p, place, err),
         place # "clean" => err = proc[p].err,
         UNCHANGED <<manifest, tree, backup, prey, found, pruned, torn>>
  PROVE  IInv'
<1>1. PlaceInv(p)
  BY DEF IInv
<1>2. (AsFound(p)' \/ p \in pruned) /\ MayGoBack(p)'
  BY <1>1 DEF PlaceInv, Untouched, AsFound, MayGoBack, Moved
<1>3. PlaceInv(p)'
  BY <1>1, <1>2 DEF PlaceInv, Untouched, Aloft, Published, Moved
<1> QED
  BY <1>3, DiskKept DEF Untouched, Places

LEMMA FetchKeeps ==
  ASSUME IInv, NEW p \in Procs, Stage(p) \/ Fetch(p) \/ Build(p)
  PROVE  IInv'
<1>1. PICK place \in {"fetch", "build", "aside", "clean"}, err \in Errors :
        Moved(p, place, err) /\ (place # "clean" => err = proc[p].err)
  <2>1. CASE Goto(p, "fetch") \/ Goto(p, "build") \/ Goto(p, "aside")
    BY <2>1, GotoMoves DEF IInv, TypeInv, Locals, Places
  <2>2. CASE Fails(p)
    BY <2>2, FailsMoves DEF IInv, Errors
  <2> QED
    BY <2>1, <2>2 DEF Stage, Fetch, Build
<1>2. /\ proc[p].at \in {"stage", "fetch", "build"}
      /\ UNCHANGED <<manifest, tree, backup, prey, found, pruned, torn>>
  BY DEF Stage, Fetch, Build, files
<1> QED
  BY <1>1, <1>2, StillAsFound DEF Untouched

LEMMA AsideKeeps ==
  ASSUME IInv, NEW p \in Procs, Aside(p)
  PROVE  IInv'
<1> DEFINE m == proc[p].mod
<1>1. PlaceInv(p) /\ proc[p].at = "aside" /\ UNCHANGED <<manifest, found, pruned, torn>>
  BY DEF Aside, IInv
<1>2. /\ AsFound(p) \/ p \in pruned
      /\ m \in Mods /\ MayGoBack(p) /\ proc[p].ver \in Versions
  BY <1>1 DEF PlaceInv, Untouched
<1>3. CASE Fail(p, "escaped") /\ UNCHANGED <<tree, backup, prey>>
  <2>1. Moved(p, "clean", "escaped")
    BY <1>3, FailMoves DEF IInv, Errors
  <2> QED
    BY <1>1, <1>3, <2>1, StillAsFound DEF Untouched, Errors
<1>4. CASE /\ backup' = [backup EXCEPT ![p] = tree[m]] /\ tree' = [tree EXCEPT ![m] = NoTree]
           /\ Carried(m, p) /\ Goto(p, "move")
  <2>1. Moved(p, "move", proc[p].err)
    BY <1>4, GotoMoves DEF IInv, Places
  <2>2. /\ backup' \in [Procs -> Trees] /\ tree' \in [Mods -> Trees]
        /\ backup'[p] = tree[m] /\ \A q \in Procs \ {p} : backup'[q] = backup[q]
        /\ tree'[m] = NoTree /\ \A k \in Mods \ {m} : tree'[k] = tree[k]
    BY <1>2, <1>4, TreesTyped DEF IInv, TypeInv
  <2>3. /\ prey' \in [Procs -> Homes]
        /\ \A r \in Procs : prey'[r] = IF prey[r] = m THEN p ELSE prey[r]
    BY <1>4, CarriedAlong DEF IInv, Homes
  <2>4. TypeInv' /\ OwnInv'
    <3>1. proc[p].err \in Errors
      BY DEF IInv, TypeInv, Locals
    <3> QED
      BY <1>1, <2>1, <2>2, <2>3, <3>1, Movings DEF IInv, TypeInv, Places
  <2>5. StepOf(p)
    BY <1>1, <2>1, <2>2, <2>3 DEF Moved, StepOf
  <2>6. \A r \in Procs : prey'[r] # m
    BY <1>2, <2>3, Constants
  <2>7. PlaceInv(p)'
    <3>1. MayGoBack(p)'
      BY <1>1, <1>2, <2>1 DEF MayGoBack, Moved
    <3>2. backup'[p] = found'[p].tree \/ p \in pruned'
      BY <1>1, <1>2, <2>2 DEF AsFound
    <3> QED
      BY <1>1, <1>2, <2>1, <2>6, <3>1, <3>2 DEF PlaceInv, Moved, Untouched, Aloft, Published
  <2>8. ASSUME NEW k \in Mods, k = m PROVE Discovered(k)'
    BY <2>1, <2>8 DEF Discovered, Moved
  <2>9. PreyInv'
    <3>1. ASSUME NEW r \in Procs
          PROVE  /\ prey'[r] \in Mods => tree'[prey'[r]] # NoTree
                 /\ prey'[r] \in Procs => backup'[prey'[r]] # NoTree
      <4>1. /\ prey[r] \in Mods => tree[prey[r]] # NoTree
            /\ prey[r] \in Procs => backup[prey[r]] # NoTree
        BY DEF IInv, PreyInv
      <4>2. backup[p] = NoTree
        BY <1>1 DEF PlaceInv, Aloft
      <4>3. CASE prey[r] = m
        BY <1>2, <2>2, <2>3, <4>1, <4>3, Constants
      <4>4. CASE prey[r] # m
        BY <1>2, <2>2, <2>3, <4>1, <4>2, <4>4
      <4> QED
        BY <4>3, <4>4
    <3> QED
      BY <3>1 DEF PreyInv
  <2> QED
    BY <2>4, <2>5, <2>7, <2>8, <2>9, OneProcess
<1> QED
  BY <1>3, <1>4 DEF Aside

(* What is left of the backup goes back: the module is as it was found,    *)
(* unless another install deleted files of it.                             *)
LEMMA RestoreKeeps ==
  ASSUME IInv, NEW p \in Procs, proc[p].at \in Aloft, Restored(p),
         NEW how \in {"early", "escaped"}, Moved(p, "clean", how),
         UNCHANGED <<manifest, found, pruned, torn>>
  PROVE  IInv'
<1> DEFINE m == proc[p].mod
<1>1. /\ PlaceInv(p) /\ m \in Mods /\ MayGoBack(p)
      /\ backup[p] = found[p].tree \/ p \in pruned
      /\ \A r \in Procs : prey[r] # m
  BY DEF IInv, PlaceInv, Aloft
<1>2. /\ tree' \in [Mods -> Trees] /\ backup' \in [Procs -> Trees] /\ backup'[p] = NoTree
      /\ tree'[m] = backup[p] /\ \A k \in Mods \ {m} : tree'[k] = tree[k]
      /\ \A q \in Procs \ {p} : backup'[q] = backup[q]
  BY <1>1, TreesTyped DEF Restored, IInv, TypeInv
<1>3. /\ prey' \in [Procs -> Homes]
      /\ \A r \in Procs : prey'[r] = IF prey[r] = p THEN m ELSE prey[r]
  BY <1>1, CarriedAlong DEF Restored, IInv, Homes
<1>4. TypeInv' /\ OwnInv'
  BY <1>2, <1>3, Movings DEF IInv, TypeInv, Places, Errors
<1>5. StepOf(p)
  BY <1>2, <1>3 DEF Moved, StepOf
<1>6. p \notin pruned => AsFound(p)'
  BY <1>1, <1>2 DEF AsFound, MayGoBack, Moved
<1>7. PreyInv'
  <2>1. ASSUME NEW r \in Procs
        PROVE  /\ prey'[r] \in Mods => tree'[prey'[r]] # NoTree
               /\ prey'[r] \in Procs => backup'[prey'[r]] # NoTree
    <3>1. /\ prey[r] \in Mods => tree[prey[r]] # NoTree
          /\ prey[r] \in Procs => backup[prey[r]] # NoTree
      BY DEF IInv, PreyInv
    <3>2. prey[r] # m
      BY <1>1
    <3>3. CASE prey[r] = p
      BY <1>1, <1>2, <1>3, <3>1, <3>3, Constants
    <3>4. CASE prey[r] # p
      BY <1>1, <1>2, <1>3, <3>1, <3>2, <3>4
    <3> QED
      BY <3>3, <3>4
  <2> QED
    BY <2>1 DEF PreyInv
<1>8. PlaceInv(p)'
  BY <1>1, <1>2, <1>6 DEF PlaceInv, Moved, Untouched, Aloft, Published
<1>9. ASSUME NEW k \in Mods, k = m PROVE Discovered(k)'
  BY <1>1, <1>2, <1>9 DEF Discovered, MayGoBack
<1> QED
  BY <1>4, <1>5, <1>7, <1>8, <1>9, OneProcess

(* Steps that change the tree of the module and nothing else on the disk.  *)
LEMMA TreeChanged ==
  ASSUME IInv, NEW p \in Procs, proc[p].mod \in Mods,
         NEW place \in Places, NEW err \in Errors, Moved(p, place, err),
         NEW t \in Trees, tree' = [tree EXCEPT ![proc[p].mod] = t],
         t.whole \/ place = "undo" \/ manifest[proc[p].mod] = Nothing,
         prey' \in [Procs -> Homes], \A r \in Procs : prey'[r] \in {prey[r], Nothing},
         t # NoTree \/ \A r \in Procs : prey'[r] # proc[p].mod,
         UNCHANGED <<manifest, backup, found, pruned, torn>>, PlaceInv(p)'
  PROVE  IInv'
<1>1. tree' \in [Mods -> Trees] /\ tree'[proc[p].mod] = t /\ \A k \in Mods \ {proc[p].mod} : tree'[k] = tree[k]
  BY DEF IInv, TypeInv
<1>2. TypeInv' /\ OwnInv'
  BY <1>1, Movings DEF IInv, TypeInv
<1>3. StepOf(p)
  BY <1>1 DEF Moved, StepOf
<1>4. ASSUME NEW k \in Mods, k = proc[p].mod PROVE Discovered(k)'
  BY <1>1, <1>4 DEF Discovered, Moved
<1>5. PreyInv'
  BY <1>1, Constants DEF IInv, PreyInv
<1> QED
  BY <1>2, <1>3, <1>4, <1>5, OneProcess

LEMMA MoveKeeps ==
  ASSUME IInv, NEW p \in Procs, Move(p)
  PROVE  IInv'
<1> DEFINE m == proc[p].mod
           t == Tree(proc[p].ver, Nothing)
<1>1. PlaceInv(p) /\ proc[p].at = "move" /\ m \in Mods /\ proc[p].ver \in Versions /\ MayGoBack(p)
  BY DEF Move, MoveOr, PlaceInv, IInv, Aloft
<1>2. UNCHANGED <<manifest, found, pruned, torn>>
  BY DEF Move, MoveOr
<1>3. CASE tree' = [tree EXCEPT ![m] = t] /\ Goto(p, "scripts") /\ UNCHANGED <<backup, prey>>
  <2>1. Moved(p, "scripts", proc[p].err) /\ proc[p].err \in Errors
    BY <1>3, GotoMoves DEF IInv, TypeInv, Locals, Places
  <2>2. t \in Trees /\ t.whole /\ t # NoTree
    BY <1>1, TreesTyped DEF Vers
  <2>3. tree'[m] = t
    BY <1>1, <1>3 DEF IInv, TypeInv
  <2>4. PlaceInv(p)'
    BY <1>1, <1>2, <1>3, <2>1, <2>3 DEF PlaceInv, Moved, MayGoBack, Untouched, Aloft, Published
  <2>5. prey \in [Procs -> Homes]
    BY DEF IInv, TypeInv
  <2> HIDE DEF t
  <2> QED
    BY <1>1, <1>2, <1>3, <2>1, <2>2, <2>4, <2>5, TreeChanged DEF Places
<1>4. CASE Restored(p) /\ \E how \in {"early", "escaped"} : Fail(p, how)
  <2>1. PICK how \in {"early", "escaped"} : Moved(p, "clean", how)
    BY <1>4, FailMoves DEF IInv, Errors
  <2> QED
    BY <1>1, <1>2, <1>4, <2>1, RestoreKeeps DEF Aloft
<1> QED
  BY <1>3, <1>4 DEF Move, MoveOr

LEMMA ScriptsKeep ==
  ASSUME IInv, NEW p \in Procs, Scripts(p)
  PROVE  IInv'
<1> DEFINE m == proc[p].mod
<1>1. /\ PlaceInv(p) /\ proc[p].at = "scripts" /\ m \in Mods /\ proc[p].ver \in Versions /\ MayGoBack(p)
      /\ backup[p] = found[p].tree \/ p \in pruned
      /\ tree[m] = Tree(proc[p].ver, Nothing)
  BY DEF Scripts, PlaceInv, IInv, Aloft
<1>2. UNCHANGED <<manifest, backup, prey, found, pruned, torn>>
  BY DEF Scripts
<1>3. prey \in [Procs -> Homes] /\ \A r \in Procs : prey[r] # m
  BY <1>1 DEF IInv, TypeInv, PlaceInv, Aloft
<1>4. CASE Goto(p, "sweep") /\ UNCHANGED tree
  <2>1. Moved(p, "sweep", proc[p].err) /\ proc[p].err \in Errors
    BY <1>4, GotoMoves DEF IInv, TypeInv, Locals, Places
  <2>2. PlaceInv(p)'
    BY <1>1, <1>2, <1>4, <2>1 DEF PlaceInv, Moved, Untouched, Aloft, Published
  <2> QED
    BY <1>1, <1>2, <1>4, <2>1, <2>2, DiskKept DEF Places
<1>5. CASE found[p].tree = NoTree /\ Fail(p, "raised") /\ UNCHANGED tree
  <2>1. Moved(p, "clean", "raised")
    BY <1>5, FailMoves DEF IInv, Errors
  <2>2. backup[p] = NoTree
    BY <1>1, <1>5 DEF MayGoBack
  <2>3. PlaceInv(p)'
    BY <1>1, <1>2, <2>1, <2>2 DEF PlaceInv, Moved, Untouched, Aloft, Published
  <2> QED
    BY <1>1, <1>2, <1>5, <2>1, <2>3, DiskKept DEF Places, Errors
<1>6. CASE (\E t \in Torn(tree[m]) \cup {NoTree} : tree' = [tree EXCEPT ![m] = t]) /\ Goto(p, "undo")
  <2>1. Moved(p, "undo", proc[p].err) /\ proc[p].err \in Errors
    BY <1>6, GotoMoves DEF IInv, TypeInv, Locals, Places
  <2>2. PICK t \in Trees : tree' = [tree EXCEPT ![m] = t]
    <3>1. tree[m] \in Trees \ {NoTree}
      BY <1>1, TreesTyped DEF IInv, TypeInv, Vers
    <3> QED
      BY <1>6, <3>1, TreesTyped
  <2>3. PlaceInv(p)'
    BY <1>1, <1>2, <2>1 DEF PlaceInv, Moved, MayGoBack, Untouched, Aloft, Published
  <2> QED
    BY <1>1, <1>2, <1>3, <2>1, <2>2, <2>3, TreeChanged DEF Places
<1> QED
  BY <1>4, <1>5, <1>6 DEF Scripts

LEMMA UndoKeeps ==
  ASSUME IInv, NEW p \in Procs, Undo(p)
  PROVE  IInv'
<1>1. Moved(p, "clean", "escaped")
  BY FailMoves DEF Undo, IInv, Errors
<1> QED
  BY <1>1, RestoreKeeps DEF Undo, Aloft

LEMMA SweepKeeps ==
  ASSUME IInv, NEW p \in Procs, Sweep(p)
  PROVE  IInv'
<1>1. Moved(p, "record", proc[p].err) /\ proc[p].err \in Errors
  BY GotoMoves DEF Sweep, IInv, TypeInv, Locals, Places
<1>2. /\ PlaceInv(p) /\ proc[p].at = "sweep" /\ UNCHANGED <<manifest, tree, found, pruned, torn>>
      /\ backup' = [backup EXCEPT ![p] = NoTree]
  BY DEF Sweep, IInv
<1>3. /\ backup' \in [Procs -> Trees] /\ backup'[p] = NoTree
      /\ \A q \in Procs \ {p} : backup'[q] = backup[q]
  BY <1>2, TreesTyped DEF IInv, TypeInv
<1>4. /\ prey' \in [Procs -> Homes]
      /\ \A r \in Procs : prey'[r] = IF prey[r] = p THEN Nothing ELSE prey[r]
  BY CarriedAlong DEF Sweep, IInv, Homes
<1>5. proc[p].mod \in Mods /\ \A r \in Procs : prey'[r] # proc[p].mod
  BY <1>2, <1>4, Constants DEF PlaceInv, Published
<1>6. PlaceInv(p)'
  BY <1>1, <1>2, <1>3, <1>5 DEF PlaceInv, Moved, Untouched, Aloft, Published
<1>7. TypeInv' /\ OwnInv'
  BY <1>1, <1>2, <1>3, <1>4, Movings DEF IInv, TypeInv, Places
<1>8. StepOf(p)
  BY <1>1, <1>2, <1>3, <1>4 DEF Moved, StepOf
<1>9. \A k \in Mods : Discovered(k)'
  <2>1. \A q \in Procs : proc[q].at \in {"move", "undo"} => proc'[q] = proc[q]
    BY <1>1, <1>2 DEF Moved
  <2> QED
    BY <1>2, <2>1 DEF IInv, Discovered
<1>10. PreyInv'
  BY <1>2, <1>3, <1>4, Constants DEF IInv, PreyInv
<1> QED
  BY <1>6, <1>7, <1>8, <1>9, <1>10, OneProcess

LEMMA Recorded ==
  ASSUME NEW v \in Versions
  PROVE  [Tree(v, Nothing) EXCEPT !.rec = v] = Tree(v, v)
<1> DEFINE R == [ver : Versions, whole : BOOLEAN, rec : Vers]
           t == Tree(v, Nothing)
           u == [t EXCEPT !.rec = v]
           w == Tree(v, v)
<1>1. /\ t \in R /\ t.whole = TRUE /\ t.ver = v
      /\ w \in R /\ w.whole = TRUE /\ w.ver = v /\ w.rec = v
  BY DEF Tree, Vers
<1> HIDE DEF t, w
<1>2. u \in R /\ u.ver = v /\ u.rec = v /\ u.whole = t.whole
  BY <1>1 DEF Vers
<1> HIDE DEF u
<1>3. u = w
  BY <1>1, <1>2
<1> QED
  BY <1>3 DEF t, u, w

LEMMA RecordKeeps ==
  ASSUME IInv, NEW p \in Procs, Record(p)
  PROVE  IInv'
<1> DEFINE m == proc[p].mod
           v == proc[p].ver
           t == [tree[m] EXCEPT !.rec = v]
<1>1. PlaceInv(p) /\ proc[p].at = "record" /\ m \in Mods /\ v \in Versions /\ tree[m] = Tree(v, Nothing)
  BY DEF Record, PlaceInv, Published, IInv
<1>2. UNCHANGED <<manifest, backup, prey, found, pruned, torn>>
  BY DEF Record
<1>3. CASE tree' = [tree EXCEPT ![m].rec = v] /\ Goto(p, "manifest")
  <2>1. Moved(p, "manifest", proc[p].err) /\ proc[p].err \in Errors
    BY <1>3, GotoMoves DEF IInv, TypeInv, Locals, Places
  <2>2. t = Tree(v, v)
    BY <1>1, Recorded
  <2>3. tree' = [tree EXCEPT ![m] = t]
    BY <1>3, Zenon
  <2>4. t \in Trees /\ t.whole /\ t # NoTree /\ prey \in [Procs -> Homes]
    BY <1>1, <2>2, TreesTyped DEF Vers, IInv, TypeInv
  <2>5. tree'[m] = t
    BY <1>1, <2>3 DEF IInv, TypeInv
  <2>6. PlaceInv(p)'
    BY <1>1, <1>2, <2>1, <2>2, <2>5 DEF PlaceInv, Moved, Untouched, Aloft, Published
  <2> HIDE DEF t
  <2> QED
    BY <1>1, <1>2, <2>1, <2>3, <2>4, <2>6, TreeChanged DEF Places
<1>4. CASE Fail(p, "raised") /\ UNCHANGED tree
  <2>1. Moved(p, "clean", "raised")
    BY <1>4, FailMoves DEF IInv, Errors
  <2>2. PlaceInv(p)'
    BY <1>1, <1>2, <2>1 DEF PlaceInv, Moved, Untouched, Aloft, Published
  <2> QED
    BY <1>1, <1>2, <1>4, <2>1, <2>2, DiskKept DEF Places, Errors
<1> QED
  BY <1>3, <1>4 DEF Record

(* The manifest is written when the tree and its record are there.         *)
LEMMA ManifestWritten ==
  ASSUME IInv, NEW p \in Procs, WriteManifest(p)
  PROVE  /\ IInv'
         /\ \A m \in Mods : manifest'[m] # manifest[m] => tree'[m] = Tree(manifest'[m], manifest'[m])
<1> DEFINE m == proc[p].mod
           v == proc[p].ver
<1>1. PlaceInv(p) /\ proc[p].at = "manifest" /\ m \in Mods /\ v \in Versions /\ tree[m] = Tree(v, v)
  BY DEF WriteManifest, Discoverable, PlaceInv, Published, IInv
<1>2. UNCHANGED <<tree, backup, prey, found, pruned>>
  BY DEF WriteManifest, Discoverable
<1>3. PICK err \in {"none", "late"} : Moved(p, "clean", err)
  <2>1. CASE Goto(p, "clean")
    <3>1. Moved(p, "clean", proc[p].err)
      BY <2>1, GotoMoves DEF IInv, Places
    <3> QED
      BY <1>1, <3>1 DEF PlaceInv
  <2>2. CASE Fail(p, "late")
    BY <2>2, FailMoves DEF IInv, Errors
  <2> QED
    BY <2>1, <2>2 DEF WriteManifest, Discoverable
<1>4. /\ manifest' \in [Mods -> Vers] /\ manifest'[m] \in {v, manifest[m]}
      /\ \A k \in Mods \ {m} : manifest'[k] = manifest[k] /\ (k \in torn => k \in torn')
      /\ torn' \subseteq torn
  BY <1>1 DEF WriteManifest, Discoverable, IInv, TypeInv, Vers
<1>5. TypeInv' /\ OwnInv'
  BY <1>2, <1>3, <1>4, Movings DEF IInv, TypeInv, Places, Errors
<1>6. StepOf(p)
  BY <1>2, <1>3, <1>4 DEF Moved, StepOf
<1>7. PlaceInv(p)'
  BY <1>1, <1>2, <1>3 DEF PlaceInv, Moved, Untouched, Aloft, Published
<1>8. ASSUME NEW k \in Mods, k = m PROVE Discovered(k)'
  BY <1>1, <1>2, <1>8, TreesTyped DEF Discovered, Vers
<1>9. IInv'
  <2>1. PreyInv'
    BY <1>2 DEF IInv, PreyInv
  <2> QED
    BY <1>5, <1>6, <1>7, <1>8, <2>1, OneProcess
<1>10. ASSUME NEW k \in Mods, manifest'[k] # manifest[k] PROVE tree'[k] = Tree(manifest'[k], manifest'[k])
  BY <1>1, <1>2, <1>4, <1>10
<1> QED
  BY <1>9, <1>10

-----------------------------------------------------------------------------
(* Removing.                                                               *)

LEMMA UnlinkKeeps ==
  ASSUME IInv, NEW p \in Procs, Unlink(p)
  PROVE  IInv' /\ \A m \in Mods : manifest'[m] \in {Nothing, manifest[m]}
<1> DEFINE m == proc[p].mod
<1>1. /\ PlaceInv(p) /\ proc[p].at = "unlink" /\ m \in Mods
      /\ UNCHANGED <<tree, backup, prey, found, pruned, torn>>
  BY DEF Unlink, UnlinkWith, PlaceInv, IInv
<1>2. CASE manifest' = [manifest EXCEPT ![m] = Nothing] /\ Goto(p, "rmtree")
  <2>1. Moved(p, "rmtree", proc[p].err) /\ proc[p].err \in Errors
    BY <1>2, GotoMoves DEF IInv, TypeInv, Locals, Places
  <2>2. /\ manifest' \in [Mods -> Vers] /\ manifest'[m] = Nothing
        /\ \A k \in Mods \ {m} : manifest'[k] = manifest[k]
    BY <1>1, <1>2 DEF IInv, TypeInv, Vers
  <2>3. TypeInv' /\ OwnInv' /\ PreyInv'
    BY <1>1, <2>1, <2>2, Movings DEF IInv, TypeInv, PreyInv, Places
  <2>4. StepOf(p)
    BY <1>1, <2>1, <2>2 DEF Moved, StepOf
  <2>5. PlaceInv(p)'
    BY <1>1, <2>1, <2>2 DEF PlaceInv, Moved, Untouched, Aloft, Published
  <2>6. ASSUME NEW k \in Mods, k = m PROVE Discovered(k)'
    BY <2>2, <2>6 DEF Discovered
  <2> QED
    BY <2>2, <2>3, <2>4, <2>5, <2>6, OneProcess
<1>3. CASE Fail(p, "late") /\ UNCHANGED manifest
  <2>1. Moved(p, "clean", "late")
    BY <1>3, FailMoves DEF IInv, Errors
  <2>2. PlaceInv(p)'
    BY <1>1, <2>1 DEF PlaceInv, Moved, Untouched, Aloft, Published
  <2> QED
    BY <1>1, <1>3, <2>1, <2>2, DiskKept DEF Places, Errors
<1> QED
  BY <1>2, <1>3 DEF Unlink, UnlinkWith

LEMMA RmtreeKeeps ==
  ASSUME IInv, NEW p \in Procs, Rmtree(p)
  PROVE  IInv'
<1> DEFINE m == proc[p].mod
<1>1. /\ PlaceInv(p) /\ proc[p].at = "rmtree" /\ m \in Mods /\ manifest[m] = Nothing
      /\ UNCHANGED <<manifest, backup, found, pruned, torn>>
      /\ prey \in [Procs -> Homes] /\ tree[m] \in Trees
  BY DEF Rmtree, PlaceInv, IInv, TypeInv
<1>2. CASE UNCHANGED <<tree, prey>> /\ (Goto(p, "clean") \/ Fail(p, "late"))
  <2>1. PICK err \in {"none", "late"} : Moved(p, "clean", err)
    <3>1. proc[p].err = "none"
      BY <1>1 DEF PlaceInv
    <3> QED
      BY <1>2, <3>1, GotoMoves, FailMoves DEF IInv, Places, Errors
  <2>2. PlaceInv(p)'
    BY <1>1, <2>1 DEF PlaceInv, Moved, Untouched, Aloft, Published
  <2> QED
    BY <1>1, <1>2, <2>1, <2>2, DiskKept DEF Places, Errors
<1>3. CASE tree[m] # NoTree /\ \E t \in Torn(tree[m]) : tree' = [tree EXCEPT ![m] = t] /\ UNCHANGED <<proc, prey>>
  <2>1. Moved(p, "rmtree", "none")
    BY <1>1, <1>3 DEF Moved, PlaceInv, IInv, TypeInv
  <2>2. PICK t \in Trees \ {NoTree} : tree' = [tree EXCEPT ![m] = t]
    BY <1>1, <1>3, TreesTyped
  <2>3. PlaceInv(p)'
    BY <1>1, <2>1 DEF PlaceInv, Moved, Untouched, Aloft, Published
  <2> QED
    BY <1>1, <1>3, <2>1, <2>2, <2>3, TreeChanged DEF Places, Errors
<1>4. CASE tree' = [tree EXCEPT ![m] = NoTree] /\ Carried(m, Nothing) /\ Goto(p, "clean")
  <2>1. Moved(p, "clean", "none")
    BY <1>1, <1>4, GotoMoves DEF IInv, Places, PlaceInv
  <2>2. PlaceInv(p)'
    BY <1>1, <2>1 DEF PlaceInv, Moved, Untouched, Aloft, Published
  <2>3. /\ prey' \in [Procs -> Homes]
        /\ \A r \in Procs : prey'[r] = IF prey[r] = m THEN Nothing ELSE prey[r]
    BY <1>4, CarriedAlong DEF IInv, Homes
  <2>4. \A r \in Procs : prey'[r] # m
    BY <1>1, <2>3, Constants
  <2> QED
    BY <1>1, <1>4, <2>1, <2>2, <2>3, <2>4, TreesTyped, TreeChanged DEF Places, Errors
<1> QED
  BY <1>2, <1>3, <1>4 DEF Rmtree

-----------------------------------------------------------------------------
(* The ends of commands.                                                   *)

(* A process turns to something else, and has found the module as it is,   *)
(* or none.                                                                *)
LEMMA TurnsAway ==
  ASSUME IInv, NEW p \in Procs, NEW l \in Locals, proc' = [proc EXCEPT ![p] = l],
         l.todo \subseteq proc[p].todo, l.mod \in {proc[p].mod, Nothing},
         NEW f \in Finds, found' = [found EXCEPT ![p] = f],
         backup' \in [Procs -> Trees], backup'[p] = NoTree, \A q \in Procs \ {p} : backup'[q] = backup[q],
         prey' \in [Procs -> Homes],
         \A r \in Procs : prey'[r] \in {prey[r], Nothing} /\ prey'[r] # p,
         pruned' = pruned \ {p}, UNCHANGED <<manifest, tree>>,
         torn' = IF proc[p].at \in {"move", "undo"} THEN torn \cup {proc[p].mod} ELSE torn,
         l = Idle \/ (l.at = "next" /\ l.err = "none" /\ l.mod = Nothing)
           \/ (/\ l.at = "stage" /\ l.err = "none" /\ l.ver \in Versions /\ l.mod \in Mods
               /\ proc[p].at = "clean"
               /\ f.manifest = manifest[l.mod] /\ f.tree = tree[l.mod])
  PROVE  IInv'
<1>1. /\ proc' \in [Procs -> Locals] /\ proc'[p] = l /\ \A q \in Procs \ {p} : proc'[q] = proc[q]
      /\ found' \in [Procs -> Finds] /\ found'[p] = f /\ \A q \in Procs \ {p} : found'[q] = found[q]
  BY DEF IInv, TypeInv
<1>2. PlaceInv(p) /\ (proc[p].at \in {"move", "undo"} => proc[p].mod \in Mods)
  BY DEF IInv, PlaceInv
<1>3. TypeInv'
  BY <1>1, <1>2 DEF IInv, TypeInv
<1>4. OwnInv'
  BY <1>1, OwnStep DEF IInv
<1>5. StepOf(p)
  BY <1>1 DEF StepOf
<1>6. ASSUME NEW k \in Mods PROVE Discovered(k)'
  <2>1. Discovered(k)
    BY DEF IInv
  <2>2. CASE k = proc[p].mod /\ proc[p].at \in {"move", "undo"}
    BY <2>2 DEF Discovered
  <2>3. CASE ~(k = proc[p].mod /\ proc[p].at \in {"move", "undo"})
    <3>1. \A q \in Procs : proc[q].mod = k /\ proc[q].at \in {"move", "undo"} => proc'[q] = proc[q]
      BY <1>1, <2>3
    <3> QED
      BY <2>1, <3>1 DEF Discovered
  <2> QED
    BY <2>2, <2>3
<1>7. PlaceInv(p)'
  <2>1. CASE l = Idle
    <3>1. Idle.at = "idle" /\ Idle.err = "none" /\ Idle.mod = Nothing
      BY DEF Idle
    <3> QED
      BY <1>1, <2>1, <3>1 DEF PlaceInv, Untouched, Aloft, Published
  <2>2. CASE l.at = "next" /\ l.err = "none" /\ l.mod = Nothing
    BY <1>1, <2>2 DEF PlaceInv, Untouched, Aloft, Published
  <2>3. CASE /\ l.at = "stage" /\ l.err = "none" /\ l.ver \in Versions /\ l.mod \in Mods
             /\ proc[p].at = "clean"
             /\ f.manifest = manifest[l.mod] /\ f.tree = tree[l.mod]
    <3>1. AsFound(p)'
      BY <1>1, <2>3 DEF AsFound
    <3>2. MayGoBack(p)'
      <4>1. \A q \in Procs : proc[q].mod = l.mod => proc[q].at \notin {"move", "undo"}
        BY <2>3, Constants DEF IInv, OwnInv
      <4>2. manifest[l.mod] = Nothing \/ tree[l.mod].whole \/ l.mod \in torn
        BY <2>3, <4>1 DEF IInv, Discovered
      <4> QED
        BY <1>1, <2>3, <4>2 DEF MayGoBack
    <3> QED
      BY <1>1, <2>3, <3>1, <3>2 DEF PlaceInv, Untouched, Aloft, Published
  <2> QED
    BY <2>1, <2>2, <2>3
<1>8. PreyInv'
  BY Constants DEF IInv, PreyInv
<1> QED
  BY <1>3, <1>4, <1>5, <1>6, <1>7, <1>8, OneProcess

(* At the end of an install nothing is put aside, and nobody has it open.  *)
LEMMA NothingAside ==
  ASSUME IInv, NEW p \in Procs, proc[p].at = "clean", UNCHANGED <<backup, prey>>
  PROVE  /\ backup' \in [Procs -> Trees] /\ backup'[p] = NoTree /\ \A q \in Procs \ {p} : backup'[q] = backup[q]
         /\ prey' \in [Procs -> Homes]
         /\ \A r \in Procs : prey'[r] \in {prey[r], Nothing} /\ prey'[r] # p
<1>1. PlaceInv(p)
  BY DEF IInv
<1>2. backup[p] = NoTree
  BY <1>1 DEF PlaceInv, Aloft
<1> QED
  BY <1>2 DEF IInv, TypeInv, PreyInv

LEMMA CleanKeeps ==
  ASSUME IInv, NEW p \in Procs, Clean(p)
  PROVE  IInv'
<1> DEFINE n == [proc[p] EXCEPT !.at = "next", !.mod = Nothing, !.ver = Nothing,
                                !.err = "none", !.again = FALSE]
           l == IF proc[p].todo = {} \/ proc[p].err \in {"escaped", "raised"} THEN Idle ELSE n
<1>1. /\ proc' = [proc EXCEPT ![p] = l] /\ proc[p].at = "clean"
      /\ found' = [found EXCEPT ![p] = Unseen]
      /\ pruned' = pruned \ {p} /\ UNCHANGED <<manifest, tree, backup, prey, torn>>
  <2>1. proc' = [proc EXCEPT ![p] = l]
    BY Zenon DEF Clean
  <2> QED
    BY <2>1 DEF Clean, files
<1>2. n \in Locals /\ n.todo = proc[p].todo /\ n.mod = Nothing /\ n.at = "next" /\ n.err = "none"
  <2>1. proc[p] \in Locals
    BY DEF IInv, TypeInv
  <2> QED
    BY <2>1 DEF Locals, Places, Errors, Names, Vers
<1>3. Idle.todo = {} /\ Idle.mod = Nothing
  BY DEF Idle
<1> HIDE DEF n
<1>4. /\ l \in Locals /\ l.todo \subseteq proc[p].todo /\ l.mod = Nothing
      /\ l = Idle \/ (l.at = "next" /\ l.err = "none" /\ l.mod = Nothing)
  BY <1>2, <1>3, TreesTyped
<1> HIDE DEF l
<1> QED
  BY <1>1, <1>4, NothingAside, TreesTyped, TurnsAway

LEMMA RetryKeeps ==
  ASSUME IInv, NEW p \in Procs, Retry(p)
  PROVE  IInv'
<1> DEFINE m == proc[p].mod
           f == [manifest |-> manifest[m], tree |-> tree[m]]
<1>1. PICK v \in Versions :
        proc' = [proc EXCEPT ![p] = [proc[p] EXCEPT !.at = "stage", !.ver = v, !.err = "none", !.again = TRUE]]
  BY Zenon DEF Retry
<1> DEFINE l == [proc[p] EXCEPT !.at = "stage", !.ver = v, !.err = "none", !.again = TRUE]
<1>2. /\ proc[p].at = "clean" /\ found' = [found EXCEPT ![p] = f]
      /\ pruned' = pruned \ {p} /\ UNCHANGED <<manifest, tree, backup, prey, torn>>
  BY DEF Retry, files
<1>3. m \in Mods
  BY <1>2 DEF IInv, PlaceInv
<1>4. l \in Locals /\ l.at = "stage" /\ l.err = "none" /\ l.ver = v /\ l.mod = m /\ l.todo = proc[p].todo
  <2>1. proc[p] \in Locals
    BY DEF IInv, TypeInv
  <2> QED
    BY <2>1 DEF Locals, Places, Errors, Vers
<1>5. f \in Finds /\ f.manifest = manifest[m] /\ f.tree = tree[m]
  BY <1>3 DEF IInv, TypeInv, Finds
<1>7. proc' = [proc EXCEPT ![p] = l]
  BY <1>1
<1> HIDE DEF l, f
<1>8. /\ l.todo \subseteq proc[p].todo /\ l.mod \in {proc[p].mod, Nothing}
      /\ torn' = IF proc[p].at \in {"move", "undo"} THEN torn \cup {proc[p].mod} ELSE torn
  BY <1>2, <1>4
<1>9. /\ l.at = "stage" /\ l.err = "none" /\ l.ver \in Versions /\ l.mod \in Mods
      /\ proc[p].at = "clean"
      /\ f.manifest = manifest[l.mod] /\ f.tree = tree[l.mod]
  BY <1>2, <1>3, <1>4, <1>5
<1>11. l \in Locals /\ f \in Finds
  BY <1>4, <1>5
<1>12. UNCHANGED <<manifest, tree>> /\ pruned' = pruned \ {p} /\ found' = [found EXCEPT ![p] = f]
  BY <1>2
<1>13. /\ backup' \in [Procs -> Trees] /\ backup'[p] = NoTree /\ \A q \in Procs \ {p} : backup'[q] = backup[q]
       /\ prey' \in [Procs -> Homes]
       /\ \A r \in Procs : prey'[r] \in {prey[r], Nothing} /\ prey'[r] # p
  BY <1>2, NothingAside
<1> QED
  BY <1>7, <1>8, <1>9, <1>11, <1>12, <1>13, TurnsAway

LEMMA KilledKeeps ==
  ASSUME IInv, NEW p \in Procs, Killed(p)
  PROVE  IInv'
<1>1. Idle \in Locals /\ Idle.todo = {} /\ Idle.mod = Nothing
  BY TreesTyped DEF Idle
<1>2. /\ proc' = [proc EXCEPT ![p] = Idle] /\ found' = [found EXCEPT ![p] = Unseen]
      /\ backup' = [backup EXCEPT ![p] = NoTree] /\ pruned' = pruned \ {p} /\ UNCHANGED <<manifest, tree>>
      /\ prey' = [r \in Procs |-> IF r = p \/ prey[r] = p THEN Nothing ELSE prey[r]]
      /\ torn' = IF proc[p].at \in {"move", "undo"} THEN torn \cup {proc[p].mod} ELSE torn
  BY DEF Killed
<1>3. /\ backup' \in [Procs -> Trees] /\ backup'[p] = NoTree /\ \A q \in Procs \ {p} : backup'[q] = backup[q]
  BY <1>2, TreesTyped DEF IInv, TypeInv
<1>4. /\ prey' \in [Procs -> Homes]
      /\ \A r \in Procs : prey'[r] \in {prey[r], Nothing} /\ prey'[r] # p
  BY <1>2, Constants DEF IInv, TypeInv, Homes
<1> QED
  BY <1>1, <1>2, <1>3, <1>4, TreesTyped, TurnsAway

-----------------------------------------------------------------------------
(* The invariant and what follows from it.                                 *)

LEMMA InitInv == Init => IInv
<1> SUFFICES ASSUME Init PROVE IInv
  OBVIOUS
<1>1. PICK installed \in SUBSET Mods, v \in Versions :
        /\ manifest = [m \in Mods |-> IF m \in installed THEN v ELSE Nothing]
        /\ tree = [m \in Mods |-> IF m \in installed THEN Tree(v, v) ELSE NoTree]
  BY Zenon DEF Init
<1>2. /\ \A p \in Procs : proc[p] = Idle
      /\ proc = [p \in Procs |-> Idle] /\ backup = [p \in Procs |-> NoTree] /\ found = [p \in Procs |-> Unseen]
      /\ prey = [p \in Procs |-> Nothing] /\ pruned = {} /\ torn = {}
  BY DEF Init
<1>3. Tree(v, v) \in Trees /\ Tree(v, v).whole = TRUE /\ v \in Vers /\ Nothing \in Vers
  BY TreesTyped DEF Vers
<1>4. manifest \in [Mods -> Vers] /\ tree \in [Mods -> Trees]
  BY <1>1, <1>3, TreesTyped
<1>5. proc \in [Procs -> Locals] /\ backup \in [Procs -> Trees] /\ found \in [Procs -> Finds]
      /\ prey \in [Procs -> Homes]
  BY <1>2, TreesTyped DEF Homes
<1>6. TypeInv
  BY <1>2, <1>4, <1>5 DEF TypeInv
<1>7. Idle.at = "idle" /\ Idle.err = "none" /\ Idle.todo = {} /\ Idle.mod = Nothing
  BY DEF Idle
<1>8. OwnInv
  BY <1>2, <1>7 DEF OwnInv
<1>9. \A m \in Mods : Discovered(m)
  BY <1>1, <1>3 DEF Discovered
<1>10. \A p \in Procs : PlaceInv(p)
  BY <1>2, <1>7 DEF PlaceInv, Untouched, Aloft, Published
<1>11. PreyInv
  BY <1>2, Constants DEF PreyInv
<1> QED
  BY <1>6, <1>8, <1>9, <1>10, <1>11 DEF IInv

(* A step keeps the invariant, and what it does to manifests.              *)
LEMMA Step ==
  ASSUME IInv, [Next]_vars
  PROVE  /\ IInv'
         /\ \A m \in Mods : manifest'[m] \notin {Nothing, manifest[m]} =>
              tree'[m] = Tree(manifest'[m], manifest'[m])
<1>1. CASE UNCHANGED vars
  BY <1>1 DEF vars, IInv, TypeInv, OwnInv, PreyInv, Discovered, PlaceInv, AsFound, MayGoBack,
              Untouched, Aloft, Published
<1>2. ASSUME NEW p \in Procs,
             \/ \E op \in {"add", "all", "upgrade", "remove"}, mods \in SUBSET Mods : Command(p, op, mods)
             \/ \E m \in Mods, v \in Versions, force, resolved \in BOOLEAN : Take(p, m, v, force, resolved)
             \/ (\E q \in Procs : Prune(p, q)) \/ PruneFiles(p)
             \/ Stage(p) \/ Fetch(p) \/ Build(p) \/ Aside(p) \/ Move(p) \/ Scripts(p)
             \/ Undo(p) \/ Sweep(p) \/ Record(p) \/ Rmtree(p) \/ Clean(p) \/ Retry(p) \/ Killed(p)
      PROVE  IInv' /\ UNCHANGED manifest
  <2>1. IInv'
    BY <1>2, CommandKeeps, TakeKeeps, PruneKeeps, PruneFilesKeeps, FetchKeeps, AsideKeeps, MoveKeeps, ScriptsKeep,
       UndoKeeps, SweepKeeps, RecordKeeps, RmtreeKeeps, CleanKeeps, RetryKeeps, KilledKeeps
  <2>2. UNCHANGED manifest
    BY <1>2, ZenonT(60)
     DEF Command, Take, Prune, PruneFiles, Stage, Fetch, Build, Aside, Move, MoveOr, Scripts, Undo, Sweep, Record,
                Rmtree, Clean, Retry, Killed, files
  <2> QED
    BY <2>1, <2>2
<1>3. ASSUME NEW p \in Procs, WriteManifest(p)
      PROVE  IInv' /\ \A m \in Mods : manifest'[m] # manifest[m] => tree'[m] = Tree(manifest'[m], manifest'[m])
  BY <1>3, ManifestWritten
<1>4. ASSUME NEW p \in Procs, Unlink(p)
      PROVE  IInv' /\ \A m \in Mods : manifest'[m] \in {Nothing, manifest[m]}
  BY <1>4, UnlinkKeeps
<1>5. CASE Next
  <2>1. PICK p \in Procs :
          \/ \E op \in {"add", "all", "upgrade", "remove"}, mods \in SUBSET Mods : Command(p, op, mods)
          \/ \E m \in Mods, v \in Versions, force, resolved \in BOOLEAN : Take(p, m, v, force, resolved)
          \/ (\E q \in Procs : Prune(p, q)) \/ PruneFiles(p)
          \/ Stage(p) \/ Fetch(p) \/ Build(p) \/ Aside(p) \/ Move(p) \/ Scripts(p)
          \/ Undo(p) \/ Sweep(p) \/ Record(p) \/ WriteManifest(p)
          \/ Unlink(p) \/ Rmtree(p) \/ Clean(p) \/ Retry(p) \/ Killed(p)
    BY <1>5, Zenon DEF Next
  <2>2. CASE WriteManifest(p)
    BY <1>3, <2>2
  <2>3. CASE Unlink(p)
    BY <1>4, <2>3
  <2>4. CASE ~WriteManifest(p) /\ ~Unlink(p)
    <3>1. IInv' /\ UNCHANGED manifest
      BY <1>2, <2>1, <2>4
    <3> QED
      BY <3>1
  <2> QED
    BY <2>2, <2>3, <2>4
<1> QED
  BY <1>1, <1>5

(* The invariant holds in every state, and all that follows rests on it.   *)
THEOREM Invariance == Spec => []IInv
  BY InitInv, Step, PTL DEF Spec

(* No manifest, tree, command or backup is ever of the wrong kind.         *)
THEOREM TypeCorrectness == Spec => []TypeInv
<1>1. IInv => TypeInv
  BY DEF IInv
<1> QED
  BY <1>1, Invariance, PTL

(* A manifest appears or changes only when the whole tree and the record   *)
(* of that version are in place (Installer.ManifestIsLast;                 *)
(* Installer.install, which writes the manifest last).                     *)
THEOREM ManifestComesLast == Spec => ManifestIsLast
<1>1. IInv /\ [Next]_vars => [\A m \in Mods : manifest'[m] \notin {Nothing, manifest[m]} =>
                                tree'[m] = Tree(manifest'[m], manifest'[m])]_vars
  BY Step
<1> QED
  BY <1>1, Invariance, PTL DEF Spec, ManifestIsLast

(* An install that fails before its tree is published leaves the module as *)
(* it was, unless another install deleted its backup                       *)
(* (Installer.EarlyFailureKeepsPrevious; Installer._publish).              *)
THEOREM PreviousIsKept == Spec => []EarlyFailureKeepsPrevious
<1>1. IInv => EarlyFailureKeepsPrevious
  BY DEF IInv, PlaceInv, EarlyFailureKeepsPrevious
<1> QED
  BY <1>1, Invariance, PTL

(* What the hub discovers has the whole of its tree, except between the    *)
(* two renames and while a failed install is undone, and after a kill there*)
(* or the pruning of a live backup until the module is installed again     *)
(* (Installer.DiscoveredIsWhole; ModuleStore.remove, manifest first, and   *)
(* Installer._publish).                                                    *)
THEOREM WholeIsDiscovered == Spec => []DiscoveredIsWhole
<1>1. IInv => DiscoveredIsWhole
  BY DEF IInv, Discovered, DiscoveredIsWhole
<1> QED
  BY <1>1, Invariance, PTL

=============================================================================
