------------------------------ MODULE Installer ------------------------------
(***************************************************************************)
(* Installing, upgrading and removing modules on disk                      *)
(* (src/src/vahub/modules/installer.py, src/src/vahub/modules/store.py),   *)
(* as the commands of a terminal (src/src/vahub/cli/module.py) and the     *)
(* routes of the web interface (src/src/vahub/web/modules.py) drive it.    *)
(*                                                                         *)
(* An installed module is a manifest, by which the hub discovers it, and a *)
(* tree of files.  Each action is one change of the disk, so that a crash  *)
(* can come between any two.  The processes share the disk and no lock;    *)
(* within the web process one lock allows one install or removal at a time.*)
(***************************************************************************)
EXTENDS Naturals, FiniteSets

CONSTANTS
  Mods,        (* the names of modules                                     *)
  Versions,    (* the versions of their sources                            *)
  Procs,       (* the processes: the hub's web interface and terminals     *)
  Nothing,     (* no version, no module, no process                        *)
  MaxCommands, (* bound on the modules that commands name                  *)
  MaxCrashes   (* bound on the processes killed                            *)

ASSUME InstallerAssumption ==
  /\ Nothing \notin Mods \cup Versions \cup Procs
  /\ Mods \cap Procs = {}
  /\ MaxCommands \in Nat /\ MaxCrashes \in Nat

VARIABLES
  manifest,   (* manifest[m]: the version of <modules_dir>/<m>.yaml        *)
  tree,       (* tree[m]: the directory <state>/modules/<m>                *)
  proc,       (* proc[p]: the place of the process and its locals          *)
  backup,     (* backup[p]: the previous tree it has put aside             *)
  prey,       (* prey[p]: where the directory is that its pruning has open:*)
              (* the backup of a process or, put back, the tree of a module*)
  commands,   (* how many modules the commands have named                  *)
  crashes,    (* how many processes were killed                            *)
  found,      (* history: the module as the command under way found it     *)
  pruned,     (* history: from whose backup or module another install has  *)
              (* deleted files                                             *)
  torn        (* history: the modules from which it has, or whose process  *)
              (* was killed between two renames, until they are installed  *)

files == <<manifest, tree, backup>>
bounds == <<commands, crashes>>
vars == <<manifest, tree, proc, backup, prey, commands, crashes, found, pruned, torn>>

(* A tree: the version of its code, whether all of it is there, and the    *)
(* version its install.json names.                                         *)
NoTree == [ver |-> Nothing, whole |-> FALSE, rec |-> Nothing]
Tree(v, r) == [ver |-> v, whole |-> TRUE, rec |-> r]

(* Some of its files deleted, install.json perhaps among them.             *)
Torn(t) == {[t EXCEPT !.whole = FALSE, !.rec = r] : r \in {t.rec, Nothing}}

Idle == [at |-> "idle", todo |-> {}, op |-> "none", mod |-> Nothing,
         ver |-> Nothing, err |-> "none", again |-> FALSE]

Unseen == [manifest |-> Nothing, tree |-> NoTree]

IsInstalled(m) == manifest[m] # Nothing \/ tree[m] # NoTree

Goto(p, place) == proc' = [proc EXCEPT ![p].at = place]

(* "early": an InstallError before the new tree is in place; "late": one   *)
(* after that; "escaped" and "raised": an error of another kind, before    *)
(* and after, which ends the whole command.                                *)
Fail(p, how) == proc' = [proc EXCEPT ![p].at = "clean", ![p].err = how]
Fails(p) == Fail(p, "early") \/ Fail(p, "escaped")

(* A directory is renamed, or deleted: who has it open has it still.       *)
Carried(from, to) == prey' = [q \in Procs |-> IF prey[q] = from THEN to ELSE prey[q]]

Init ==
  /\ \E installed \in SUBSET Mods, v \in Versions :
       /\ manifest = [m \in Mods |-> IF m \in installed THEN v ELSE Nothing]
       /\ tree = [m \in Mods |-> IF m \in installed THEN Tree(v, v) ELSE NoTree]
  /\ proc = [p \in Procs |-> Idle]
  /\ backup = [p \in Procs |-> NoTree]
  /\ prey = [p \in Procs |-> Nothing]
  /\ commands = 0 /\ crashes = 0
  /\ found = [p \in Procs |-> Unseen]
  /\ pruned = {} /\ torn = {}

-----------------------------------------------------------------------------
(* Commands.  `add --all` and `upgrade` without a name take several modules*)
(* in turn, and an InstallError of one does not stop the others.  No two   *)
(* processes are told to work on one module at once.                       *)

Command(p, op, mods) ==
  /\ proc[p] = Idle
  /\ commands + Cardinality(mods) <= MaxCommands
  /\ commands' = commands + Cardinality(mods)
  /\ mods # {} /\ (op \in {"add", "remove"} => Cardinality(mods) = 1)
  /\ \A q \in Procs \ {p} : mods \cap (proc[q].todo \cup {proc[q].mod}) = {}
  /\ proc' = [proc EXCEPT ![p] = [Idle EXCEPT !.at = "next", !.op = op, !.todo = mods]]
  /\ UNCHANGED <<files, prey, crashes, found, pruned, torn>>

Unchanged(m, v) == manifest[m] # Nothing /\ tree[m].rec = v

(* The next module: resolved to a version, by the registry or by --source. *)
(* There is nothing to upgrade or to remove where none is installed, and   *)
(* nothing to install where the record and the source agree; --all passes  *)
(* over whatever is there.                                                 *)
Take(p, m, v, force, resolved) ==
  LET op == proc[p].op
      skip == \/ op \in {"upgrade", "remove"} /\ ~IsInstalled(m)
              \/ op = "add" /\ ~force /\ Unchanged(m, v)
              \/ op = "all" /\ ~force /\ IsInstalled(m)
  IN  /\ proc[p].at = "next" /\ m \in proc[p].todo
      /\ proc' = [proc EXCEPT ![p] =
           [proc[p] EXCEPT
              !.todo = @ \ {m}, !.mod = m, !.ver = v,
              !.at = CASE skip -> "clean"
                       [] ~skip /\ op = "remove" -> "unlink"
                       [] ~skip /\ op # "remove" -> IF resolved THEN "stage" ELSE "clean",
              !.err = IF skip \/ op = "remove" \/ resolved THEN "none" ELSE "early",
              !.again = FALSE]]
      /\ found' = [found EXCEPT ![p] = [manifest |-> manifest[m], tree |-> tree[m]]]
      /\ UNCHANGED <<files, prey, bounds, pruned, torn>>

-----------------------------------------------------------------------------
(* Installing.                                                             *)

(* _staging_dir, prune_incomplete: what earlier installs left is deleted   *)
(* if it is old.  The age of a directory is that of its last change, not of*)
(* its renaming: a backup another process has just made may look old.      *)
Prune(p, q) ==
  /\ proc[p].at = "stage" /\ prey[p] = Nothing
  /\ q # p /\ backup[q] # NoTree
  /\ prey' = [prey EXCEPT ![p] = q]
  /\ UNCHANGED <<files, proc, bounds, found, pruned, torn>>

(* _rmtree deletes file by file from the directory it has open, which may  *)
(* have been renamed back since.  It stops when it cannot go on, and when  *)
(* the directory, emptied, is not where it was; the error is suppressed.   *)
PruneFiles(p) ==
  LET x == prey[p] IN
  /\ x # Nothing
  /\ \/ /\ x \in Procs
        /\ \/ \E t \in Torn(backup[x]) : backup' = [backup EXCEPT ![x] = t] /\ UNCHANGED prey
           \/ backup' = [backup EXCEPT ![x] = NoTree] /\ Carried(x, Nothing)
        /\ pruned' = pruned \cup {x} /\ torn' = torn \cup {proc[x].mod}
        /\ UNCHANGED tree
     \/ /\ x \in Mods
        /\ \E t \in Torn(tree[x]) : tree' = [tree EXCEPT ![x] = t]
        /\ pruned' = pruned \cup {q \in Procs : proc[q].mod = x} /\ torn' = torn \cup {x}
        /\ UNCHANGED <<backup, prey>>
     \/ prey' = [prey EXCEPT ![p] = Nothing] /\ UNCHANGED <<tree, backup, pruned, torn>>
  /\ UNCHANGED <<manifest, proc, bounds, found>>

Stage(p) ==
  /\ proc[p].at = "stage" /\ prey[p] = Nothing
  /\ Goto(p, "fetch") \/ Fails(p)
  /\ UNCHANGED <<files, prey, bounds, found, pruned, torn>>

(* _materialise: a copy, a clone at the pinned commit, or nothing to fetch.*)
Fetch(p) ==
  /\ proc[p].at = "fetch"
  /\ Goto(p, "build") \/ Fails(p)
  /\ UNCHANGED <<files, prey, bounds, found, pruned, torn>>

(* The venv, the packages, and the module's own manifest.                  *)
Build(p) ==
  /\ proc[p].at = "build"
  /\ Goto(p, "aside") \/ Fails(p)
  /\ UNCHANGED <<files, prey, bounds, found, pruned, torn>>

(* _publish, one change of the disk at a time: the previous tree is put    *)
(* aside, the new one moved into place, its scripts corrected.             *)
Aside(p) ==
  LET m == proc[p].mod IN
  /\ proc[p].at = "aside"
  /\ \/ /\ backup' = [backup EXCEPT ![p] = tree[m]]
        /\ tree' = [tree EXCEPT ![m] = NoTree]
        /\ Carried(m, p)
        /\ Goto(p, "move")
     \/ Fail(p, "escaped") /\ UNCHANGED <<tree, backup, prey>>
  /\ UNCHANGED <<manifest, bounds, found, pruned, torn>>

(* What is left of the backup goes back.  If nothing is, that raises too.  *)
Restored(p) ==
  /\ tree' = [tree EXCEPT ![proc[p].mod] = backup[p]]
  /\ backup' = [backup EXCEPT ![p] = NoTree]
  /\ Carried(p, proc[p].mod)

MoveOr(p, restore) ==
  /\ proc[p].at = "move"
  /\ \/ /\ tree' = [tree EXCEPT ![proc[p].mod] = Tree(proc[p].ver, Nothing)]
        /\ Goto(p, "scripts")
        /\ UNCHANGED <<backup, prey>>
     \/ restore /\ Fail(p, IF found[p].tree # NoTree /\ backup[p] = NoTree THEN "escaped" ELSE "early")
  /\ UNCHANGED <<manifest, bounds, found, pruned, torn>>

(* Mutant of Move: the rename fails and the backup is left where it is.    *)
MoveOrForget(p) == MoveOr(p, UNCHANGED <<tree, backup, prey>>)

Move(p) == MoveOr(p, Restored(p))

(* Correcting the scripts raises: the new tree is deleted and the backup,  *)
(* if there was one, put back.  That the undoing fails too is left out.    *)
Scripts(p) ==
  LET m == proc[p].mod
      previous == found[p].tree # NoTree
  IN  /\ proc[p].at = "scripts"
      /\ \/ Goto(p, "sweep") /\ UNCHANGED tree
         \/ /\ previous
            /\ \E t \in Torn(tree[m]) \cup {NoTree} : tree' = [tree EXCEPT ![m] = t]
            /\ Goto(p, "undo")
         \/ ~previous /\ Fail(p, "raised") /\ UNCHANGED tree
      /\ UNCHANGED <<manifest, backup, prey, bounds, found, pruned, torn>>

Undo(p) ==
  /\ proc[p].at = "undo"
  /\ Restored(p)
  /\ Fail(p, "escaped")
  /\ UNCHANGED <<manifest, bounds, found, pruned, torn>>

Sweep(p) ==
  /\ proc[p].at = "sweep"
  /\ backup' = [backup EXCEPT ![p] = NoTree]
  /\ Carried(p, Nothing)
  /\ Goto(p, "record")
  /\ UNCHANGED <<manifest, tree, bounds, found, pruned, torn>>

(* A record that cannot be written is no InstallError.                     *)
Record(p) ==
  LET m == proc[p].mod IN
  /\ proc[p].at = "record"
  /\ \/ tree' = [tree EXCEPT ![m].rec = proc[p].ver] /\ Goto(p, "manifest")
     \/ Fail(p, "raised") /\ UNCHANGED tree
  /\ UNCHANGED <<manifest, backup, prey, bounds, found, pruned, torn>>

Discoverable(p, place, after) ==
  LET m == proc[p].mod IN
  /\ proc[p].at = place
  /\ \/ manifest' = [manifest EXCEPT ![m] = proc[p].ver] /\ Goto(p, after) /\ torn' = torn \ {m}
     \/ Fail(p, "late") /\ UNCHANGED <<manifest, torn>>
  /\ UNCHANGED <<tree, backup, prey, bounds, found, pruned>>

(* Mutant of WriteManifest: the manifest is written before the record.     *)
WriteManifestEarly(p) == Discoverable(p, "record", "clean")

WriteManifest(p) == Discoverable(p, "manifest", "clean")

-----------------------------------------------------------------------------
(* Removing: the manifest first, then the tree, file by file.              *)

UnlinkWith(p, files1) ==
  LET m == proc[p].mod IN
  /\ proc[p].at = "unlink"
  /\ \/ manifest' = [manifest EXCEPT ![m] = Nothing] /\ files1 /\ Goto(p, "rmtree")
     \/ manifest[m] # Nothing /\ Fail(p, "late") /\ UNCHANGED <<manifest, tree>>
  /\ UNCHANGED <<backup, prey, bounds, found, pruned, torn>>

(* Mutant of Unlink: deleting the tree begins while the manifest is there. *)
UnlinkLast(p) ==
  \/ UnlinkWith(p, UNCHANGED tree)
  \/ /\ proc[p].at = "unlink"
     /\ tree[proc[p].mod] # NoTree
     /\ tree' = [tree EXCEPT ![proc[p].mod].whole = FALSE]
     /\ UNCHANGED <<manifest, proc, backup, prey, bounds, found, pruned, torn>>

Unlink(p) == UnlinkWith(p, UNCHANGED tree)

Rmtree(p) ==
  LET m == proc[p].mod IN
  /\ proc[p].at = "rmtree"
  /\ \/ tree[m] = NoTree /\ Goto(p, "clean") /\ UNCHANGED <<tree, prey>>
     \/ /\ tree[m] # NoTree
        /\ \/ \E t \in Torn(tree[m]) : tree' = [tree EXCEPT ![m] = t] /\ UNCHANGED <<proc, prey>>
           \/ tree' = [tree EXCEPT ![m] = NoTree] /\ Carried(m, Nothing) /\ Goto(p, "clean")
           \/ Fail(p, "late") /\ UNCHANGED <<tree, prey>>
  /\ UNCHANGED <<manifest, backup, bounds, found, pruned, torn>>

-----------------------------------------------------------------------------
(* The staging directory is deleted and the outcome reported.              *)
Clean(p) ==
  /\ proc[p].at = "clean"
  /\ proc' = [proc EXCEPT ![p] = IF @.todo = {} \/ @.err \in {"escaped", "raised"} THEN Idle
                                 ELSE [@ EXCEPT !.at = "next", !.mod = Nothing, !.ver = Nothing,
                                                !.err = "none", !.again = FALSE]]
  /\ found' = [found EXCEPT ![p] = Unseen]
  /\ pruned' = pruned \ {p}
  /\ UNCHANGED <<files, prey, bounds, torn>>

(* An upgrade that failed with an InstallError is tried again, once, from  *)
(* the source that the record names.                                       *)
Retry(p) ==
  LET m == proc[p].mod IN
  /\ proc[p].at = "clean" /\ proc[p].op = "upgrade"
  /\ proc[p].err \in {"early", "late"} /\ ~proc[p].again
  /\ \E v \in Versions :
       /\ v = found[p].tree.rec
       /\ proc' = [proc EXCEPT ![p] = [@ EXCEPT !.at = "stage", !.ver = v, !.err = "none",
                                               !.again = TRUE]]
  /\ found' = [found EXCEPT ![p] = [manifest |-> manifest[m], tree |-> tree[m]]]
  /\ pruned' = pruned \ {p}
  /\ UNCHANGED <<files, prey, bounds, torn>>

(* The process is killed.  What it had put aside nobody will put back, and *)
(* a manifest may then be without its tree.                                *)
Killed(p) ==
  /\ proc[p] # Idle
  /\ crashes < MaxCrashes
  /\ crashes' = crashes + 1
  /\ torn' = IF proc[p].at \in {"move", "undo"} THEN torn \cup {proc[p].mod} ELSE torn
  /\ proc' = [proc EXCEPT ![p] = Idle]
  /\ backup' = [backup EXCEPT ![p] = NoTree]
  /\ prey' = [q \in Procs |-> IF q = p \/ prey[q] = p THEN Nothing ELSE prey[q]]
  /\ found' = [found EXCEPT ![p] = Unseen]
  /\ pruned' = pruned \ {p}
  /\ UNCHANGED <<manifest, tree, commands>>

-----------------------------------------------------------------------------
Next == \E p \in Procs :
  \/ \E op \in {"add", "all", "upgrade", "remove"}, mods \in SUBSET Mods : Command(p, op, mods)
  \/ \E m \in Mods, v \in Versions, force, resolved \in BOOLEAN :
       Take(p, m, v, force, resolved)
  \/ (\E q \in Procs : Prune(p, q)) \/ PruneFiles(p)
  \/ Stage(p) \/ Fetch(p) \/ Build(p) \/ Aside(p) \/ Move(p) \/ Scripts(p)
  \/ Undo(p) \/ Sweep(p) \/ Record(p) \/ WriteManifest(p)
  \/ Unlink(p) \/ Rmtree(p) \/ Clean(p) \/ Retry(p) \/ Killed(p)

Spec == Init /\ [][Next]_vars

-----------------------------------------------------------------------------
(* Properties.                                                             *)

(* "Publishing the manifest is what makes a module exist, and by then the  *)
(* code it points at is complete": a manifest appears, or changes, only    *)
(* when the whole tree and the record of that version are in place,        *)
(* whatever was there before and whatever was interrupted.                 *)
ManifestIsLast ==
  [][\A m \in Mods : manifest'[m] \notin {Nothing, manifest[m]} =>
       tree'[m] = Tree(manifest'[m], manifest'[m])]_vars

AsFound(p) == LET m == proc[p].mod IN
  manifest[m] = found[p].manifest /\ tree[m] = found[p].tree

(* An install that fails before its tree is published has left the module  *)
(* as it was, whether it failed in the network, the build, the rename or   *)
(* the correction of the scripts; unless another install took its backup   *)
(* for an old one.                                                         *)
EarlyFailureKeepsPrevious ==
  \A p \in Procs \ pruned :
    proc[p].at = "clean" /\ proc[p].err \in {"early", "escaped"} => AsFound(p)

(* What the hub discovers has the whole of its tree: while a module is     *)
(* removed, after a removal that failed half-way, after the install that   *)
(* follows one, after a failed install.  The exceptions are the moment     *)
(* between the two renames and that of the undoing; and, until the module  *)
(* is installed again, a kill at such a moment or a backup that another    *)
(* install took for an old one, of which as little as is left is put back. *)
DiscoveredIsWhole ==
  \A m \in Mods :
    \/ manifest[m] = Nothing \/ tree[m].whole \/ m \in torn
    \/ \E p \in Procs : proc[p].mod = m /\ proc[p].at \in {"move", "undo"}

(* "An interrupted or failed install leaves the previous version running": *)
(* after an install that reports a failure, and that no other process      *)
(* disturbed, a module that was whole is still there in its version.       *)
FailureKeepsPrevious ==
  \A p \in Procs :
    LET m == proc[p].mod
        was == found[p].tree
        failed == /\ proc[p].at = "clean" /\ proc[p].op # "remove"
                  /\ proc[p].err # "none" /\ p \notin pruned
                  /\ was.whole /\ was.ver = found[p].manifest
    IN  failed => manifest[m] = was.ver /\ tree[m].ver = was.ver

(* "Only the dotted working directories are touched; an installed module   *)
(* is never one": what a pruning deletes from is no module's tree.  TLC    *)
(* refutes it: the backup it has open may be renamed back meanwhile.       *)
PruningSparesModules == \A p \in Procs : prey[p] \notin Mods

=============================================================================
