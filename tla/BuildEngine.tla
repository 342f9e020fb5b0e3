---------------------------- MODULE BuildEngine ----------------------------
(***************************************************************************)
(* The package build of pdaXrom-ng: the shell functions of rules/core.sh   *)
(* and the shape every rules/*.sh file takes (rules/template).  A working  *)
(* directory runs its rules in order; each rule downloads a source into    *)
(* SRC_DIR, unpacks, patches, compiles and copies the result into          *)
(* ROOTFS_DIR, and leaves stamp files that a later run trusts.  Working    *)
(* directories made by clone-working-dir.sh share SRC_DIR and nothing      *)
(* else.                                                                   *)
(***************************************************************************)
EXTENDS Integers, FiniteSets

CONSTANTS
  Workdirs,    \* working directories: one checkout and its clones
  NRules,      \* a platform script sources rules 1 .. NRules in this order
  Stem,        \* Stem[p]: what ${1/.*} leaves of p's archive name
  Copied,      \* the packages whose source is copied by cp -R, not by tar
  NPatches,    \* patches in each of the two series of a package
  Env,         \* what the environment does in this instance, see below
  MaxEvents,   \* bound: how many of these events happen in a behaviour
  None         \* no writer

Pkg     == 1 .. NRules
Stems   == {Stem[p] : p \in Pkg}
Series  == {"base", "vendor"}

(***************************************************************************)
(* Events of the environment:                                              *)
(*   fail    a command the scripts test with || fails (network, disk,      *)
(*           compiler, or Ctrl-C: core.sh traps SIGINT, the child dies)    *)
(*   patch   a patch does not apply                                        *)
(*   pipe    the first tar of "tar c | tar x" fails                        *)
(*   kill    the script and its children die (terminal closed, power cut)  *)
(*   clean   the user runs the script with the argument clean              *)
(***************************************************************************)
Events == {"fail", "patch", "pipe", "kill", "clean"}

ASSUME EngineAssumption ==
  /\ NRules \in Nat \ {0}
  /\ NPatches \in Nat
  /\ MaxEvents \in Nat
  /\ Stem \in [1 .. NRules -> STRING]
  /\ Copied \subseteq 1 .. NRules
  /\ Env \subseteq Events
  /\ None \notin Workdirs

VARIABLES
  pc,         \* pc[w]: the command the script of w is at
  cur,        \* cur[w]: the rule it is in
  src,        \* src[p]: the source file of p in the shared SRC_DIR
  writer,     \* writer[p]: who truncated that file last
  extracted,  \* extracted[w]: the stems with a stamp STATE_DIR/x.extracted
  tree,       \* tree[w][p]: the source tree of p below BUILD_DIR
  applied,    \* applied[w][p][s]: how many patches of series s it carries
  pos,        \* pos[w]: patches of the current series handled in this run
  marked,     \* marked[w]: the trees that hold .pdaXrom-ng-patched
  rootfs,     \* rootfs[w][p]: the files of p in ROOTFS_DIR
  installed,  \* installed[w]: the packages with STATE_DIR/p.installed
  events      \* how many events have happened

vars == <<pc, cur, src, writer, extracted, tree, applied, pos, marked,
          rootfs, installed, events>>

shared == <<src, writer>>
build  == <<extracted, tree, applied, pos, marked>>
image  == <<rootfs, installed>>

Phases == {"idle", "rule", "fetch", "wget", "mirror", "extract", "untar",
           "stamp_x", "base", "vendor", "stamp_p", "compile", "finish",
           "stamp_i", "clean_build", "clean_state", "clean_rootfs"}

\* Files of a package in the root file system: absent, a part of them, all of
\* them from an incomplete source tree, all from an unpatched one, all right.
Contents == {"none", "partial", "halftree", "unpatched", "good"}

Init ==
  /\ pc        = [w \in Workdirs |-> "idle"]
  /\ cur       = [w \in Workdirs |-> 1]
  /\ src       = [p \in Pkg |-> "absent"]
  /\ writer    = [p \in Pkg |-> None]
  /\ extracted = [w \in Workdirs |-> {}]
  /\ tree      = [w \in Workdirs |-> [p \in Pkg |-> "none"]]
  /\ applied   = [w \in Workdirs |-> [p \in Pkg |-> [s \in Series |-> 0]]]
  /\ pos       = [w \in Workdirs |-> 0]
  /\ marked    = [w \in Workdirs |-> {}]
  /\ rootfs    = [w \in Workdirs |-> [p \in Pkg |-> "none"]]
  /\ installed = [w \in Workdirs |-> {}]
  /\ events    = 0

----------------------------------------------------------------------------
(* Control                                                                 *)

Goto(w, from, to) ==
  /\ pc[w] = from
  /\ pc' = [pc EXCEPT ![w] = to]

\* An event of kind e happens in this step.
Event(e) ==
  /\ e \in Env
  /\ events < MaxEvents
  /\ events' = events + 1

NoEvent == UNCHANGED events

\* error(): the script says what failed and exits; stamps and trees stay.
Abort(w, from) == Goto(w, from, "idle") /\ UNCHANGED cur

\* The user starts (or starts again) the platform script.
Run(w) ==
  /\ Goto(w, "idle", "rule")
  /\ cur' = [cur EXCEPT ![w] = 1]
  /\ NoEvent
  /\ UNCHANGED <<shared, build, image>>

\* The script and whatever it was running die.  What a command had begun
\* stays half done: each command marks it so when it starts.
Kill(w) ==
  /\ pc[w] # "idle"
  /\ pc' = [pc EXCEPT ![w] = "idle"]
  /\ Event("kill")
  /\ UNCHANGED <<cur, shared, build, image>>

----------------------------------------------------------------------------
(* One rule                                                                *)

\* build_p: nothing to do when the package has its stamp.
SkipRule(w) ==
  /\ pc[w] = "rule"
  /\ cur[w] \in installed[w]
  /\ cur' = [cur EXCEPT ![w] = cur[w] + 1]
  /\ NoEvent
  /\ UNCHANGED <<pc, shared, build, image>>

AllRulesDone(w) ==
  /\ cur[w] = NRules + 1
  /\ Abort(w, "rule")
  /\ NoEvent
  /\ UNCHANGED <<shared, build, image>>

\* Mutant: the rule forgets to test its stamp.
DownloadAnyway(w) ==
  /\ cur[w] \in Pkg
  /\ Goto(w, "rule", IF src[cur[w]] = "absent" THEN "fetch" ELSE "extract")
  /\ NoEvent
  /\ UNCHANGED <<cur, shared, build, image>>

\* download: a file of that name is taken as the source, whoever wrote it.
Download(w) ==
  /\ cur[w] \in Pkg \ installed[w]
  /\ Goto(w, "rule", IF src[cur[w]] = "absent" THEN "fetch" ELSE "extract")
  /\ NoEvent
  /\ UNCHANGED <<cur, shared, build, image>>

\* wget -O truncates the file it writes.
StartWget(w) ==
  /\ Goto(w, "fetch", "wget")
  /\ src' = [src EXCEPT ![cur[w]] = "partial"]
  /\ writer' = [writer EXCEPT ![cur[w]] = w]
  /\ NoEvent
  /\ UNCHANGED <<cur, build, image>>

\* The file is whole once the writer that truncated it last has finished.
Written(w) ==
  src' = [src EXCEPT ![cur[w]] =
            IF writer[cur[w]] = w THEN "complete" ELSE @]

WgetOk(w) ==
  /\ Goto(w, "wget", "extract")
  /\ Written(w)
  /\ NoEvent
  /\ UNCHANGED <<cur, writer, build, image>>

WgetFails(w) ==
  /\ Goto(w, "wget", "mirror")
  /\ Event("fail")
  /\ UNCHANGED <<cur, shared, build, image>>

\* download2: wget -c continues in the same file ...
MirrorOk(w) ==
  /\ Goto(w, "mirror", "extract")
  /\ Written(w)
  /\ NoEvent
  /\ UNCHANGED <<cur, writer, build, image>>

\* Mutant: without the rm -f.
MirrorFailsLeavingFile(w) ==
  /\ Abort(w, "mirror")
  /\ Event("fail")
  /\ UNCHANGED <<shared, build, image>>

\* ... and removes it when the mirror fails too, then error().
MirrorFails(w) ==
  /\ Abort(w, "mirror")
  /\ src' = [src EXCEPT ![cur[w]] = "absent"]
  /\ writer' = [writer EXCEPT ![cur[w]] = None]
  /\ Event("fail")
  /\ UNCHANGED <<build, image>>

\* extract: a stamp for the stem means unpacked, of whatever version.
SkipExtract(w) ==
  /\ Goto(w, "extract", "base")
  /\ Stem[cur[w]] \in extracted[w]
  /\ pos' = [pos EXCEPT ![w] = 0]
  /\ NoEvent
  /\ UNCHANGED <<cur, shared, extracted, tree, applied, marked, image>>

SourceMissing(w) ==
  /\ Abort(w, "extract")
  /\ Stem[cur[w]] \notin extracted[w]
  /\ src[cur[w]] = "absent"
  /\ NoEvent
  /\ UNCHANGED <<shared, build, image>>

\* Unpacking overwrites the tree with the files of the archive, which drops
\* the patches it may carry but not the mark that says it is patched.
StartUntar(w) ==
  /\ Goto(w, "extract", "untar")
  /\ Stem[cur[w]] \notin extracted[w]
  /\ src[cur[w]] # "absent"
  /\ tree' = [tree EXCEPT ![w][cur[w]] = "partial"]
  /\ applied' = [applied EXCEPT ![w][cur[w]] = [s \in Series |-> 0]]
  /\ NoEvent
  /\ UNCHANGED <<cur, shared, extracted, pos, marked, image>>

\* tar reads a whole archive; cp copies whatever is there.
UntarOk(w) ==
  /\ Goto(w, "untar", "stamp_x")
  /\ \/ /\ src[cur[w]] = "complete"
        /\ tree' = [tree EXCEPT ![w][cur[w]] = "full"]
     \/ /\ src[cur[w]] = "partial"
        /\ cur[w] \in Copied
        /\ UNCHANGED tree
  /\ NoEvent
  /\ UNCHANGED <<cur, shared, extracted, applied, pos, marked, image>>

\* Mutant: without || error after tar.
BadArchiveUnnoticed(w) ==
  /\ Goto(w, "untar", "stamp_x")
  /\ src[cur[w]] # "complete"
  /\ NoEvent
  /\ UNCHANGED <<cur, shared, build, image>>

\* tar finds a truncated archive (or its name gone) and error() follows.
BadArchive(w) ==
  /\ Abort(w, "untar")
  /\ src[cur[w]] # "complete"
  /\ cur[w] \notin Copied \/ src[cur[w]] = "absent"
  /\ NoEvent
  /\ UNCHANGED <<shared, build, image>>

UntarFails(w) ==
  /\ Abort(w, "untar")
  /\ Event("fail")
  /\ UNCHANGED <<shared, build, image>>

StampExtracted(w) ==
  /\ Goto(w, "stamp_x", "base")
  /\ extracted' = [extracted EXCEPT ![w] = @ \cup {Stem[cur[w]]}]
  /\ pos' = [pos EXCEPT ![w] = 0]
  /\ NoEvent
  /\ UNCHANGED <<cur, shared, tree, applied, marked, image>>

\* apply_patches: a marked tree is patched.
SkipPatches(w) ==
  /\ cur[w] \in marked[w]
  /\ pos[w] = 0
  /\ Goto(w, "base", "compile")
  /\ NoEvent
  /\ UNCHANGED <<cur, shared, build, image>>

\* Mutant: the vendor series is forgotten.
AfterSeriesNoVendor(s) == "stamp_p"

AfterSeries(s) == IF s = "base" THEN "vendor" ELSE "stamp_p"

\* May the loop of apply_patches1 be at a patch of series s of this tree?
Patching(w, s) ==
  /\ pc[w] = s
  /\ s = "base" /\ pos[w] = 0 => cur[w] \notin marked[w]

\* apply_patches1: the next patch of series s goes into the tree.
PatchApplies(w, s) ==
  /\ Patching(w, s)
  /\ pos[w] < NPatches
  /\ tree[w][cur[w]] # "none"
  /\ applied[w][cur[w]][s] = pos[w]
  /\ applied' = [applied EXCEPT ![w][cur[w]][s] = @ + 1]
  /\ pos' = [pos EXCEPT ![w] = @ + 1]
  /\ NoEvent
  /\ UNCHANGED <<pc, cur, shared, extracted, tree, marked, image>>

\* The loop stands behind a pipe: error() exits the subshell of the loop, so
\* the rest of the series is left out and the script goes on.
LeaveSeries(w, s) ==
  /\ Goto(w, s, AfterSeries(s))
  /\ pos' = [pos EXCEPT ![w] = 0]
  /\ UNCHANGED <<cur, shared, extracted, tree, applied, marked, image>>

SeriesEnds(w, s) ==
  /\ Patching(w, s)
  /\ pos[w] = NPatches
  /\ LeaveSeries(w, s)
  /\ NoEvent

\* The patch is in the tree already, or there is no tree.
PatchRejected(w, s) ==
  /\ Patching(w, s)
  /\ pos[w] < NPatches
  /\ tree[w][cur[w]] = "none" \/ applied[w][cur[w]][s] > pos[w]
  /\ LeaveSeries(w, s)
  /\ NoEvent

PatchFails(w, s) ==
  /\ Patching(w, s)
  /\ pos[w] < NPatches
  /\ LeaveSeries(w, s)
  /\ Event("patch")

\* The mark is left whether the patches went in or not (touch cannot create
\* it where there is no tree, and nobody looks at its status).
MarkPatched(w) ==
  /\ Goto(w, "stamp_p", "compile")
  /\ marked' = [marked EXCEPT ![w] =
                  IF tree[w][cur[w]] = "none" THEN @ ELSE @ \cup {cur[w]}]
  /\ NoEvent
  /\ UNCHANGED <<cur, shared, extracted, tree, applied, pos, image>>

\* configure, make and install_fakeroot_init, each followed by || error: all
\* succeed.  An incomplete tree may still compile.
Compile(w) ==
  /\ Goto(w, "compile", "finish")
  /\ tree[w][cur[w]] # "none"
  /\ NoEvent
  /\ UNCHANGED <<cur, shared, build, image>>

\* One of them fails: there is no tree, it is incomplete, or bad luck.
CompileFails(w) ==
  /\ Abort(w, "compile")
  /\ IF tree[w][cur[w]] = "full" THEN Event("fail") ELSE NoEvent
  /\ UNCHANGED <<shared, build, image>>

\* What a finished copy of the package into ROOTFS_DIR amounts to.
Product(w, p) ==
  IF tree[w][p] # "full" THEN "halftree"
  ELSE IF \E s \in Series : applied[w][p][s] < NPatches THEN "unpatched"
  ELSE "good"

\* install_fakeroot_finish: tar c -C fakeroot . | tar x -C ${ROOTFS_DIR}
StartFinish(w) ==
  /\ pc[w] = "finish"
  /\ rootfs[w][cur[w]] # "partial"
  /\ rootfs' = [rootfs EXCEPT ![w][cur[w]] = "partial"]
  /\ NoEvent
  /\ UNCHANGED <<pc, cur, shared, build, installed>>

FinishOk(w) ==
  /\ Goto(w, "finish", "stamp_i")
  /\ rootfs[w][cur[w]] = "partial"
  /\ rootfs' = [rootfs EXCEPT ![w][cur[w]] = Product(w, cur[w])]
  /\ NoEvent
  /\ UNCHANGED <<cur, shared, build, installed>>

\* Mutant: without || error after the pipe.
FinishFailsUnnoticed(w) ==
  /\ Goto(w, "finish", "stamp_i")
  /\ rootfs[w][cur[w]] = "partial"
  /\ Event("fail")
  /\ UNCHANGED <<cur, shared, build, image>>

FinishFails(w) ==
  /\ Abort(w, "finish")
  /\ rootfs[w][cur[w]] = "partial"
  /\ Event("fail")
  /\ UNCHANGED <<shared, build, image>>

\* The status of the pipe is that of its last command.
FirstTarFails(w) ==
  /\ Goto(w, "finish", "stamp_i")
  /\ rootfs[w][cur[w]] = "partial"
  /\ Event("pipe")
  /\ UNCHANGED <<cur, shared, build, image>>

StampInstalled(w) ==
  /\ Goto(w, "stamp_i", "rule")
  /\ installed' = [installed EXCEPT ![w] = @ \cup {cur[w]}]
  /\ cur' = [cur EXCEPT ![w] = @ + 1]
  /\ NoEvent
  /\ UNCHANGED <<shared, build, rootfs>>

----------------------------------------------------------------------------
(* clean: rm -rf of BUILD_DIR, STATE_DIR and ROOTFS_DIR, one by one.  It    *)
(* comes before the SIGINT trap, so Ctrl-C ends it (Kill).                 *)

StartClean(w) ==
  /\ Goto(w, "idle", "clean_build")
  /\ Event("clean")
  /\ UNCHANGED <<cur, shared, build, image>>

\* rm -rf takes a tree apart in any order; its mark is one of its files.
RemoveBuild(w) ==
  /\ pc[w] = "clean_build"
  /\ \/ \E p \in Pkg :
          /\ tree[w][p] = "full"
          /\ tree' = [tree EXCEPT ![w][p] = "partial"]
          /\ \E lost \in {{}, {p}} : marked' = [marked EXCEPT ![w] = @ \ lost]
          /\ UNCHANGED <<pc, applied>>
     \/ \E p \in Pkg :
          /\ tree[w][p] # "none"
          /\ tree' = [tree EXCEPT ![w][p] = "none"]
          /\ applied' = [applied EXCEPT ![w][p] = [s \in Series |-> 0]]
          /\ marked' = [marked EXCEPT ![w] = @ \ {p}]
          /\ UNCHANGED pc
     \/ /\ \A p \in Pkg : tree[w][p] = "none"
        /\ pc' = [pc EXCEPT ![w] = "clean_state"]
        /\ UNCHANGED <<tree, applied, marked>>
  /\ NoEvent
  /\ UNCHANGED <<cur, shared, extracted, pos, image>>

RemoveState(w) ==
  /\ pc[w] = "clean_state"
  /\ \/ \E p \in installed[w] :
          /\ installed' = [installed EXCEPT ![w] = @ \ {p}]
          /\ UNCHANGED <<pc, extracted>>
     \/ \E x \in extracted[w] :
          /\ extracted' = [extracted EXCEPT ![w] = @ \ {x}]
          /\ UNCHANGED <<pc, installed>>
     \/ /\ installed[w] = {}
        /\ extracted[w] = {}
        /\ pc' = [pc EXCEPT ![w] = "clean_rootfs"]
        /\ UNCHANGED <<installed, extracted>>
  /\ NoEvent
  /\ UNCHANGED <<cur, shared, tree, applied, pos, marked, rootfs>>

RemoveRootfs(w) ==
  /\ pc[w] = "clean_rootfs"
  /\ \/ \E p \in Pkg, c \in {"partial", "none"} :
          /\ rootfs[w][p] \notin {c, "none"}
          /\ rootfs' = [rootfs EXCEPT ![w][p] = c]
          /\ UNCHANGED pc
     \/ /\ \A p \in Pkg : rootfs[w][p] = "none"
        /\ pc' = [pc EXCEPT ![w] = "idle"]
        /\ UNCHANGED rootfs
  /\ NoEvent
  /\ UNCHANGED <<cur, shared, build, installed>>

----------------------------------------------------------------------------
(* The steps the shell takes by itself once the script runs.               *)
Script(w) ==
  \/ SkipRule(w) \/ AllRulesDone(w)
  \/ Download(w) \/ StartWget(w) \/ WgetOk(w) \/ MirrorOk(w)
  \/ SkipExtract(w) \/ SourceMissing(w) \/ StartUntar(w) \/ UntarOk(w)
  \/ BadArchive(w) \/ StampExtracted(w) \/ SkipPatches(w)
  \/ \E s \in Series : \/ PatchApplies(w, s)
                       \/ SeriesEnds(w, s)
                       \/ PatchRejected(w, s)
  \/ MarkPatched(w) \/ Compile(w) \/ StartFinish(w) \/ FinishOk(w)
  \/ StampInstalled(w)
  \/ RemoveBuild(w) \/ RemoveState(w) \/ RemoveRootfs(w)

Failure(w) ==
  \/ WgetFails(w) \/ MirrorFails(w) \/ UntarFails(w) \/ CompileFails(w)
  \/ FinishFails(w) \/ FirstTarFails(w) \/ Kill(w)
  \/ \E s \in Series : PatchFails(w, s)

Next ==
  \E w \in Workdirs : Run(w) \/ StartClean(w) \/ Script(w) \/ Failure(w)

Spec == Init /\ [][Next]_vars

\* The shell goes on with a running script, and the user starts the script
\* again as long as packages are missing.
Fairness ==
  \A w \in Workdirs : WF_vars(Script(w)) /\ WF_vars(Run(w))

FairSpec == Spec /\ Fairness

----------------------------------------------------------------------------
(* Properties                                                              *)

TypeOK ==
  /\ pc \in [Workdirs -> Phases]
  /\ cur \in [Workdirs -> 1 .. NRules + 1]
  /\ src \in [Pkg -> {"absent", "partial", "complete"}]
  /\ writer \in [Pkg -> Workdirs \cup {None}]
  /\ extracted \in [Workdirs -> SUBSET Stems]
  /\ tree \in [Workdirs -> [Pkg -> {"none", "partial", "full"}]]
  /\ applied \in [Workdirs -> [Pkg -> [Series -> 0 .. NPatches]]]
  /\ pos \in [Workdirs -> 0 .. NPatches]
  /\ marked \in [Workdirs -> SUBSET Pkg]
  /\ rootfs \in [Workdirs -> [Pkg -> Contents]]
  /\ installed \in [Workdirs -> SUBSET Pkg]
  /\ events \in 0 .. MaxEvents

Whole(w) == {p \in Pkg : rootfs[w][p] \notin {"none", "partial"}}

\* A package with an installed stamp has all its files in the root file
\* system, whatever failed, was killed or cleaned before (the stamp is touched
\* after install_fakeroot_finish, and clean removes STATE_DIR before ROOTFS_DIR).
InstalledIsWhole ==
  \A w \in Workdirs : installed[w] \subseteq Whole(w)

\* No installed package was compiled from a half unpacked source, although
\* clones write the same file of SRC_DIR while others read it, downloads are
\* cut off, and a stamp may belong to another version with the same stem.
NoHalfTree ==
  \A w \in Workdirs : \A p \in installed[w] : rootfs[w][p] # "halftree"

\* An installed package was compiled with every patch of its series, as the
\* || error "patching" after each patch command says.
BuiltPatched ==
  \A w \in Workdirs : \A p \in installed[w] : rootfs[w][p] # "unpatched"

\* Every rule's package is in the image in the end, however often commands
\* failed and the tree was cleaned, if the user starts the script again.
BuildCompletes ==
  \A w \in Workdirs : <>[](installed[w] = Pkg)

\* The phases in which a script works on the package of its current rule.
InRule == Phases \ {"idle", "rule", "clean_build", "clean_state",
                    "clean_rootfs"}

\* Inductive by itself: a script at a rule has installed the ones before it,
\* and one that works on a package has not installed that.
OrderAt(w) ==
  /\ pc[w] \in InRule => cur[w] \in Pkg \ installed[w]
  /\ pc[w] \in InRule \cup {"rule"} => 1 .. cur[w] - 1 \subseteq installed[w]

\* Inductive with OrderAt where no pipe fails: a script is about to stamp a
\* package only when its files are whole, and removes files only when no stamp
\* is left.
ImageAt(w) ==
  /\ pc[w] = "stamp_i" => cur[w] \in Whole(w)
  /\ pc[w] = "clean_rootfs" => installed[w] = {}
  /\ installed[w] \subseteq Whole(w)

\* Inductive with OrderAt where nothing is cleaned and nothing is copied: the
\* one tree that may be half unpacked is that of the first package without a
\* stamp, and the engine unpacks it again before it uses it.
TreeAt(w) ==
  /\ pc[w] \notin {"clean_build", "clean_state", "clean_rootfs"}
  /\ pc[w] \in {"stamp_x", "finish", "stamp_i"} => tree[w][cur[w]] = "full"
  /\ pc[w] \in {"base", "vendor", "stamp_p", "compile"} =>
       tree[w][cur[w]] # "partial"
  /\ \A p \in Pkg :
       /\ rootfs[w][p] # "halftree"
       /\ tree[w][p] = "partial" =>
            /\ Stem[p] \notin extracted[w]
            /\ p \notin installed[w]
            /\ 1 .. p - 1 \subseteq installed[w]

\* The tree of p carries the first b patches of the base and v of the vendor series.
Carries(w, p, b, v) ==
  applied[w][p]["base"] = b /\ applied[w][p]["vendor"] = v

\* Inductive with OrderAt where every patch applies and nothing is killed: a
\* marked tree carries both series and is not unpacked again, an unmarked one
\* carries what the loops have got to, and only marked trees are compiled.
PatchAt(w) ==
  /\ \A p \in Pkg :
       /\ rootfs[w][p] # "unpatched"
       /\ p \in marked[w] => /\ Stem[p] \in extracted[w]
                             /\ Carries(w, p, NPatches, NPatches)
       /\ tree[w][p] = "none" => p \notin marked[w] /\ Carries(w, p, 0, 0)
       /\ p \in marked[w] \/ Carries(w, p, 0, 0) \/ pc[w] = "clean_build"
          \/ (p = cur[w] /\ pc[w] \in {"base", "vendor", "stamp_p"})
       /\ pc[w] \in {"clean_state", "clean_rootfs"} => tree[w][p] = "none"
  /\ pc[w] \in {"untar", "stamp_x", "vendor", "stamp_p"} => cur[w] \notin marked[w]
  /\ pc[w] \in {"base", "vendor", "stamp_p"} => Stem[cur[w]] \in extracted[w]
  /\ pc[w] = "base" => IF cur[w] \in marked[w] THEN pos[w] = 0
                       ELSE Carries(w, cur[w], pos[w], 0)
  /\ pc[w] = "vendor" /\ tree[w][cur[w]] # "none" =>
       Carries(w, cur[w], NPatches, pos[w])
  /\ pc[w] = "stamp_p" /\ tree[w][cur[w]] # "none" =>
       Carries(w, cur[w], NPatches, NPatches)
  /\ pc[w] = "compile" /\ tree[w][cur[w]] # "none" => cur[w] \in marked[w]
  /\ pc[w] \in {"finish", "stamp_i"} => cur[w] \in marked[w]

OrderInv  == \A w \in Workdirs : OrderAt(w)
EngineInv == \A w \in Workdirs : OrderAt(w) /\ ImageAt(w)
TreeInv   == \A w \in Workdirs : OrderAt(w) /\ TreeAt(w)
PatchInv  == \A w \in Workdirs : OrderAt(w) /\ PatchAt(w)

\* The engine does what its contract promises, seen through the stamps and the
\* root file system alone.
Contract == INSTANCE BuildContract WITH
              done  <- installed,
              whole <- [w \in Workdirs |-> Whole(w)]

ContractSpec == Contract!Spec
=============================================================================
