-------------------------- MODULE BuildEngineProofs --------------------------
(***************************************************************************)
(* Theorems of BuildEngine, for any number of working directories, rules   *)
(* and patches, any assignment of stems, and any number of events: types;  *)
(* what the stamps guarantee (installed packages are whole unless a pipe   *)
(* fails, and none was compiled from half a tree unless one was cleaned or *)
(* copied); and that the engine implements BuildContract.                  *)
(***************************************************************************)
EXTENDS BuildEngine, TLAPS

\* A script that works on a package works on one of its rules.
CurOK == \A w \in Workdirs : pc[w] \in InRule => cur[w] \in Pkg

TypeInv == TypeOK /\ CurOK

LEMMA ExceptType ==
  ASSUME NEW A, NEW B, NEW f \in [A -> B], NEW a \in A, NEW b \in B
  PROVE  [f EXCEPT ![a] = b] \in [A -> B]
OBVIOUS

LEMMA ExceptType2 ==
  ASSUME NEW A, NEW B, NEW C, NEW f \in [A -> [B -> C]],
         NEW a \in A, NEW b \in B, NEW c \in C
  PROVE  [f EXCEPT ![a][b] = c] \in [A -> [B -> C]]
OBVIOUS

LEMMA EventsBounded ==
  ASSUME events \in 0 .. MaxEvents, NEW e, NoEvent \/ Event(e)
  PROVE  events' \in 0 .. MaxEvents
BY EngineAssumption DEF NoEvent, Event

LEMMA GotoKeepsControl ==
  ASSUME NEW w \in Workdirs, NEW from, NEW to \in Phases,
         pc \in [Workdirs -> Phases], CurOK,
         Goto(w, from, to), cur' = cur, to \in InRule => cur[w] \in Pkg
  PROVE  pc' \in [Workdirs -> Phases] /\ CurOK'
BY DEF Goto, CurOK

LEMMA PhaseSets ==
  /\ {"fetch", "wget", "mirror", "extract", "untar", "stamp_x", "base",
      "vendor", "stamp_p", "compile", "finish", "stamp_i"} = InRule
  /\ InRule \subseteq Phases
  /\ {"idle", "rule", "clean_build", "clean_state", "clean_rootfs"}
       = Phases \ InRule
BY DEF InRule, Phases

(***************************************************************************)
(* The actions by what they write: control alone, the shared source file,  *)
(* the trees, the image.                                                   *)
(***************************************************************************)
LEMMA ControlKeepsType ==
  ASSUME NEW w \in Workdirs, TypeInv,
         \/ Run(w) \/ Kill(w) \/ SkipRule(w) \/ AllRulesDone(w)
         \/ Download(w) \/ WgetFails(w) \/ SourceMissing(w) \/ BadArchive(w)
         \/ UntarFails(w) \/ SkipPatches(w) \/ Compile(w) \/ CompileFails(w)
         \/ FinishFails(w) \/ FirstTarFails(w) \/ StartClean(w)
  PROVE  TypeInv'
<1> USE EngineAssumption DEF TypeInv, TypeOK
<1>1. UNCHANGED <<src, writer, extracted, tree, applied, pos, marked, rootfs,
                  installed>>
  BY DEF Run, Kill, SkipRule, AllRulesDone, Download, WgetFails,
     SourceMissing, BadArchive, UntarFails, SkipPatches, Compile,
     CompileFails, FinishFails, FirstTarFails, StartClean, shared, build,
     image
<1>2. events' \in 0 .. MaxEvents
  <2>1. \E e : NoEvent \/ Event(e)
    BY DEF Run, Kill, SkipRule, AllRulesDone, Download, WgetFails,
       SourceMissing, BadArchive, UntarFails, SkipPatches, Compile,
       CompileFails, FinishFails, FirstTarFails, StartClean
  <2> QED
    BY <2>1, EventsBounded
<1>3. cur' \in [Workdirs -> 1 .. NRules + 1]
  <2>1. CASE SkipRule(w)
    <3>1. cur[w] + 1 \in 1 .. NRules + 1
      BY <2>1 DEF SkipRule, Pkg
    <3> QED
      BY <2>1, <3>1 DEF SkipRule
  <2>2. CASE ~ SkipRule(w)
    BY <2>2 DEF Run, Kill, AllRulesDone, Download, WgetFails, SourceMissing,
       BadArchive, UntarFails, SkipPatches, Compile, CompileFails,
       FinishFails, FirstTarFails, StartClean, Abort
  <2> QED
    BY <2>1, <2>2
<1>4. pc' \in [Workdirs -> Phases] /\ CurOK'
  <2>1. CASE Run(w)
    BY <2>1, PhaseSets DEF Run, Goto, CurOK
  <2>2. CASE Kill(w)
    BY <2>2, PhaseSets DEF Kill, CurOK
  <2>3. CASE SkipRule(w)
    BY <2>3, PhaseSets DEF SkipRule, CurOK
  <2>4. CASE \/ AllRulesDone(w) \/ SourceMissing(w) \/ BadArchive(w)
             \/ UntarFails(w) \/ CompileFails(w) \/ FinishFails(w)
    <3>1. \E from : Goto(w, from, "idle") /\ cur' = cur
      BY <2>4 DEF AllRulesDone, SourceMissing, BadArchive, UntarFails,
         CompileFails, FinishFails, Abort
    <3> QED
      BY <3>1, GotoKeepsControl, PhaseSets
  <2>5. CASE StartClean(w)
    BY <2>5, GotoKeepsControl, PhaseSets DEF StartClean
  <2>6. CASE Download(w)
    BY <2>6, GotoKeepsControl, PhaseSets DEF Download
  <2>7. CASE WgetFails(w)
    BY <2>7, GotoKeepsControl, PhaseSets DEF WgetFails, Goto, CurOK
  <2>8. CASE SkipPatches(w)
    BY <2>8, GotoKeepsControl, PhaseSets DEF SkipPatches, Goto, CurOK
  <2>9. CASE Compile(w)
    BY <2>9, GotoKeepsControl, PhaseSets DEF Compile, Goto, CurOK
  <2>10. CASE FirstTarFails(w)
    BY <2>10, GotoKeepsControl, PhaseSets DEF FirstTarFails, Goto, CurOK
  <2> QED
    BY <2>1, <2>2, <2>3, <2>4, <2>5, <2>6, <2>7, <2>8, <2>9, <2>10
<1> QED
  BY <1>1, <1>2, <1>3, <1>4

LEMMA SourceKeepsType ==
  ASSUME NEW w \in Workdirs, TypeInv,
         StartWget(w) \/ WgetOk(w) \/ MirrorOk(w) \/ MirrorFails(w)
  PROVE  TypeInv'
<1> USE EngineAssumption DEF TypeInv, TypeOK
<1>1. UNCHANGED <<extracted, tree, applied, pos, marked, rootfs, installed,
                  cur>>
  BY DEF StartWget, WgetOk, MirrorOk, MirrorFails, Abort, build, image
<1>2. events' \in 0 .. MaxEvents
  <2>1. \E e : NoEvent \/ Event(e)
    BY DEF StartWget, WgetOk, MirrorOk, MirrorFails
  <2> QED
    BY <2>1, EventsBounded
<1>3. src' \in [Pkg -> {"absent", "partial", "complete"}]
  <2>1. CASE StartWget(w) \/ MirrorFails(w)
    BY <2>1 DEF StartWget, MirrorFails
  <2>2. CASE WgetOk(w) \/ MirrorOk(w)
    BY <2>2 DEF WgetOk, MirrorOk, Written
  <2> QED
    BY <2>1, <2>2
<1>4. writer' \in [Pkg -> Workdirs \cup {None}]
  BY DEF StartWget, WgetOk, MirrorOk, MirrorFails
<1>5. pc' \in [Workdirs -> Phases] /\ CurOK'
  <2>1. CASE StartWget(w)
    BY <2>1, GotoKeepsControl, PhaseSets DEF StartWget, Goto, CurOK
  <2>2. CASE WgetOk(w)
    BY <2>2, GotoKeepsControl, PhaseSets DEF WgetOk, Goto, CurOK
  <2>3. CASE MirrorOk(w)
    BY <2>3, GotoKeepsControl, PhaseSets DEF MirrorOk, Goto, CurOK
  <2>4. CASE MirrorFails(w)
    BY <2>4, GotoKeepsControl, PhaseSets DEF MirrorFails, Abort
  <2> QED
    BY <2>1, <2>2, <2>3, <2>4
<1> QED
  BY <1>1, <1>2, <1>3, <1>4, <1>5

LEMMA TreeKeepsType ==
  ASSUME NEW w \in Workdirs, TypeInv,
         \/ SkipExtract(w) \/ StartUntar(w) \/ UntarOk(w)
         \/ StampExtracted(w) \/ MarkPatched(w)
  PROVE  TypeInv'
<1>0. /\ pc \in [Workdirs -> Phases] /\ CurOK
      /\ tree \in [Workdirs -> [Pkg -> {"none", "partial", "full"}]]
      /\ applied \in [Workdirs -> [Pkg -> [Series -> 0 .. NPatches]]]
      /\ pos \in [Workdirs -> 0 .. NPatches]
      /\ marked \in [Workdirs -> SUBSET Pkg]
      /\ extracted \in [Workdirs -> SUBSET Stems]
      /\ installed \in [Workdirs -> SUBSET Pkg]
      /\ rootfs \in [Workdirs -> [Pkg -> Contents]]
      /\ NPatches \in Nat
  BY EngineAssumption DEF TypeInv, TypeOK
<1>1. UNCHANGED <<src, writer, rootfs, installed, cur, events>>
  BY <1>0 DEF SkipExtract, StartUntar, UntarOk, StampExtracted, MarkPatched,
     NoEvent, shared, image
<1>2. cur[w] \in Pkg
  BY <1>0 DEF SkipExtract, StartUntar, UntarOk, StampExtracted, MarkPatched, Goto,
     CurOK, InRule, Phases
<1>3. pc' \in [Workdirs -> Phases] /\ CurOK'
  <2>1. \E from, to \in InRule : Goto(w, from, to) /\ cur' = cur
    BY <1>0, PhaseSets DEF SkipExtract, StartUntar, UntarOk, StampExtracted,
       MarkPatched
  <2> QED
    BY <1>0, <1>2, <2>1, GotoKeepsControl, PhaseSets
<1>4. tree' \in [Workdirs -> [Pkg -> {"none", "partial", "full"}]]
  <2>1. CASE StartUntar(w)
    BY <1>0, <1>2, <2>1 DEF StartUntar
  <2>2. CASE UntarOk(w)
    <3>1. tree' = tree \/ tree' = [tree EXCEPT ![w][cur[w]] = "full"]
      BY <1>0, <2>2 DEF UntarOk
    <3>2. tree \in [Workdirs -> [Pkg -> {"none", "partial", "full"}]]
      BY <1>0
    <3> QED
      BY <1>2, <3>1, <3>2
  <2>3. CASE SkipExtract(w) \/ StampExtracted(w) \/ MarkPatched(w)
    BY <1>0, <2>3 DEF SkipExtract, StampExtracted, MarkPatched
  <2> QED
    BY <1>0, <2>1, <2>2, <2>3
<1>5. pos' \in [Workdirs -> 0 .. NPatches]
  <2>1. 0 \in 0 .. NPatches
    BY <1>0
  <2> QED
    BY <1>0, <2>1 DEF SkipExtract, StartUntar, UntarOk, StampExtracted, MarkPatched
<1>6. applied' \in [Workdirs -> [Pkg -> [Series -> 0 .. NPatches]]]
  <2>1. CASE StartUntar(w)
    BY <1>0, <1>2, <2>1 DEF StartUntar
  <2>2. CASE ~ StartUntar(w)
    BY <1>0, <2>2 DEF SkipExtract, UntarOk, StampExtracted, MarkPatched
  <2> QED
    BY <1>0, <2>1, <2>2
<1>7. extracted' \in [Workdirs -> SUBSET Stems]
  <2>1. Stem[cur[w]] \in Stems
    BY <1>0, <1>2 DEF Stems
  <2>2. CASE StampExtracted(w)
    BY <1>0, <2>1, <2>2 DEF StampExtracted
  <2>3. CASE ~ StampExtracted(w)
    BY <1>0, <2>3 DEF SkipExtract, StartUntar, UntarOk, MarkPatched
  <2> QED
    BY <1>0, <2>2, <2>3
<1>8. marked' \in [Workdirs -> SUBSET Pkg]
  <2>1. CASE MarkPatched(w)
    BY <1>0, <1>2, <2>1 DEF MarkPatched
  <2>2. CASE ~ MarkPatched(w)
    BY <1>0, <2>2 DEF SkipExtract, StartUntar, UntarOk, StampExtracted
  <2> QED
    BY <1>0, <2>1, <2>2
<1> QED
  BY <1>1, <1>3, <1>4, <1>5, <1>6, <1>7, <1>8 DEF TypeInv, TypeOK

LEMMA PatchesKeepType ==
  ASSUME NEW w \in Workdirs, NEW s \in Series, TypeInv,
         \/ PatchApplies(w, s) \/ SeriesEnds(w, s) \/ PatchRejected(w, s)
         \/ PatchFails(w, s)
  PROVE  TypeInv'
<1> USE EngineAssumption DEF TypeInv, TypeOK
<1>1. UNCHANGED <<src, writer, extracted, tree, marked, rootfs, installed,
                  cur>>
  BY DEF PatchApplies, SeriesEnds, PatchRejected, PatchFails, LeaveSeries,
     shared, image
<1>2. events' \in 0 .. MaxEvents
  <2>1. \E e : NoEvent \/ Event(e)
    BY DEF PatchApplies, SeriesEnds, PatchRejected, PatchFails
  <2> QED
    BY <2>1, EventsBounded
<1>3. s \in InRule /\ AfterSeries(s) \in InRule
  BY PhaseSets DEF Series, AfterSeries
<1>4. pc[w] = s /\ cur[w] \in Pkg
  BY <1>3 DEF PatchApplies, SeriesEnds, PatchRejected, PatchFails, Patching,
     CurOK
<1>5. CASE PatchApplies(w, s)
  <2>1. /\ pos[w] + 1 \in 0 .. NPatches
        /\ applied[w][cur[w]][s] + 1 \in 0 .. NPatches
    BY <1>4, <1>5 DEF PatchApplies
  <2>2. pos' \in [Workdirs -> 0 .. NPatches]
    BY <1>5, <2>1 DEF PatchApplies
  <2>3. applied' \in [Workdirs -> [Pkg -> [Series -> 0 .. NPatches]]]
    BY <1>4, <1>5, <2>1 DEF PatchApplies
  <2>4. pc' = pc
    BY <1>5 DEF PatchApplies
  <2> QED
    BY <1>1, <1>2, <2>2, <2>3, <2>4 DEF CurOK
<1>6. CASE ~ PatchApplies(w, s)
  <2>1. LeaveSeries(w, s)
    BY <1>6 DEF SeriesEnds, PatchRejected, PatchFails
  <2>2. pos' \in [Workdirs -> 0 .. NPatches] /\ applied' = applied
    BY <2>1 DEF LeaveSeries
  <2>3. pc' \in [Workdirs -> Phases] /\ CurOK'
    BY <1>3, <1>4, <2>1, GotoKeepsControl, PhaseSets DEF LeaveSeries
  <2> QED
    BY <1>1, <1>2, <2>2, <2>3
<1> QED
  BY <1>5, <1>6

LEMMA ImageKeepsType ==
  ASSUME NEW w \in Workdirs, TypeInv,
         StartFinish(w) \/ FinishOk(w) \/ StampInstalled(w)
  PROVE  TypeInv'
<1> USE EngineAssumption DEF TypeInv, TypeOK
<1>1. UNCHANGED <<src, writer, extracted, tree, applied, pos, marked, events>>
  BY DEF StartFinish, FinishOk, StampInstalled, NoEvent, shared, build
<1>2. cur[w] \in Pkg
  BY PhaseSets DEF StartFinish, FinishOk, StampInstalled, Goto, CurOK
<1>3. CASE StartFinish(w)
  <2>1. rootfs' \in [Workdirs -> [Pkg -> Contents]]
    BY <1>2, <1>3 DEF StartFinish, Contents
  <2> QED
    BY <1>1, <1>3, <2>1 DEF StartFinish, CurOK
<1>4. CASE FinishOk(w)
  <2>1. Product(w, cur[w]) \in Contents
    BY DEF Product, Contents
  <2>2. rootfs' \in [Workdirs -> [Pkg -> Contents]]
    BY <1>2, <1>4, <2>1 DEF FinishOk
  <2>3. pc' \in [Workdirs -> Phases] /\ CurOK'
    BY <1>2, <1>4, GotoKeepsControl, PhaseSets DEF FinishOk
  <2> QED
    BY <1>1, <1>4, <2>2, <2>3 DEF FinishOk
<1>5. CASE StampInstalled(w)
  <2>1. cur[w] + 1 \in 1 .. NRules + 1
    BY <1>2 DEF Pkg
  <2>2. cur' \in [Workdirs -> 1 .. NRules + 1]
    BY <1>5, <2>1 DEF StampInstalled
  <2>3. installed' \in [Workdirs -> SUBSET Pkg]
    BY <1>2, <1>5 DEF StampInstalled
  <2>4. pc' \in [Workdirs -> Phases] /\ CurOK'
    BY <1>5, PhaseSets DEF StampInstalled, Goto, CurOK
  <2> QED
    BY <1>1, <1>5, <2>2, <2>3, <2>4 DEF StampInstalled
<1> QED
  BY <1>3, <1>4, <1>5

LEMMA CleanKeepsType ==
  ASSUME NEW w \in Workdirs, TypeInv,
         RemoveBuild(w) \/ RemoveState(w) \/ RemoveRootfs(w)
  PROVE  TypeInv'
<1>0. /\ pc \in [Workdirs -> Phases] /\ CurOK
      /\ tree \in [Workdirs -> [Pkg -> {"none", "partial", "full"}]]
      /\ applied \in [Workdirs -> [Pkg -> [Series -> 0 .. NPatches]]]
      /\ pos \in [Workdirs -> 0 .. NPatches]
      /\ marked \in [Workdirs -> SUBSET Pkg]
      /\ extracted \in [Workdirs -> SUBSET Stems]
      /\ installed \in [Workdirs -> SUBSET Pkg]
      /\ rootfs \in [Workdirs -> [Pkg -> Contents]]
      /\ NPatches \in Nat
  BY EngineAssumption DEF TypeInv, TypeOK
<1>1. UNCHANGED <<src, writer, pos, cur, events>>
  BY <1>0 DEF RemoveBuild, RemoveState, RemoveRootfs, NoEvent, shared, build
<1>2. /\ pc[w] \in Phases \ InRule
      /\ \/ pc' = pc
         \/ \E to \in Phases \ InRule : pc' = [pc EXCEPT ![w] = to]
  BY <1>0, PhaseSets DEF RemoveBuild, RemoveState, RemoveRootfs
<1>3. pc' \in [Workdirs -> Phases] /\ CurOK'
  <2>1. CASE pc' = pc
    BY <1>0, <1>1, <2>1 DEF CurOK
  <2>2. ASSUME NEW to \in Phases \ InRule, pc' = [pc EXCEPT ![w] = to]
        PROVE  pc' \in [Workdirs -> Phases] /\ CurOK'
    BY <1>0, <1>1, <2>2 DEF CurOK
  <2> QED
    BY <1>0, <1>2, <2>1, <2>2
<1>4. tree' \in [Workdirs -> [Pkg -> {"none", "partial", "full"}]]
  <2>1. CASE RemoveBuild(w)
    <3>1. \/ tree' = tree
          \/ \E p \in Pkg, t \in {"none", "partial"} :
               tree' = [tree EXCEPT ![w][p] = t]
      BY <1>0, <2>1 DEF RemoveBuild
    <3>2. tree \in [Workdirs -> [Pkg -> {"none", "partial", "full"}]]
      BY <1>0
    <3> QED
      BY <3>1, <3>2
  <2>2. CASE ~ RemoveBuild(w)
    BY <1>0, <2>2 DEF RemoveState, RemoveRootfs, build
  <2> QED
    BY <1>0, <2>1, <2>2
<1>5. applied' \in [Workdirs -> [Pkg -> [Series -> 0 .. NPatches]]]
  <2>1. CASE RemoveBuild(w)
    <3>1. \/ applied' = applied
          \/ \E p \in Pkg :
               applied' = [applied EXCEPT ![w][p] = [s \in Series |-> 0]]
      BY <1>0, <2>1 DEF RemoveBuild
    <3>2. [s \in Series |-> 0] \in [Series -> 0 .. NPatches]
      BY <1>0
    <3>3. applied \in [Workdirs -> [Pkg -> [Series -> 0 .. NPatches]]]
      BY <1>0
    <3> DEFINE Z == [s \in Series |-> 0]
               N == [Series -> 0 .. NPatches]
    <3>4. \/ applied' = applied
          \/ \E p \in Pkg : applied' = [applied EXCEPT ![w][p] = Z]
      BY <3>1
    <3>5. Z \in N /\ applied \in [Workdirs -> [Pkg -> N]]
      BY <3>2, <3>3
    <3> HIDE DEF Z, N
    <3>6. applied' \in [Workdirs -> [Pkg -> N]]
      BY <3>4, <3>5
    <3> QED
      BY <3>6 DEF N
  <2>2. CASE ~ RemoveBuild(w)
    BY <1>0, <2>2 DEF RemoveState, RemoveRootfs, build
  <2> QED
    BY <1>0, <2>1, <2>2
<1>6. marked' \in [Workdirs -> SUBSET Pkg]
  <2>1. CASE RemoveBuild(w)
    <3>1. \/ marked' = marked
          \/ \E lost : marked' = [marked EXCEPT ![w] = @ \ lost]
      BY <1>0, <2>1 DEF RemoveBuild
    <3>2. marked \in [Workdirs -> SUBSET Pkg]
      BY <1>0
    <3> QED
      BY <3>1, <3>2
  <2>2. CASE ~ RemoveBuild(w)
    BY <1>0, <2>2 DEF RemoveState, RemoveRootfs, build
  <2> QED
    BY <1>0, <2>1, <2>2
<1>7. /\ extracted' \in [Workdirs -> SUBSET Stems]
      /\ installed' \in [Workdirs -> SUBSET Pkg]
  <2>1. CASE RemoveState(w)
    <3>1. /\ \/ installed' = installed
             \/ \E p : installed' = [installed EXCEPT ![w] = @ \ {p}]
          /\ \/ extracted' = extracted
             \/ \E x : extracted' = [extracted EXCEPT ![w] = @ \ {x}]
      BY <1>0, <2>1 DEF RemoveState
    <3>2. installed \in [Workdirs -> SUBSET Pkg]
      BY <1>0
    <3>3. extracted \in [Workdirs -> SUBSET Stems]
      BY <1>0
    <3>4. installed' \in [Workdirs -> SUBSET Pkg]
      BY <3>1, <3>2
    <3>5. extracted' \in [Workdirs -> SUBSET Stems]
      BY <3>1, <3>3
    <3> QED
      BY <3>4, <3>5
  <2>2. CASE ~ RemoveState(w)
    BY <1>0, <2>2 DEF RemoveBuild, RemoveRootfs, build, image
  <2> QED
    BY <1>0, <2>1, <2>2
<1>8. rootfs' \in [Workdirs -> [Pkg -> Contents]]
  <2>1. CASE RemoveRootfs(w)
    <3>1. \/ rootfs' = rootfs
          \/ \E p \in Pkg, c \in Contents : rootfs' = [rootfs EXCEPT ![w][p] = c]
      BY <1>0, <2>1 DEF RemoveRootfs, Contents
    <3>2. rootfs \in [Workdirs -> [Pkg -> Contents]]
      BY <1>0
    <3> QED
      BY <3>1, <3>2
  <2>2. CASE ~ RemoveRootfs(w)
    BY <1>0, <2>2 DEF RemoveBuild, RemoveState, image
  <2> QED
    BY <1>0, <2>1, <2>2
<1> QED
  BY <1>1, <1>3, <1>4, <1>5, <1>6, <1>7, <1>8 DEF TypeInv, TypeOK

----------------------------------------------------------------------------
LEMMA InitType == Init => TypeInv
BY EngineAssumption, PhaseSets
   DEF Init, TypeInv, TypeOK, CurOK, Contents, Pkg

LEMMA StepType == TypeInv /\ [Next]_vars => TypeInv'
<1> SUFFICES ASSUME TypeInv, [Next]_vars
             PROVE  TypeInv'
  OBVIOUS
<1>1. CASE UNCHANGED vars
  BY <1>1 DEF vars, TypeInv, TypeOK, CurOK
<1>2. ASSUME NEW w \in Workdirs,
             Run(w) \/ StartClean(w) \/ Script(w) \/ Failure(w)
      PROVE  TypeInv'
  BY <1>2, ControlKeepsType, SourceKeepsType, TreeKeepsType, PatchesKeepType,
     ImageKeepsType, CleanKeepsType
     DEF Script, Failure
<1> QED
  BY <1>1, <1>2 DEF Next

\* Every variable keeps its type.
THEOREM TypeCorrect == Spec => []TypeOK
<1>1. TypeInv => TypeOK
  BY DEF TypeInv
<1> QED
  BY <1>1, InitType, StepType, PTL DEF Spec

----------------------------------------------------------------------------
(* A step of one script is invisible to the others.                        *)

Step(w) == Run(w) \/ StartClean(w) \/ Script(w) \/ Failure(w)

LEMMA OthersSeeNothing ==
  ASSUME TypeInv, NEW w \in Workdirs, NEW v \in Workdirs \ {w}, Step(w)
  PROVE  /\ pc'[v] = pc[v]
         /\ cur'[v] = cur[v]
         /\ installed'[v] = installed[v]
         /\ rootfs'[v] = rootfs[v]
         /\ tree'[v] = tree[v]
         /\ extracted'[v] = extracted[v]
         /\ applied'[v] = applied[v]
         /\ pos'[v] = pos[v]
         /\ marked'[v] = marked[v]
<1>0. /\ pc \in [Workdirs -> Phases]
      /\ cur \in [Workdirs -> 1 .. NRules + 1]
      /\ installed \in [Workdirs -> SUBSET Pkg]
      /\ rootfs \in [Workdirs -> [Pkg -> Contents]]
      /\ tree \in [Workdirs -> [Pkg -> {"none", "partial", "full"}]]
      /\ extracted \in [Workdirs -> SUBSET Stems]
      /\ applied \in [Workdirs -> [Pkg -> [Series -> 0 .. NPatches]]]
      /\ pos \in [Workdirs -> 0 .. NPatches]
      /\ marked \in [Workdirs -> SUBSET Pkg]
  BY DEF TypeInv, TypeOK
<1>1. CASE \/ Run(w) \/ Kill(w) \/ SkipRule(w) \/ AllRulesDone(w)
           \/ Download(w) \/ WgetFails(w) \/ SourceMissing(w)
           \/ BadArchive(w) \/ UntarFails(w) \/ SkipPatches(w) \/ Compile(w)
           \/ CompileFails(w) \/ FinishFails(w) \/ FirstTarFails(w)
           \/ StartClean(w)
  BY <1>0, <1>1 DEF Run, Kill, SkipRule, AllRulesDone, Download, WgetFails,
     SourceMissing, BadArchive, UntarFails, SkipPatches, Compile,
     CompileFails, FinishFails, FirstTarFails, StartClean, Abort, Goto,
     shared, build, image
<1>2. CASE StartWget(w) \/ WgetOk(w) \/ MirrorOk(w) \/ MirrorFails(w)
  BY <1>0, <1>2 DEF StartWget, WgetOk, MirrorOk, MirrorFails, Abort, Goto,
     build, image
<1>3. CASE \/ SkipExtract(w) \/ StartUntar(w) \/ UntarOk(w)
           \/ StampExtracted(w) \/ MarkPatched(w)
  BY <1>0, <1>3 DEF SkipExtract, StartUntar, UntarOk, StampExtracted,
     MarkPatched, Goto, image
<1>4. ASSUME NEW s \in Series,
             \/ PatchApplies(w, s) \/ SeriesEnds(w, s)
             \/ PatchRejected(w, s) \/ PatchFails(w, s)
      PROVE  /\ pc'[v] = pc[v]
             /\ cur' = cur
             /\ UNCHANGED <<installed, rootfs, tree, extracted, marked>>
             /\ applied'[v] = applied[v]
             /\ pos'[v] = pos[v]
  BY <1>0, <1>4 DEF PatchApplies, SeriesEnds, PatchRejected, PatchFails,
     LeaveSeries, Goto, image
<1>5. CASE StartFinish(w) \/ FinishOk(w) \/ StampInstalled(w)
  BY <1>0, <1>5 DEF StartFinish, FinishOk, StampInstalled, Goto, build
<1>6. CASE RemoveBuild(w) \/ RemoveState(w) \/ RemoveRootfs(w)
  BY <1>0, <1>6 DEF RemoveBuild, RemoveState, RemoveRootfs, build, image
<1> QED
  BY <1>1, <1>2, <1>3, <1>4, <1>5, <1>6 DEF Step, Script, Failure

----------------------------------------------------------------------------
(* What a step of a script does to its own working directory, as far as    *)
(* the stamps and the image go.                                            *)

\* From one command of a rule to another, short of the last one.
Moves(w) ==
  /\ pc[w] \in InRule
  /\ pc'[w] \in InRule \ {"stamp_i"}
  /\ UNCHANGED <<cur[w], installed[w], rootfs[w]>>

\* Out of the rules, or before the first of them.
Stops(w) ==
  /\ \/ pc'[w] = "idle" /\ pc[w] # "clean_rootfs"
     \/ pc[w] \in {"idle", "clean_build"}
        /\ pc'[w] \in {"clean_build", "clean_state"}
  /\ UNCHANGED <<cur[w], installed[w], rootfs[w]>>

LEMMA MovesAndStops ==
  ASSUME TypeInv, NEW w \in Workdirs, Step(w)
  PROVE  \/ Moves(w) \/ Stops(w) \/ Run(w) \/ SkipRule(w) \/ Download(w)
         \/ StartFinish(w) \/ FinishOk(w) \/ FirstTarFails(w)
         \/ StampInstalled(w) \/ RemoveState(w) \/ RemoveRootfs(w) \/ Kill(w)
         \/ pc'[w] = pc[w] /\ UNCHANGED <<cur[w], installed[w], rootfs[w]>>
<1>0. pc \in [Workdirs -> Phases]
  BY DEF TypeInv, TypeOK
<1>1. CASE \/ AllRulesDone(w) \/ SourceMissing(w) \/ BadArchive(w)
           \/ UntarFails(w) \/ CompileFails(w) \/ FinishFails(w)
           \/ MirrorFails(w) \/ StartClean(w)
  <2>1. Stops(w)
    BY <1>0, <1>1, PhaseSets DEF AllRulesDone, SourceMissing, BadArchive,
       UntarFails, CompileFails, FinishFails, MirrorFails, StartClean, Abort,
       Goto, image, Stops
  <2> QED
    BY <2>1
<1>2. CASE \/ WgetFails(w) \/ StartWget(w) \/ WgetOk(w) \/ MirrorOk(w)
           \/ SkipExtract(w) \/ StartUntar(w) \/ UntarOk(w)
           \/ StampExtracted(w) \/ SkipPatches(w) \/ MarkPatched(w)
           \/ Compile(w)
  <2>1. Moves(w)
    BY <1>0, <1>2, PhaseSets DEF WgetFails, StartWget, WgetOk, MirrorOk,
       SkipExtract, StartUntar, UntarOk, StampExtracted, SkipPatches,
       MarkPatched, Compile, Goto, image, Moves
  <2> QED
    BY <2>1
<1>3. ASSUME NEW s \in Series,
             \/ SeriesEnds(w, s) \/ PatchRejected(w, s) \/ PatchFails(w, s)
      PROVE  Moves(w)
  <2>1. /\ {s, AfterSeries(s)} \subseteq InRule
        /\ AfterSeries(s) # "stamp_i"
    BY PhaseSets DEF Series, AfterSeries
  <2>2. LeaveSeries(w, s)
    BY <1>3 DEF SeriesEnds, PatchRejected, PatchFails
  <2> QED
    BY <1>0, <2>1, <2>2 DEF LeaveSeries, Goto, image, Moves
<1>4. ASSUME NEW s \in Series, PatchApplies(w, s)
      PROVE  pc'[w] = pc[w] /\ UNCHANGED <<cur[w], installed[w], rootfs[w]>>
  BY <1>4 DEF PatchApplies, image
<1>5. CASE RemoveBuild(w)
  <2>1. \/ Stops(w)
        \/ pc'[w] = pc[w] /\ UNCHANGED <<cur[w], installed[w], rootfs[w]>>
    BY <1>0, <1>5 DEF RemoveBuild, image, Stops
  <2> QED
    BY <2>1
<1> QED
  BY <1>1, <1>2, <1>3, <1>4, <1>5 DEF Step, Script, Failure

----------------------------------------------------------------------------
(* The order of the stamps.                                                *)

LEMMA OrderStep ==
  ASSUME TypeInv, NEW w \in Workdirs, OrderAt(w), Step(w)
  PROVE  OrderAt(w)'
<1>0. /\ pc \in [Workdirs -> Phases]
      /\ cur \in [Workdirs -> 1 .. NRules + 1]
      /\ installed \in [Workdirs -> SUBSET Pkg]
      /\ NRules \in Nat
  BY EngineAssumption DEF TypeInv, TypeOK
<1>1. /\ \A x \in InRule : x \notin Phases \ InRule
      /\ {"idle", "rule", "clean_build", "clean_state", "clean_rootfs"}
           = Phases \ InRule
      /\ {"fetch", "extract", "finish", "stamp_i"} \subseteq InRule
  BY PhaseSets
<1>2. CASE Moves(w)
  BY <1>0, <1>1, <1>2 DEF Moves, OrderAt
<1>3. CASE Stops(w) \/ Kill(w)
  BY <1>0, <1>1, <1>3 DEF Stops, Kill, OrderAt
<1>4. CASE Run(w)
  BY <1>0, <1>1, <1>4 DEF Run, Goto, OrderAt
<1>5. CASE SkipRule(w)
  BY <1>0, <1>1, <1>5 DEF SkipRule, OrderAt, image
<1>6. CASE Download(w)
  BY <1>0, <1>1, <1>6 DEF Download, Goto, OrderAt, image
<1>7. CASE StartFinish(w) \/ FinishOk(w) \/ FirstTarFails(w)
  BY <1>0, <1>1, <1>7 DEF StartFinish, FinishOk, FirstTarFails, Goto, OrderAt,
     image
<1>8. CASE StampInstalled(w)
  BY <1>0, <1>1, <1>8 DEF StampInstalled, Goto, OrderAt
<1>9. CASE RemoveState(w) \/ RemoveRootfs(w)
  <2>1. pc'[w] \in {"clean_state", "clean_rootfs", "idle"}
    BY <1>0, <1>9 DEF RemoveState, RemoveRootfs
  <2> QED
    BY <1>1, <2>1 DEF OrderAt
<1>10. CASE pc'[w] = pc[w] /\ UNCHANGED <<cur[w], installed[w], rootfs[w]>>
  BY <1>10 DEF OrderAt
<1> QED
  BY <1>2, <1>3, <1>4, <1>5, <1>6, <1>7, <1>8, <1>9, <1>10, MovesAndStops

----------------------------------------------------------------------------
(* The files of the stamped packages.                                      *)

LEMMA ImageStep ==
  ASSUME TypeInv, "pipe" \notin Env, NEW w \in Workdirs, OrderAt(w),
         ImageAt(w), Step(w)
  PROVE  ImageAt(w)'
<1>0. /\ pc \in [Workdirs -> Phases]
      /\ cur \in [Workdirs -> 1 .. NRules + 1]
      /\ installed \in [Workdirs -> SUBSET Pkg]
      /\ rootfs \in [Workdirs -> [Pkg -> Contents]]
  BY DEF TypeInv, TypeOK
<1>1. /\ "clean_rootfs" \notin InRule
      /\ {"finish", "stamp_i"} \subseteq InRule
  BY PhaseSets
<1>2. CASE Moves(w)
  BY <1>0, <1>1, <1>2 DEF Moves, ImageAt, Whole
<1>3. CASE Stops(w) \/ Kill(w)
  BY <1>0, <1>1, <1>3 DEF Stops, Kill, ImageAt, Whole, image
<1>4. CASE Run(w) \/ SkipRule(w) \/ Download(w)
  BY <1>0, <1>1, <1>4 DEF Run, SkipRule, Download, Goto, ImageAt, Whole, image
<1>5. CASE StartFinish(w)
  BY <1>0, <1>1, <1>5 DEF StartFinish, ImageAt, OrderAt, Whole
<1>6. CASE FinishOk(w)
  <2>1. Product(w, cur[w]) \notin {"none", "partial"}
    BY DEF Product
  <2> QED
    BY <1>0, <1>1, <1>6, <2>1 DEF FinishOk, Goto, ImageAt, OrderAt, Whole
<1>7. ~ FirstTarFails(w)
  BY DEF FirstTarFails, Event
<1>8. CASE StampInstalled(w)
  BY <1>0, <1>1, <1>8 DEF StampInstalled, Goto, ImageAt, Whole
<1>9. CASE RemoveState(w)
  BY <1>0, <1>1, <1>9 DEF RemoveState, ImageAt, Whole
<1>10. CASE RemoveRootfs(w)
  BY <1>0, <1>1, <1>10 DEF RemoveRootfs, ImageAt, Whole
<1>11. CASE pc'[w] = pc[w] /\ UNCHANGED <<cur[w], installed[w], rootfs[w]>>
  BY <1>11 DEF ImageAt, Whole
<1> QED
  BY <1>2, <1>3, <1>4, <1>5, <1>6, <1>7, <1>8, <1>9, <1>10, <1>11,
     MovesAndStops

LEMMA EngineStep ==
  ASSUME TypeInv, "pipe" \notin Env, EngineInv, [Next]_vars
  PROVE  EngineInv'
<1>1. CASE UNCHANGED vars
  BY <1>1 DEF vars, EngineInv, OrderAt, ImageAt, Whole
<1>2. ASSUME NEW w \in Workdirs, Step(w), NEW v \in Workdirs
      PROVE  OrderAt(v)' /\ ImageAt(v)'
  <2>1. CASE v = w
    BY <1>2, <2>1, OrderStep, ImageStep DEF EngineInv
  <2>2. CASE v # w
    BY <1>2, <2>2, OthersSeeNothing DEF EngineInv, OrderAt, ImageAt, Whole
  <2> QED
    BY <2>1, <2>2
<1> QED
  BY <1>1, <1>2 DEF Next, Step, EngineInv

LEMMA EngineInit == Init => EngineInv
BY EngineAssumption, PhaseSets
   DEF Init, EngineInv, OrderAt, ImageAt, Whole

\* Unless the first tar of install_fakeroot_finish can fail unnoticed, a
\* package with an installed stamp has all its files in the root file system.
THEOREM InstalledSafe ==
  ASSUME "pipe" \notin Env
  PROVE  Spec => []InstalledIsWhole
<1>1. TypeInv /\ EngineInv /\ [Next]_vars => TypeInv' /\ EngineInv'
  BY StepType, EngineStep
<1>2. EngineInv => InstalledIsWhole
  BY DEF EngineInv, ImageAt, InstalledIsWhole
<1> QED
  BY <1>1, <1>2, InitType, EngineInit, PTL DEF Spec

----------------------------------------------------------------------------
(* The trees the packages are compiled from.                               *)

LEMMA TreeStep ==
  ASSUME TypeInv, "clean" \notin Env, Copied = {}, NEW w \in Workdirs,
         OrderAt(w), TreeAt(w), Step(w)
  PROVE  TreeAt(w)'
<1>0. /\ pc \in [Workdirs -> Phases]
      /\ cur \in [Workdirs -> 1 .. NRules + 1]
      /\ installed \in [Workdirs -> SUBSET Pkg]
      /\ rootfs \in [Workdirs -> [Pkg -> Contents]]
      /\ tree \in [Workdirs -> [Pkg -> {"none", "partial", "full"}]]
      /\ extracted \in [Workdirs -> SUBSET Stems]
      /\ NRules \in Nat
  BY EngineAssumption DEF TypeInv, TypeOK
<1>1. {"fetch", "wget", "mirror", "extract", "untar", "stamp_x", "base",
       "vendor", "stamp_p", "compile", "finish", "stamp_i"} \subseteq InRule
  BY PhaseSets
<1>2. pc[w] \in InRule =>
        /\ cur[w] \in Pkg \ installed[w]
        /\ 1 .. cur[w] - 1 \subseteq installed[w]
  BY DEF OrderAt
<1>3. CASE \/ Run(w) \/ Kill(w) \/ SkipRule(w) \/ AllRulesDone(w)
           \/ Download(w) \/ WgetFails(w) \/ SourceMissing(w)
           \/ BadArchive(w) \/ UntarFails(w) \/ CompileFails(w)
           \/ FinishFails(w)
  BY <1>0, <1>1, <1>3 DEF Run, Kill, SkipRule, AllRulesDone, Download,
     WgetFails, SourceMissing, BadArchive, UntarFails, CompileFails,
     FinishFails, Abort, Goto, build, image, TreeAt
<1>4. CASE StartWget(w) \/ WgetOk(w) \/ MirrorOk(w) \/ MirrorFails(w)
  BY <1>0, <1>4 DEF StartWget, WgetOk, MirrorOk, MirrorFails, Abort, Goto,
     build, image, TreeAt
<1>5. CASE SkipPatches(w) \/ MarkPatched(w)
  BY <1>0, <1>5 DEF SkipPatches, MarkPatched, Goto, build, image, TreeAt
<1>6. CASE Compile(w) \/ FirstTarFails(w)
  BY <1>0, <1>1, <1>2, <1>6 DEF Compile, FirstTarFails, Goto, build, image,
     TreeAt
<1>7. CASE SkipExtract(w)
  BY <1>0, <1>1, <1>2, <1>7 DEF SkipExtract, Goto, image, TreeAt
<1>8. CASE StartUntar(w)
  <2>1. /\ pc'[w] = "untar" /\ cur' = cur /\ UNCHANGED <<extracted, image>>
        /\ Stem[cur[w]] \notin extracted[w]
        /\ \A p \in Pkg \ {cur[w]} : tree'[w][p] = tree[w][p]
        /\ cur[w] \in Pkg \ installed[w]
        /\ 1 .. cur[w] - 1 \subseteq installed[w]
    BY <1>0, <1>1, <1>2, <1>8 DEF StartUntar, Goto
  <2> QED
    BY <2>1 DEF TreeAt, image
<1>9. CASE UntarOk(w)
  BY <1>0, <1>1, <1>2, <1>9 DEF UntarOk, Goto, image, TreeAt
<1>10. CASE StampExtracted(w)
  <2>1. /\ pc'[w] = "base" /\ cur' = cur /\ UNCHANGED <<tree, image>>
        /\ extracted'[w] = extracted[w] \cup {Stem[cur[w]]}
        /\ tree[w][cur[w]] = "full"
        /\ cur[w] \in Pkg \ installed[w]
        /\ 1 .. cur[w] - 1 \subseteq installed[w]
    BY <1>0, <1>1, <1>2, <1>10 DEF StampExtracted, Goto, TreeAt
  <2>2. ASSUME NEW p \in Pkg, tree[w][p] = "partial"
        PROVE  FALSE
    <3>1. p \notin installed[w] /\ 1 .. p - 1 \subseteq installed[w]
      BY <2>2 DEF TreeAt
    <3>2. p = cur[w]
      <4>1. p \in 1 .. NRules /\ cur[w] \in 1 .. NRules /\ NRules \in Nat
        BY <1>0, <2>1 DEF Pkg
      <4>2. p \notin 1 .. cur[w] - 1 /\ cur[w] \notin 1 .. p - 1
        BY <2>1, <3>1
      <4> QED
        BY <4>1, <4>2
    <3> QED
      BY <2>1, <2>2, <3>2
  <2> QED
    BY <2>1, <2>2 DEF TreeAt, image
<1>11. CASE \E s \in Series : \/ PatchApplies(w, s) \/ SeriesEnds(w, s)
                               \/ PatchRejected(w, s) \/ PatchFails(w, s)
  <2>1. PICK s \in Series : \/ PatchApplies(w, s) \/ SeriesEnds(w, s)
                            \/ PatchRejected(w, s) \/ PatchFails(w, s)
    BY <1>11
  <2>2. CASE PatchApplies(w, s)
    BY <2>2 DEF PatchApplies, TreeAt, image
  <2>3. CASE ~ PatchApplies(w, s)
    <3>1. LeaveSeries(w, s)
      BY <2>1, <2>3 DEF SeriesEnds, PatchRejected, PatchFails
    <3>2. /\ pc[w] \in {"base", "vendor"}
          /\ pc'[w] \in {"vendor", "stamp_p"}
          /\ UNCHANGED <<cur, extracted, tree, rootfs, installed>>
      BY <1>0, <3>1 DEF LeaveSeries, Goto, Series, AfterSeries, image
    <3> QED
      BY <3>2 DEF TreeAt
  <2> QED
    BY <2>2, <2>3
<1>12. CASE StartFinish(w) \/ FinishOk(w)
  <2>1. /\ pc[w] = "finish" /\ pc'[w] \in {"finish", "stamp_i"}
        /\ UNCHANGED <<cur, extracted, tree, installed>>
    BY <1>0, <1>12 DEF StartFinish, FinishOk, Goto, build
  <2>2. tree[w][cur[w]] = "full"
    BY <2>1 DEF TreeAt
  <2>3. Product(w, cur[w]) # "halftree"
    BY <2>2 DEF Product
  <2>4. \A p \in Pkg : rootfs'[w][p] # "halftree"
    BY <1>0, <1>12, <2>3 DEF StartFinish, FinishOk, TreeAt
  <2> QED
    BY <2>1, <2>2, <2>4 DEF TreeAt
<1>13. CASE StampInstalled(w)
  <2>1. /\ pc[w] = "stamp_i" /\ pc'[w] = "rule"
        /\ UNCHANGED <<extracted, tree, rootfs>>
        /\ installed'[w] = installed[w] \cup {cur[w]}
        /\ tree[w][cur[w]] = "full"
    BY <1>0, <1>13 DEF StampInstalled, Goto, build, TreeAt
  <2> QED
    BY <2>1 DEF TreeAt
<1>14. ~ StartClean(w)
  BY DEF StartClean, Event
<1>15. ~ RemoveBuild(w) /\ ~ RemoveState(w) /\ ~ RemoveRootfs(w)
  BY DEF RemoveBuild, RemoveState, RemoveRootfs, TreeAt
<1> QED
  BY <1>3, <1>4, <1>5, <1>6, <1>7, <1>8, <1>9, <1>10, <1>11, <1>12, <1>13,
     <1>14, <1>15 DEF Step, Script, Failure

LEMMA TreeInvStep ==
  ASSUME TypeInv, "clean" \notin Env, Copied = {}, TreeInv, [Next]_vars
  PROVE  TreeInv'
<1>1. CASE UNCHANGED vars
  BY <1>1 DEF vars, TreeInv, OrderAt, TreeAt
<1>2. ASSUME NEW w \in Workdirs, Step(w), NEW v \in Workdirs
      PROVE  OrderAt(v)' /\ TreeAt(v)'
  <2>1. CASE v = w
    BY <1>2, <2>1, OrderStep, TreeStep DEF TreeInv
  <2>2. CASE v # w
    BY <1>2, <2>2, OthersSeeNothing DEF TreeInv, OrderAt, TreeAt
  <2> QED
    BY <2>1, <2>2
<1> QED
  BY <1>1, <1>2 DEF Next, Step, TreeInv

LEMMA TreeInit == Init => TreeInv
BY EngineAssumption, PhaseSets
   DEF Init, TreeInv, OrderAt, TreeAt

\* Where nothing is cleaned and every source is an archive, no installed
\* package was compiled from a half unpacked tree, however many clones share
\* SRC_DIR, whatever fails or is killed, and whichever packages share a stem.
THEOREM NoHalfTreeSafe ==
  ASSUME "clean" \notin Env, Copied = {}
  PROVE  Spec => []NoHalfTree
<1>1. TypeInv /\ TreeInv /\ [Next]_vars => TypeInv' /\ TreeInv'
  BY StepType, TreeInvStep
<1>2. TypeInv /\ TreeInv => NoHalfTree
  BY DEF TypeInv, TypeOK, TreeInv, TreeAt, NoHalfTree
<1> QED
  BY <1>1, <1>2, InitType, TreeInit, PTL DEF Spec

----------------------------------------------------------------------------
(* The patches of the trees the packages are compiled from.                *)

LEMMA PatchStep ==
  ASSUME TypeInv, "patch" \notin Env, "kill" \notin Env, NEW w \in Workdirs,
         OrderAt(w), PatchAt(w), Step(w)
  PROVE  PatchAt(w)'
<1>0. /\ pc \in [Workdirs -> Phases]
      /\ cur \in [Workdirs -> 1 .. NRules + 1]
      /\ rootfs \in [Workdirs -> [Pkg -> Contents]]
      /\ tree \in [Workdirs -> [Pkg -> {"none", "partial", "full"}]]
      /\ extracted \in [Workdirs -> SUBSET Stems]
      /\ applied \in [Workdirs -> [Pkg -> [Series -> 0 .. NPatches]]]
      /\ pos \in [Workdirs -> 0 .. NPatches]
      /\ marked \in [Workdirs -> SUBSET Pkg]
      /\ NPatches \in Nat
  BY EngineAssumption DEF TypeInv, TypeOK
<1>1. {"fetch", "wget", "mirror", "extract", "untar", "stamp_x", "base",
       "vendor", "stamp_p", "compile", "finish", "stamp_i"} \subseteq InRule
  BY PhaseSets
<1>2. pc[w] \in InRule => cur[w] \in Pkg
  BY DEF OrderAt
<1>3. CASE \/ Run(w) \/ SkipRule(w) \/ AllRulesDone(w) \/ Download(w)
           \/ WgetFails(w) \/ SourceMissing(w) \/ BadArchive(w)
           \/ UntarFails(w) \/ CompileFails(w) \/ FinishFails(w)
           \/ StartClean(w)
  BY <1>0, <1>3 DEF Run, SkipRule, AllRulesDone, Download, WgetFails,
     SourceMissing, BadArchive, UntarFails, CompileFails, FinishFails,
     StartClean, Abort, Goto, build, image, PatchAt, Carries
<1>4. CASE StartWget(w) \/ WgetOk(w) \/ MirrorOk(w) \/ MirrorFails(w)
  BY <1>0, <1>4 DEF StartWget, WgetOk, MirrorOk, MirrorFails, Abort, Goto,
     build, image, PatchAt, Carries
<1>5. CASE SkipExtract(w) \/ StampExtracted(w)
  BY <1>0, <1>1, <1>2, <1>5 DEF SkipExtract, StampExtracted, Goto, image,
     PatchAt, Carries
<1>6. CASE StartUntar(w)
  BY <1>0, <1>1, <1>2, <1>6 DEF StartUntar, Goto, image, PatchAt, Carries,
     Series
<1>7. CASE UntarOk(w)
  BY <1>0, <1>1, <1>2, <1>7 DEF UntarOk, Goto, image, PatchAt, Carries
<1>8. CASE SkipPatches(w)
  BY <1>0, <1>8 DEF SkipPatches, Goto, build, image, PatchAt, Carries
<1>9. ASSUME NEW s \in Series, PatchApplies(w, s)
      PROVE  PatchAt(w)'
  <2>1. CASE s = "base"
    BY <1>0, <1>1, <1>2, <1>9, <2>1 DEF PatchApplies, Patching, image,
       PatchAt, Carries, Series
  <2>2. CASE s = "vendor"
    BY <1>0, <1>1, <1>2, <1>9, <2>2 DEF PatchApplies, Patching, image,
       PatchAt, Carries, Series
  <2> QED
    BY <2>1, <2>2 DEF Series
<1>10. ASSUME NEW s \in Series, SeriesEnds(w, s)
       PROVE  PatchAt(w)'
  BY <1>0, <1>1, <1>2, <1>10 DEF SeriesEnds, LeaveSeries, AfterSeries, Goto,
     Patching, image, PatchAt, Carries, Series
<1>11. ASSUME NEW s \in Series, PatchRejected(w, s)
       PROVE  PatchAt(w)'
  BY <1>0, <1>1, <1>2, <1>11 DEF PatchRejected, LeaveSeries, AfterSeries,
     Goto, Patching, image, PatchAt, Carries, Series
<1>12. ASSUME NEW s \in Series
       PROVE  ~ PatchFails(w, s)
  BY DEF PatchFails, Event
<1>13. CASE MarkPatched(w)
  <2>1. /\ pc[w] = "stamp_p" /\ pc'[w] = "compile" /\ cur[w] \in Pkg
        /\ UNCHANGED <<cur, extracted, tree, applied, pos, rootfs>>
    BY <1>0, <1>1, <1>2, <1>13 DEF MarkPatched, Goto, image
  <2>2. CASE tree[w][cur[w]] = "none"
    BY <1>0, <1>13, <2>1, <2>2 DEF MarkPatched, PatchAt, Carries
  <2>3. CASE tree[w][cur[w]] # "none"
    BY <1>0, <1>13, <2>1, <2>3 DEF MarkPatched, PatchAt, Carries
  <2> QED
    BY <2>2, <2>3
<1>14. CASE Compile(w) \/ FirstTarFails(w)
  BY <1>0, <1>14 DEF Compile, FirstTarFails, Goto, build, image, PatchAt,
     Carries
<1>15. CASE StartFinish(w)
  BY <1>0, <1>15 DEF StartFinish, build, PatchAt, Carries
<1>16. CASE FinishOk(w)
  BY <1>0, <1>1, <1>2, <1>16 DEF FinishOk, Goto, build, Product, PatchAt,
     Carries, Series
<1>17. CASE StampInstalled(w)
  BY <1>0, <1>17 DEF StampInstalled, Goto, build, PatchAt, Carries
<1>18. CASE RemoveBuild(w)
  BY <1>0, <1>18 DEF RemoveBuild, image, PatchAt, Carries, Series
<1>19. CASE RemoveState(w) \/ RemoveRootfs(w)
  BY <1>0, <1>19 DEF RemoveState, RemoveRootfs, build, PatchAt, Carries
<1>20. ~ Kill(w)
  BY DEF Kill, Event
<1> QED
  BY <1>3, <1>4, <1>5, <1>6, <1>7, <1>8, <1>9, <1>10, <1>11, <1>12, <1>13,
     <1>14, <1>15, <1>16, <1>17, <1>18, <1>19, <1>20 DEF Step, Script, Failure

LEMMA PatchInvStep ==
  ASSUME TypeInv, "patch" \notin Env, "kill" \notin Env, PatchInv, [Next]_vars
  PROVE  PatchInv'
<1>1. CASE UNCHANGED vars
  BY <1>1 DEF vars, PatchInv, OrderAt, PatchAt, Carries
<1>2. ASSUME NEW w \in Workdirs, Step(w), NEW v \in Workdirs
      PROVE  OrderAt(v)' /\ PatchAt(v)'
  <2>1. CASE v = w
    BY <1>2, <2>1, OrderStep, PatchStep DEF PatchInv
  <2>2. CASE v # w
    BY <1>2, <2>2, OthersSeeNothing DEF PatchInv, OrderAt, PatchAt, Carries
  <2> QED
    BY <2>1, <2>2
<1> QED
  BY <1>1, <1>2 DEF Next, Step, PatchInv

LEMMA PatchInit == Init => PatchInv
BY EngineAssumption, PhaseSets
   DEF Init, PatchInv, OrderAt, PatchAt, Carries, Series

\* Where every patch applies and no script is killed, every installed package
\* was compiled with both series of its patches (apply_patches), whatever else
\* fails or is cleaned in between, for any series and any sharing of stems.
THEOREM BuiltPatchedSafe ==
  ASSUME "patch" \notin Env, "kill" \notin Env
  PROVE  Spec => []BuiltPatched
<1>1. TypeInv /\ PatchInv /\ [Next]_vars => TypeInv' /\ PatchInv'
  BY StepType, PatchInvStep
<1>2. TypeInv /\ PatchInv => BuiltPatched
  BY DEF TypeInv, TypeOK, PatchInv, PatchAt, BuiltPatched
<1> QED
  BY <1>1, <1>2, InitType, PatchInit, PTL DEF Spec

----------------------------------------------------------------------------
(* The contract.                                                           *)

\* A script stamps the package of its rule, works on its files, or removes
\* stamps and then files; nothing else changes what the contract sees.
LEMMA OwnContractStep ==
  ASSUME TypeInv, "pipe" \notin Env, NEW w \in Workdirs, OrderAt(w),
         ImageAt(w), Step(w)
  PROVE  \/ installed'[w] = installed[w] /\ Whole(w)' = Whole(w)
         \/ \E p \in Pkg :
              \/ /\ p \notin installed[w]
                 /\ Whole(w)' \in {Whole(w) \cup {p}, Whole(w) \ {p}}
                 /\ installed'[w] = installed[w]
              \/ /\ p \in Whole(w) \ installed[w]
                 /\ \A q \in 1 .. p - 1 : q \in installed[w]
                 /\ installed'[w] = installed[w] \cup {p}
                 /\ Whole(w)' = Whole(w)
              \/ /\ p \in installed[w]
                 /\ installed'[w] = installed[w] \ {p}
                 /\ Whole(w)' = Whole(w)
<1>0. /\ pc \in [Workdirs -> Phases]
      /\ installed \in [Workdirs -> SUBSET Pkg]
      /\ rootfs \in [Workdirs -> [Pkg -> Contents]]
  BY DEF TypeInv, TypeOK
<1>1. {"finish", "stamp_i"} \subseteq InRule
  BY PhaseSets
<1>2. CASE \/ Moves(w) \/ Stops(w) \/ Kill(w) \/ Run(w) \/ SkipRule(w)
           \/ Download(w)
           \/ pc'[w] = pc[w] /\ UNCHANGED <<cur[w], installed[w], rootfs[w]>>
  BY <1>2 DEF Moves, Stops, Kill, Run, SkipRule, Download, Whole, image
<1>3. CASE StartFinish(w)
  <2>1. cur[w] \in Pkg \ installed[w] /\ installed' = installed
    BY <1>1, <1>3 DEF StartFinish, OrderAt
  <2>2. Whole(w)' = Whole(w) \ {cur[w]}
    BY <1>0, <1>3, <2>1 DEF StartFinish, Whole
  <2> QED
    BY <2>1, <2>2
<1>4. CASE FinishOk(w)
  <2>1. cur[w] \in Pkg \ installed[w] /\ installed' = installed
    BY <1>1, <1>4 DEF FinishOk, Goto, OrderAt
  <2>2. Product(w, cur[w]) \notin {"none", "partial"}
    BY DEF Product
  <2>3. Whole(w)' = Whole(w) \cup {cur[w]}
    BY <1>0, <1>4, <2>1, <2>2 DEF FinishOk, Whole
  <2> QED
    BY <2>1, <2>3
<1>5. ~ FirstTarFails(w)
  BY DEF FirstTarFails, Event
<1>6. CASE StampInstalled(w)
  <2>1. pc[w] = "stamp_i" /\ Whole(w)' = Whole(w)
    BY <1>6 DEF StampInstalled, Goto, Whole
  <2>2. installed'[w] = installed[w] \cup {cur[w]}
    BY <1>0, <1>6 DEF StampInstalled
  <2>3. /\ cur[w] \in Whole(w) \ installed[w]
        /\ \A q \in 1 .. cur[w] - 1 : q \in installed[w]
        /\ cur[w] \in Pkg
    BY <1>1, <2>1 DEF OrderAt, ImageAt
  <2> QED
    BY <2>1, <2>2, <2>3
<1>7. CASE RemoveState(w)
  <2>1. Whole(w)' = Whole(w)
    BY <1>7 DEF RemoveState, Whole
  <2>2. \/ installed' = installed
        \/ \E p \in installed[w] : installed'[w] = installed[w] \ {p}
    BY <1>0, <1>7 DEF RemoveState
  <2> QED
    BY <1>0, <2>1, <2>2
<1>8. CASE RemoveRootfs(w)
  <2>1. installed' = installed /\ installed[w] = {}
    BY <1>8 DEF RemoveRootfs, ImageAt
  <2>2. \/ Whole(w)' = Whole(w)
        \/ \E p \in Pkg : Whole(w)' = Whole(w) \ {p}
    BY <1>0, <1>8 DEF RemoveRootfs, Whole
  <2> QED
    BY <2>1, <2>2
<1> QED
  BY <1>2, <1>3, <1>4, <1>5, <1>6, <1>7, <1>8, MovesAndStops

LEMMA ContractStep ==
  ASSUME TypeInv, "pipe" \notin Env, EngineInv, [Next]_vars
  PROVE  Contract!Next \/ UNCHANGED <<installed, [w \in Workdirs |-> Whole(w)]>>
<1> DEFINE W == [w \in Workdirs |-> Whole(w)]
<1>0. /\ installed \in [Workdirs -> SUBSET Pkg]
      /\ installed' \in [Workdirs -> SUBSET Pkg]
  BY StepType DEF TypeInv, TypeOK
<1>1. CASE UNCHANGED vars
  BY <1>1 DEF vars, Whole
<1>2. ASSUME NEW w \in Workdirs, Step(w)
      PROVE  Contract!Next \/ UNCHANGED <<installed, W>>
  <2>1. \A v \in Workdirs \ {w} :
          installed'[v] = installed[v] /\ W'[v] = W[v]
    BY <1>2, OthersSeeNothing DEF Whole
  <2>2. W[w] = Whole(w) /\ W'[w] = Whole(w)'
    BY <1>2
  <2>3. W = [v \in Workdirs |-> W[v]] /\ W' = [v \in Workdirs |-> W'[v]]
    OBVIOUS
  <2> HIDE DEF W
  <2>4. CASE installed'[w] = installed[w] /\ W'[w] = W[w]
    BY <1>0, <2>1, <2>3, <2>4
  <2>5. ASSUME NEW p \in Pkg, p \notin installed[w],
               W'[w] \in {W[w] \cup {p}, W[w] \ {p}},
               installed'[w] = installed[w]
        PROVE  Contract!Next
    <3>1. installed' = installed
      BY <1>0, <2>1, <2>5
    <3>2. \/ W' = [W EXCEPT ![w] = @ \cup {p}]
          \/ W' = [W EXCEPT ![w] = @ \ {p}]
      BY <2>1, <2>3, <2>5
    <3> QED
      BY <1>2, <2>5, <3>1, <3>2 DEF Contract!Next, Contract!Work, Pkg, W
  <2>6. ASSUME NEW p \in Pkg, p \in W[w] \ installed[w],
               \A q \in 1 .. p - 1 : q \in installed[w],
               installed'[w] = installed[w] \cup {p},
               W'[w] = W[w]
        PROVE  Contract!Next
    <3>1. installed' = [installed EXCEPT ![w] = @ \cup {p}]
      BY <1>0, <2>1, <2>6
    <3>2. W' = W
      BY <2>1, <2>3, <2>6
    <3> QED
      BY <1>2, <2>6, <3>1, <3>2 DEF Contract!Next, Contract!Stamp, Pkg, W
  <2>7. ASSUME NEW p \in Pkg, p \in installed[w],
               installed'[w] = installed[w] \ {p},
               W'[w] = W[w]
        PROVE  Contract!Next
    <3>1. installed' = [installed EXCEPT ![w] = @ \ {p}]
      BY <1>0, <2>1, <2>7
    <3>2. W' = W
      BY <2>1, <2>3, <2>7
    <3> QED
      BY <1>2, <2>7, <3>1, <3>2 DEF Contract!Next, Contract!Unstamp, Pkg, W
  <2>8. OrderAt(w) /\ ImageAt(w)
    BY <1>2 DEF EngineInv
  <2> QED
    BY <1>2, <2>2, <2>4, <2>5, <2>6, <2>7, <2>8, OwnContractStep
<1> QED
  BY <1>1, <1>2 DEF Next, Step

\* Unless a pipe fails unnoticed, the engine implements BuildContract: stamps
\* come in the order of the rules, each for a whole package, no stamped package
\* is built again, and its files are removed only after its stamp.
THEOREM Implements ==
  ASSUME "pipe" \notin Env
  PROVE  Spec => ContractSpec
<1>1. Init => Contract!Init
  BY EngineAssumption DEF Init, Contract!Init, Whole
<1>2. TypeInv /\ EngineInv /\ [Next]_vars =>
        /\ TypeInv' /\ EngineInv'
        /\ [Contract!Next]_<<installed, [w \in Workdirs |-> Whole(w)]>>
  BY StepType, EngineStep, ContractStep
<1> QED
  BY <1>1, <1>2, InitType, EngineInit, PTL DEF Spec, ContractSpec,
     Contract!Spec
=============================================================================
