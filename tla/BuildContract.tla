--------------------------- MODULE BuildContract ---------------------------
(***************************************************************************)
(* What a build in a working directory promises to whoever makes an image  *)
(* of its root file system: stamps are given in the order of the rules,    *)
(* each to a package whose files are all there; a stamped package is left  *)
(* alone; and stamps go, all of them, before any file they stand for.      *)
(***************************************************************************)
EXTENDS Integers

CONSTANTS Workdirs, NRules

VARIABLES
  done,    \* done[w]: the packages stamped as installed
  whole    \* whole[w]: the packages with all their files in the image

Init ==
  /\ done  = [w \in Workdirs |-> {}]
  /\ whole = [w \in Workdirs |-> {}]

\* The files of a package without a stamp come and go.
Work(w, p) ==
  /\ p \notin done[w]
  /\ \/ whole' = [whole EXCEPT ![w] = @ \cup {p}]
     \/ whole' = [whole EXCEPT ![w] = @ \ {p}]
  /\ UNCHANGED done

\* The first package without a stamp gets one when it is whole.
Stamp(w, p) ==
  /\ p \in whole[w] \ done[w]
  /\ \A q \in 1 .. p - 1 : q \in done[w]
  /\ done' = [done EXCEPT ![w] = @ \cup {p}]
  /\ UNCHANGED whole

\* clean takes a stamp away and leaves the files.
Unstamp(w, p) ==
  /\ p \in done[w]
  /\ done' = [done EXCEPT ![w] = @ \ {p}]
  /\ UNCHANGED whole

Next ==
  \E w \in Workdirs, p \in 1 .. NRules :
    Work(w, p) \/ Stamp(w, p) \/ Unstamp(w, p)

Spec == Init /\ [][Next]_<<done, whole>>
=============================================================================
