----------------------------- MODULE BootOrder -----------------------------
(***************************************************************************)
(* What the device list of ps3boot promises: it names every device once,   *)
(* in the order in which they were last added.                             *)
(***************************************************************************)
EXTENDS Integers, Sequences

CONSTANTS Disks, Builtin

VARIABLE order    \* the device names from left to right

Init == order = Builtin

Without(s, i) == [j \in 1 .. Len(s) - 1 |-> IF j < i THEN s[j] ELSE s[j + 1]]

\* A device that comes gets the last place; one that was there had left it.
Add(d) ==
  /\ \A i \in 1 .. Len(order) : order[i] # d
  /\ order' = Append(order, d)

Remove(d) ==
  \E i \in 1 .. Len(order) :
    /\ order[i] = d
    /\ order' = Without(order, i)

Next == \E d \in Disks : Add(d) \/ Remove(d)

Spec == Init /\ [][Next]_order
=============================================================================
