---------------------------- MODULE BootMenuProofs ----------------------------
(***************************************************************************)
(* Theorems of BootMenu for any number of disks and nodes, any contents of *)
(* the disks and any timeouts: the device list stays whole and implements  *)
(* BootOrder, mounts are undone, the selection and the countdown mean what *)
(* the user sees.                                                          *)
(***************************************************************************)
EXTENDS BootMenu, SequenceTheorems, TLAPS

LEMMA FunctionIsSeq ==
  ASSUME NEW S, NEW n \in Nat, NEW f \in [1 .. n -> S]
  PROVE  f \in Seq(S) /\ Len(f) = n
<1>1. f \in Seq(S)
  OBVIOUS
<1>2. Len(f) = n
  BY <1>1, LenProperties
<1> QED
  BY <1>1, <1>2

LEMMA WithoutIsSeq ==
  ASSUME NEW S, NEW s \in Seq(S), NEW i \in 1 .. Len(s)
  PROVE  /\ Without(s, i) \in Seq(S)
         /\ Len(Without(s, i)) = Len(s) - 1
         /\ \A j \in 1 .. Len(s) - 1 :
              Without(s, i)[j] = IF j < i THEN s[j] ELSE s[j + 1]
<1>1. Without(s, i) \in [1 .. Len(s) - 1 -> S]
  BY DEF Without
<1>2. Len(s) - 1 \in Nat
  OBVIOUS
<1> QED
  BY <1>1, <1>2, FunctionIsSeq DEF Without

Boxes == [device : Disks \cup Names, conf : Media \cup {Nothing}]

LEMMA BoxIsSomething ==
  ASSUME NEW d \in Disks \cup Names, NEW c \in Media \cup {Nothing}
  PROVE  /\ [device |-> d, conf |-> c] \in Boxes
         /\ [device |-> d, conf |-> c] # None
BY MenuAssumption DEF Boxes

----------------------------------------------------------------------------
(* Removing a device.                                                      *)

LEMMA RemoveNodeKeepsList ==
  ASSUME ListOK, NEW i \in 1 .. Len(devices), Dev(i) \in Disks, RemoveNode(i)
  PROVE  /\ ListOK'
         /\ Len(devices') = Len(devices) - 1
         /\ \A j \in 1 .. Len(devices') :
              Dev(j)' = IF j < i THEN Dev(j) ELSE Dev(j + 1)
<1> DEFINE L == Len(devices)
           W(j) == IF j < i THEN j ELSE j + 1
<1>1. /\ devices \in Seq(Nodes) /\ L \in Nat /\ L > 0
      /\ heap \in [Nodes -> Boxes \cup {None}]
      /\ \A j \in 1 .. L : devices[j] \in Nodes
  BY DEF ListOK, Boxes
<1>2. i > 1
  <2>1. Dev(1) \in Names
    BY DEF ListOK
  <2> QED
    BY <2>1, MenuAssumption
<1>3. /\ devices' \in Seq(Nodes) /\ Len(devices') = L - 1
      /\ \A j \in 1 .. L - 1 : devices'[j] = devices[W(j)]
  BY <1>1, WithoutIsSeq DEF RemoveNode
<1>4. /\ \A j \in 1 .. L - 1 : W(j) \in 1 .. L /\ W(j) # i
      /\ \A k \in (1 .. L) \ {i} : \E j \in 1 .. L - 1 : W(j) = k
      /\ \A j, k \in 1 .. L - 1 : W(j) = W(k) => j = k
  <2>1. ASSUME NEW k \in (1 .. L) \ {i}
        PROVE  \E j \in 1 .. L - 1 : W(j) = k
    <3>1. CASE k < i
      <4>1. k \in 1 .. L - 1 /\ W(k) = k
        BY <1>1, <3>1
      <4> QED
        BY <4>1
    <3>2. CASE k > i
      <4>1. k - 1 \in 1 .. L - 1 /\ W(k - 1) = k
        BY <1>1, <3>2
      <4> QED
        BY <4>1
    <3> QED
      BY <1>1, <3>1, <3>2
  <2> QED
    BY <1>1, <2>1
<1>5. heap' = [heap EXCEPT ![devices[i]] = None]
  BY DEF RemoveNode
<1>6. \A j, k \in 1 .. L : devices[j] = devices[k] => j = k
  BY DEF ListOK
<1> HIDE DEF W
<1>7. \A j \in 1 .. L - 1 : /\ devices'[j] # devices[i]
                            /\ heap'[devices'[j]] = heap[devices[W(j)]]
  BY <1>1, <1>3, <1>4, <1>5, <1>6
<1>8. \A j \in 1 .. L - 1 : Dev(j)' = Dev(W(j))
  BY <1>7 DEF Dev
<1>9. ListOK'
  <2>1. heap' \in [Nodes -> Boxes \cup {None}]
    BY <1>1, <1>5
  <2>2. Len(devices') > 0
    BY <1>1, <1>2, <1>3
  <2>3. cur_device' = devices'[Len(devices')]
    <3>1. CASE i = L
      BY <1>1, <1>2, <1>3, <3>1 DEF RemoveNode, W
    <3>2. CASE i # L
      <4>1. L - 1 \in 1 .. L - 1 /\ W(L - 1) = L
        BY <1>1, <1>2, <3>2 DEF W
      <4>2. cur_device' = cur_device /\ cur_device = devices[L]
        BY <1>2, <3>2 DEF RemoveNode, ListOK
      <4> QED
        BY <1>3, <4>1, <4>2
    <3> QED
      BY <3>1, <3>2
  <2>4. ASSUME NEW n \in Nodes
        PROVE  heap'[n] # None <=> \E j \in 1 .. Len(devices') : devices'[j] = n
    <3>1. CASE n = devices[i]
      BY <1>1, <1>3, <1>5, <1>7, <3>1
    <3>2. CASE n # devices[i]
      <4>1. heap'[n] = heap[n]
        BY <1>1, <1>5, <3>2
      <4>2. heap[n] # None <=> \E k \in 1 .. L : devices[k] = n
        BY DEF ListOK
      <4>3. (\E k \in 1 .. L : devices[k] = n)
              <=> \E j \in 1 .. L - 1 : devices'[j] = n
        BY <1>3, <1>4, <3>2
      <4> QED
        BY <1>3, <4>1, <4>2, <4>3
    <3> QED
      BY <3>1, <3>2
  <2>5. \A j, k \in 1 .. L - 1 : devices'[j] = devices'[k] => j = k
    BY <1>3, <1>4, <1>6
  <2>6. \A j, k \in 1 .. L - 1 : Dev(j)' = Dev(k)' => j = k
    BY <1>4, <1>8 DEF ListOK
  <2>7. Dev(1)' \in Names
    <3>1. 1 \in 1 .. L - 1 /\ W(1) = 1
      BY <1>1, <1>2 DEF W
    <3> QED
      BY <1>8, <3>1 DEF ListOK
  <2> QED
    BY <1>3, <2>1, <2>2, <2>3, <2>4, <2>5, <2>6, <2>7 DEF ListOK, Boxes
<1> QED
  BY <1>3, <1>8, <1>9 DEF W

LEMMA RemoveDeviceKeepsList ==
  ASSUME ListOK, NEW d \in Disks, NEW dead, RemoveDevice(d, dead)
  PROVE  /\ ListOK'
         /\ \A j \in 1 .. Len(devices') : Dev(j)' # d
<1>0. devices \in Seq(Nodes) /\ DOMAIN devices = 1 .. Len(devices)
  BY DEF ListOK
<1>1. CASE UNCHANGED list /\ \A i \in DOMAIN devices : Dev(i) # d
  BY <1>0, <1>1 DEF list, ListOK, Dev
<1>2. ASSUME NEW i \in 1 .. Len(devices), Dev(i) = d, RemoveNode(i)
      PROVE  ListOK' /\ \A j \in 1 .. Len(devices') : Dev(j)' # d
  <2>1. /\ ListOK' /\ Len(devices') = Len(devices) - 1
        /\ \A j \in 1 .. Len(devices') :
             Dev(j)' = IF j < i THEN Dev(j) ELSE Dev(j + 1)
    BY <1>2, RemoveNodeKeepsList
  <2>2. \A j \in 1 .. Len(devices) : Dev(j) = Dev(i) => j = i
    BY DEF ListOK
  <2>3. Len(devices) \in Nat
    BY <1>0
  <2> QED
    BY <1>2, <2>1, <2>2, <2>3
<1> QED
  BY <1>0, <1>1, <1>2 DEF RemoveDevice

----------------------------------------------------------------------------
(* Adding a device.                                                        *)

LEMMA AppendNodeKeepsList ==
  ASSUME ListOK, NEW d \in Disks, NEW c \in Media, NEW n \in Nodes,
         \A i \in 1 .. Len(devices) : Dev(i) # d,
         AppendNode(d, c, n)
  PROVE  /\ ListOK'
         /\ Len(devices') = Len(devices) + 1
         /\ \A j \in 1 .. Len(devices) : Dev(j)' = Dev(j)
         /\ Dev(Len(devices))' = d
<1> DEFINE L   == Len(devices)
           box == [device |-> d, conf |-> c]
<1>1. /\ devices \in Seq(Nodes) /\ L \in Nat /\ L > 0
      /\ heap \in [Nodes -> Boxes \cup {None}]
      /\ \A j \in 1 .. L : devices[j] \in Nodes
      /\ DOMAIN devices = 1 .. L
  BY DEF ListOK, Boxes
<1>2. box \in Boxes /\ box # None /\ box.device = d
  BY BoxIsSomething
<1>3. heap[n] = None /\ heap' = [heap EXCEPT ![n] = box] /\ cur_device' = n
  BY DEF AppendNode
<1> HIDE DEF box
<1>4. \A j \in 1 .. L : devices[j] # n
  BY <1>1, <1>3 DEF ListOK
<1>5. devices' = [j \in 1 .. L + 1 |-> IF j <= L THEN devices[j] ELSE n]
  <2>1. PICK i \in 1 .. L :
          /\ devices[i] = cur_device
          /\ devices' = [j \in 1 .. i + 1 |-> IF j <= i THEN devices[j] ELSE n]
    BY <1>1 DEF AppendNode
  <2>2. cur_device = devices[L] /\ L \in 1 .. L
    BY <1>1 DEF ListOK
  <2>3. \A j, k \in 1 .. L : devices[j] = devices[k] => j = k
    BY DEF ListOK
  <2>4. i = L
    BY <2>1, <2>2, <2>3
  <2> QED
    BY <2>1, <2>4
<1>6. /\ devices' \in Seq(Nodes) /\ Len(devices') = L + 1
      /\ \A j \in 1 .. L : devices'[j] = devices[j]
      /\ devices'[L + 1] = n
  <2>1. devices' \in [1 .. L + 1 -> Nodes]
    BY <1>1, <1>5
  <2>2. L + 1 \in Nat
    BY <1>1
  <2> QED
    BY <1>1, <1>5, <2>1, <2>2, FunctionIsSeq
<1>7. /\ \A j \in 1 .. L : Dev(j)' = Dev(j)
      /\ heap'[devices'[L + 1]].device = d
  <2>1. \A j \in 1 .. L : heap'[devices'[j]] = heap[devices[j]]
    BY <1>1, <1>3, <1>4, <1>6
  <2>2. heap'[devices'[L + 1]] = box
    BY <1>1, <1>3, <1>6
  <2> QED
    BY <1>2, <2>1, <2>2 DEF Dev
<1>8. ListOK'
  <2>1. heap' \in [Nodes -> Boxes \cup {None}]
    BY <1>1, <1>2, <1>3
  <2>2. Len(devices') > 0 /\ cur_device' = devices'[Len(devices')]
    BY <1>1, <1>3, <1>6
  <2>3. ASSUME NEW m \in Nodes
        PROVE  heap'[m] # None <=> \E j \in 1 .. Len(devices') : devices'[j] = m
    <3>1. CASE m = n
      BY <1>1, <1>2, <1>3, <1>6, <3>1
    <3>2. CASE m # n
      <4>1. heap'[m] = heap[m]
        BY <1>1, <1>3, <3>2
      <4>2. heap[m] # None <=> \E k \in 1 .. L : devices[k] = m
        BY DEF ListOK
      <4>3. (\E k \in 1 .. L : devices[k] = m)
              <=> \E j \in 1 .. L + 1 : devices'[j] = m
        BY <1>1, <1>6, <3>2
      <4> QED
        BY <1>6, <4>1, <4>2, <4>3
    <3> QED
      BY <3>1, <3>2
  <2>4. \A j, k \in 1 .. L + 1 : devices'[j] = devices'[k] => j = k
    BY <1>1, <1>4, <1>6 DEF ListOK
  <2>5. ASSUME NEW j \in 1 .. L + 1, NEW k \in 1 .. L + 1, Dev(j)' = Dev(k)'
        PROVE  j = k
    <3>1. \A x, y \in 1 .. L : Dev(x) = Dev(y) => x = y
      BY DEF ListOK
    <3>2. \A x \in 1 .. L : Dev(x)' # heap'[devices'[L + 1]].device
      BY <1>7
    <3>3. j \in 1 .. L \/ j = L + 1
      BY <1>1
    <3>4. k \in 1 .. L \/ k = L + 1
      BY <1>1
    <3> QED
      BY <1>7, <2>5, <3>1, <3>2, <3>3, <3>4 DEF Dev
  <2>6. Dev(1)' \in Names
    BY <1>1, <1>7 DEF ListOK
  <2> QED
    BY <1>6, <2>1, <2>2, <2>3, <2>4, <2>5, <2>6 DEF ListOK, Boxes
<1> QED
  BY <1>6, <1>7, <1>8 DEF Dev

----------------------------------------------------------------------------
(* The steps.                                                              *)

Busy == {"mounted", "default", "link"}

\* What a step does to the list: nothing, or it removes a device, or it links
\* the one that is being added.
KeepsList == UNCHANGED list /\ (pc' \in Busy => pc \in Busy /\ UNCHANGED adding)

Removes(d) ==
  /\ \E dead : RemoveDevice(d, dead)
  /\ pc' \in Busy => adding' \in {d} \X Media

Links ==
  /\ pc = "link" /\ pc' = "events"
  /\ \E n \in Nodes : AppendNode(adding[1], adding[2], n)

LEMMA HandleEventKeepsList ==
  ASSUME HandleEvent
  PROVE  KeepsList
<1> USE DEF KeepsList, Busy, list
<1>1. CASE SelectPrev \/ SelectNext \/ ConfigPrev \/ ConfigNext \/ OtherKey
  BY <1>1 DEF SelectPrev, SelectNext, ConfigPrev, ConfigNext, OtherKey, Select
<1>2. CASE NoEvent \/ Escape \/ QuitEvent \/ StartEdit \/ CommitEdit
  BY <1>2 DEF NoEvent, Escape, QuitEvent, StartEdit, CommitEdit
<1>3. CASE Boot
  BY <1>3 DEF Boot, Execute, MountFails, LeaveScript, Kexec, NoKernel
<1> QED
  BY <1>1, <1>2, <1>3 DEF HandleEvent

LEMMA StepKinds ==
  ASSUME [Next]_vars
  PROVE  KeepsList \/ (\E d \in Disks : Removes(d)) \/ Links
<1>1. CASE TestQuit \/ NoRequest
  BY <1>1 DEF TestQuit, NoRequest, KeepsList, Busy, list
<1>2. ASSUME NEW d \in Disks, RequestRemove(d)
      PROVE  Removes(d)
  BY <1>2 DEF RequestRemove, Handled, Removes, Busy
<1>3. ASSUME NEW d \in Disks, NEW m \in Media, AddFails(d, m)
      PROVE  Removes(d)
  BY <1>3 DEF AddFails, Handled, Removes, Busy
<1>4. ASSUME NEW d \in Disks, NEW m \in Media, AddMounts(d, m)
      PROVE  Removes(d)
  BY <1>4 DEF AddMounts, Removes
<1>5. CASE ReadNothing
  BY <1>5 DEF ReadNothing, Handled, KeepsList, Busy, list
<1>6. CASE StartDefault \/ SetDefault \/ NoDefault
  BY <1>6 DEF StartDefault, SetDefault, NoDefault, KeepsList, Busy, list
<1>7. CASE Link
  BY <1>7 DEF Link, Handled, Links
<1>8. CASE HandleEvent
  BY <1>8, HandleEventKeepsList
<1>9. CASE CountDown
  BY <1>9 DEF CountDown, Execute, MountFails, LeaveScript, Kexec, NoKernel,
              KeepsList, Busy, list
<1>10. CASE UNCHANGED vars
  BY <1>10 DEF vars, KeepsList, list
<1> QED
  BY <1>1, <1>2, <1>3, <1>4, <1>5, <1>6, <1>7, <1>8, <1>9, <1>10
  DEF Next, Serve

----------------------------------------------------------------------------
(* The list stays whole.                                                   *)

LEMMA InitList ==
  ASSUME Init
  PROVE  /\ ListOK /\ AddingOK
         /\ Len(devices) = Len(Builtin)
         /\ \A i \in 1 .. Len(Builtin) : Dev(i) = Builtin[i]
<1> DEFINE L == Len(Builtin)
<1>1. /\ Builtin \in Seq(STRING) /\ L \in Nat /\ L > 0
      /\ DOMAIN Builtin = 1 .. L
      /\ \A i, j \in 1 .. L : Builtin[i] = Builtin[j] => i = j
  BY MenuAssumption, EmptySeq, LenProperties
<1>2. /\ devices \in [1 .. L -> Nodes]
      /\ \A i, j \in 1 .. L : devices[i] = devices[j] => i = j
      /\ cur_device = devices[L]
  BY <1>1 DEF Init
<1>3. devices \in Seq(Nodes) /\ Len(devices) = L
  BY <1>1, <1>2, FunctionIsSeq
<1>4. heap = [n \in Nodes |->
                IF \E i \in 1 .. L : devices[i] = n
                THEN [device |-> Builtin[CHOOSE i \in 1 .. L : devices[i] = n],
                      conf   |-> Nothing]
                ELSE None]
  BY <1>1 DEF Init
<1>5. \A i \in 1 .. L : Builtin[i] \in Names
  BY <1>1 DEF Names
<1>6. \A i \in 1 .. L : heap[devices[i]] = [device |-> Builtin[i], conf |-> Nothing]
  <2>1. \A i \in 1 .. L : (CHOOSE k \in 1 .. L : devices[k] = devices[i]) = i
    BY <1>2
  <2> QED
    BY <1>2, <1>4, <2>1
<1>7. \A i \in 1 .. L : heap[devices[i]] \in Boxes /\ heap[devices[i]] # None
  BY <1>5, <1>6, BoxIsSomething
<1>8. ASSUME NEW i \in 1 .. L
      PROVE  Dev(i) = Builtin[i]
  <2>1. heap[devices[i]] = [device |-> Builtin[i], conf |-> Nothing]
    BY <1>6
  <2>2. heap[devices[i]].device = Builtin[i]
    BY <2>1
  <2> QED
    BY <2>2 DEF Dev
<1>9. \A n \in Nodes : heap[n] # None <=> \E i \in 1 .. L : devices[i] = n
  BY <1>4, <1>7
<1>10. heap \in [Nodes -> Boxes \cup {None}]
  <2>1. \A n \in Nodes : heap[n] \in Boxes \cup {None}
    BY <1>7, <1>9
  <2> QED
    BY <1>4, <2>1
<1>11. ListOK
  BY <1>1, <1>2, <1>3, <1>5, <1>8, <1>9, <1>10 DEF ListOK, Boxes
<1>12. AddingOK
  BY DEF Init, AddingOK
<1> QED
  BY <1>3, <1>8, <1>11, <1>12

LEMMA StepList ==
  ASSUME ListOK, AddingOK, [Next]_vars
  PROVE  ListOK' /\ AddingOK'
<1>1. CASE KeepsList
  BY <1>1 DEF KeepsList, list, ListOK, AddingOK, Dev, Busy
<1>2. ASSUME NEW d \in Disks, Removes(d)
      PROVE  ListOK' /\ AddingOK'
  <2>1. /\ ListOK'
        /\ \A j \in 1 .. Len(devices') : Dev(j)' # d
    BY <1>2, RemoveDeviceKeepsList DEF Removes
  <2>2. pc' \in Busy => adding' \in Disks \X Media /\ adding'[1] = d
    BY <1>2 DEF Removes
  <2> QED
    BY <2>1, <2>2 DEF AddingOK, Busy
<1>3. CASE Links
  <2>1. pc = "link" /\ pc' = "events"
    BY <1>3 DEF Links
  <2>2. /\ adding[1] \in Disks /\ adding[2] \in Media
        /\ \A i \in 1 .. Len(devices) : Dev(i) # adding[1]
    BY <2>1 DEF AddingOK
  <2>3. ListOK'
    BY <1>3, <2>2, AppendNodeKeepsList DEF Links
  <2> QED
    BY <2>1, <2>3 DEF AddingOK
<1> QED
  BY <1>1, <1>2, <1>3, StepKinds

THEOREM ListSafe == Spec => [](ListOK /\ AddingOK)
<1>1. Init => ListOK /\ AddingOK
  BY InitList
<1>2. ListOK /\ AddingOK /\ [Next]_vars => ListOK' /\ AddingOK'
  BY StepList
<1> QED
  BY <1>1, <1>2, PTL DEF Spec

\* The tail pointer of the device list is its last node and nothing else is
\* allocated, whatever disks come and go, and whatever is on them: the append
\* in bootdevice_add neither loses a device nor writes into a freed one.
THEOREM TailSafe == Spec => []TailIsLast
<1>1. ListOK => TailIsLast
  <2>1. SUFFICES ASSUME ListOK
                 PROVE  TailIsLast
    OBVIOUS
  <2>2. devices \in Seq(Nodes) /\ DOMAIN devices = 1 .. Len(devices)
        /\ devices # <<>>
    BY <2>1 DEF ListOK
  <2>3. {n \in Nodes : heap[n] # None} = {devices[i] : i \in DOMAIN devices}
    BY <2>1, <2>2 DEF ListOK
  <2> QED
    BY <2>1, <2>2, <2>3 DEF ListOK, TailIsLast
<1> QED
  BY <1>1, ListSafe, PTL

----------------------------------------------------------------------------
(* The list implements BootOrder.                                          *)

names == [i \in DOMAIN devices |-> Dev(i)]

LEMMA NamesIsSeq ==
  ASSUME ListOK
  PROVE  /\ names \in Seq(Disks \cup Names) /\ Len(names) = Len(devices)
         /\ DOMAIN names = 1 .. Len(devices)
         /\ \A i \in 1 .. Len(devices) : names[i] = Dev(i)
<1> DEFINE L == Len(devices)
<1>1. /\ devices \in Seq(Nodes) /\ L \in Nat /\ DOMAIN devices = 1 .. L
      /\ \A i \in 1 .. L : devices[i] \in Nodes
  BY DEF ListOK
<1>2. ASSUME NEW i \in 1 .. L
      PROVE  Dev(i) \in Disks \cup Names
  <2>1. heap[devices[i]] # None
    BY <1>1 DEF ListOK
  <2>2. heap[devices[i]] \in Boxes
    BY <1>1, <2>1 DEF ListOK, Boxes
  <2> QED
    BY <2>2 DEF Dev, Boxes
<1>3. names = [i \in 1 .. L |-> Dev(i)]
  BY <1>1 DEF names
<1>4. names \in [1 .. L -> Disks \cup Names]
  BY <1>2, <1>3
<1> QED
  BY <1>1, <1>3, <1>4, FunctionIsSeq

LEMMA KeepsOrder ==
  ASSUME ListOK, ListOK', UNCHANGED list
  PROVE  UNCHANGED names
BY DEF list, names, Dev

LEMMA RemovesOrder ==
  ASSUME ListOK, ListOK', NEW d \in Disks, NEW dead, RemoveDevice(d, dead)
  PROVE  Order!Remove(d) \/ UNCHANGED names
<1> DEFINE L == Len(devices)
<1>0. L \in Nat /\ DOMAIN devices = 1 .. L
  BY DEF ListOK
<1>1. CASE UNCHANGED list
  BY <1>1, KeepsOrder
<1>2. ASSUME NEW i \in 1 .. L, Dev(i) = d, RemoveNode(i)
      PROVE  Order!Remove(d)
  <2>1. /\ Len(devices') = L - 1
        /\ \A j \in 1 .. Len(devices') :
             Dev(j)' = IF j < i THEN Dev(j) ELSE Dev(j + 1)
    BY <1>2, RemoveNodeKeepsList
  <2>2. devices' \in Seq(Nodes) /\ DOMAIN devices' = 1 .. L - 1
    BY <2>1 DEF ListOK
  <2>3. names' = [j \in 1 .. L - 1 |-> IF j < i THEN Dev(j) ELSE Dev(j + 1)]
    BY <2>1, <2>2 DEF names
  <2>4. /\ Len(names) = L /\ names[i] = d
        /\ \A j \in 1 .. L : names[j] = Dev(j)
    BY <1>2, NamesIsSeq
  <2>5. \A j \in 1 .. L - 1 :
          (IF j < i THEN Dev(j) ELSE Dev(j + 1))
            = IF j < i THEN names[j] ELSE names[j + 1]
    BY <1>0, <2>4
  <2>6. names' = Order!Without(names, i)
    BY <2>3, <2>4, <2>5 DEF Order!Without
  <2> QED
    BY <2>4, <2>6 DEF Order!Remove, names
<1> QED
  BY <1>0, <1>1, <1>2 DEF RemoveDevice

LEMMA LinksOrder ==
  ASSUME ListOK, ListOK', AddingOK, Links
  PROVE  \E d \in Disks : Order!Add(d)
<1> DEFINE L == Len(devices)
<1>1. PICK n \in Nodes : AppendNode(adding[1], adding[2], n)
  BY DEF Links
<1>2. /\ adding[1] \in Disks /\ adding[2] \in Media
      /\ \A i \in 1 .. L : Dev(i) # adding[1]
  BY DEF AddingOK, Links
<1>3. /\ Len(devices') = L + 1
      /\ \A j \in 1 .. L : Dev(j)' = Dev(j)
      /\ Dev(Len(devices))' = adding[1]
  BY <1>1, <1>2, AppendNodeKeepsList
<1>4. L \in Nat /\ DOMAIN devices' = 1 .. L + 1
  BY <1>3 DEF ListOK
<1>5. names' = [j \in 1 .. L + 1 |-> IF j <= L THEN Dev(j) ELSE adding[1]]
  <2>1. ASSUME NEW j \in 1 .. L + 1
        PROVE  Dev(j)' = IF j <= L THEN Dev(j) ELSE adding[1]
    <3>1. CASE j <= L
      BY <1>3, <1>4, <3>1
    <3>2. CASE j = L + 1
      BY <1>3, <1>4, <3>2 DEF Dev
    <3> QED
      BY <1>4, <3>1, <3>2
  <2> QED
    BY <1>4, <2>1 DEF names
<1>6. /\ names \in Seq(Disks \cup Names) /\ Len(names) = L
      /\ \A j \in 1 .. L : names[j] = Dev(j)
  BY NamesIsSeq
<1>7. names' = Append(names, adding[1])
  BY <1>4, <1>5, <1>6
<1> QED
  BY <1>2, <1>6, <1>7 DEF Order!Add, names

\* The device list shows every device once, in the order of their last
\* arrival: each step of ps3boot adds one at the end, takes one out, or leaves
\* the order alone.
THEOREM KeepsTheOrder == Spec => OrderSpec
<1>1. Init => Order!Init
  <2>1. SUFFICES ASSUME Init
                 PROVE  names = Builtin
    BY DEF Order!Init, names
  <2>2. /\ DOMAIN names = 1 .. Len(Builtin)
        /\ \A i \in 1 .. Len(Builtin) : names[i] = Builtin[i]
    BY <2>1, InitList, NamesIsSeq
  <2>3. DOMAIN Builtin = 1 .. Len(Builtin) /\ Builtin \in Seq(STRING)
    BY MenuAssumption
  <2>4. /\ names = [i \in DOMAIN names |-> names[i]]
        /\ Builtin = [i \in DOMAIN Builtin |-> Builtin[i]]
    BY <2>3 DEF names
  <2> QED
    BY <2>2, <2>3, <2>4
<1>2. ListOK /\ ListOK' /\ AddingOK /\ [Next]_vars => [Order!Next]_names
  <2>1. SUFFICES ASSUME ListOK, ListOK', AddingOK, [Next]_vars
                 PROVE  [Order!Next]_names
    OBVIOUS
  <2>2. CASE KeepsList
    BY <2>1, <2>2, KeepsOrder DEF KeepsList
  <2>3. CASE \E d \in Disks : Removes(d)
    BY <2>1, <2>3, RemovesOrder DEF Removes, Order!Next
  <2>4. CASE Links
    BY <2>1, <2>4, LinksOrder DEF Order!Next
  <2> QED
    BY <2>1, <2>2, <2>3, <2>4, StepKinds
<1> QED
  BY <1>1, <1>2, ListSafe, PTL DEF Spec, OrderSpec, Order!Spec, names

----------------------------------------------------------------------------
(* Mounts are undone.                                                      *)

\* While a disk is being added it is the only one mounted.
MountsOK ==
  /\ MountsUndone
  /\ pc \in Busy /\ ~ f_quit => mounted \subseteq {adding[1]}

\* execute_boot_conf, called with b: where the program goes on, and what it has
\* mounted then.
LEMMA ExecuteMounts ==
  ASSUME NEW b, NEW next, Execute(b, next)
  PROVE  /\ pc' = next \/ pc' = "gone"
         /\ \/ mounted' = mounted /\ f_quit' = f_quit
            \/ f_quit' = TRUE /\ mounted \subseteq mounted'
BY DEF Execute, MountFails, LeaveScript, Kexec, NoKernel

LEMMA StepMounts ==
  ASSUME MountsOK, [Next]_vars
  PROVE  MountsOK'
<1> USE DEF MountsOK, MountsUndone, Busy
<1>1. CASE TestQuit \/ NoRequest
  BY <1>1 DEF TestQuit, NoRequest
<1>2. ASSUME NEW d \in Disks, NEW m \in Media, AddFails(d, m)
      PROVE  MountsOK'
  BY <1>2 DEF AddFails, Handled
<1>3. ASSUME NEW d \in Disks, NEW m \in Media, AddMounts(d, m)
      PROVE  MountsOK'
  BY <1>3 DEF AddMounts
<1>4. CASE ReadNothing
  BY <1>4 DEF ReadNothing, Handled
<1>5. CASE StartDefault \/ SetDefault \/ NoDefault
  BY <1>5 DEF StartDefault, SetDefault, NoDefault
<1>6. CASE Link
  BY <1>6 DEF Link, Handled
<1>7. CASE HandleEvent
  <2>1. CASE SelectPrev \/ SelectNext \/ ConfigPrev \/ ConfigNext \/ OtherKey
    BY <2>1 DEF SelectPrev, SelectNext, ConfigPrev, ConfigNext, OtherKey, Select
  <2>2. CASE NoEvent \/ Escape \/ QuitEvent \/ StartEdit \/ CommitEdit
    BY <2>2 DEF NoEvent, Escape, QuitEvent, StartEdit, CommitEdit
  <2>3. CASE Boot
    <3>1. PICK b : Execute(b, "top")
      BY <2>3 DEF Boot
    <3>2. /\ pc = "events" /\ (pc' = "top" \/ pc' = "gone")
          /\ \/ mounted' = mounted /\ f_quit' = f_quit
             \/ f_quit' = TRUE
      BY <2>3, <3>1, ExecuteMounts DEF Boot
    <3> QED
      BY <3>2
  <2> QED
    BY <1>7, <2>1, <2>2, <2>3 DEF HandleEvent
<1>8. CASE CountDown
  <2>1. CASE Execute(default, pc) /\ adding' = adding
    BY <2>1, ExecuteMounts
  <2> QED
    BY <1>8, <2>1 DEF CountDown
<1>9. CASE UNCHANGED vars
  BY <1>9 DEF vars
<1>10. CASE \E d \in Disks : RequestRemove(d)
  BY <1>10 DEF RequestRemove, Handled
<1> QED
  BY <1>1, <1>2, <1>3, <1>4, <1>5, <1>6, <1>7, <1>8, <1>9, <1>10
  DEF Next, Serve

LEMMA MountsOKAlways == Spec => []MountsOK
<1>1. Init => MountsOK
  BY DEF Init, MountsOK, MountsUndone, Busy
<1> QED
  BY <1>1, StepMounts, PTL DEF Spec

\* Whichever of mount, the readers, kexec and umount fails, and wherever the
\* timer handler interrupts: nothing is mounted when ps3boot looks at its next
\* request, and the disk it is adding is, unless it is about to quit.
THEOREM MountsSafe == Spec => []MountsUndone
<1>1. MountsOK => MountsUndone
  BY DEF MountsOK
<1> QED
  BY <1>1, MountsOKAlways, PTL

----------------------------------------------------------------------------
(* Types, and what is highlighted.                                         *)

Waiting == {"top", "serv", "events"}

\* A built-in device has no entries.
BuiltinOK ==
  \A n \in Nodes :
    heap[n] # None /\ heap[n].device \in Names => heap[n].conf = Nothing

DefaultIsAuto == pc = "default" => adding[2].auto

\* BootsHighlighted, at every point of the main loop between two requests.
ShownOK ==
  pc \in Waiting /\ selected_device + 1 \in DOMAIN devices =>
    IF Target = 0 THEN current_config_ptr = None
    ELSE current_config_ptr = <<devices[selected_device + 1], Target>>

Boots == [DOMAIN NoBoot -> Entries \cup {None}]

\* What is known of the arguments of execute_boot_conf.
LEMMA BootsAreRecords ==
  Boots = [devname : Entries \cup {None}, kernel : Entries \cup {None},
           initrd : Entries \cup {None}, cmdline : Entries \cup {None}]
BY DEF Boots, NoBoot

LEMMA BootOfType ==
  ASSUME NEW d \in Disks, NEW m, NEW k \in 1 .. MaxEntries
  PROVE  /\ BootOf(d, m, k) \in Boots
         /\ BootOf(d, m, k).devname = <<d, k>>
<1>1. <<d, k>> \in Entries
  BY DEF Entries
<1> QED
  BY <1>1, BootsAreRecords DEF BootOf

LEMMA MediaFacts ==
  ASSUME NEW m \in Media \cup {Nothing}
  PROVE  /\ m.n \in 0 .. MaxEntries /\ m.shown \in 0 .. m.n
         /\ m.auto \in BOOLEAN
         /\ m.auto => m.shown \in 1 .. MaxEntries
         /\ m.timeout \in 0 .. MaxTimeout
<1>1. /\ Nothing.n = 0 /\ Nothing.shown = 0 /\ Nothing.timeout = 0
      /\ ~ Nothing.auto /\ Nothing.auto \in BOOLEAN
  BY DEF Nothing
<1>2. CASE m = Nothing
  <2>1. m.n = 0 /\ m.shown = 0 /\ m.timeout = 0
    BY <1>1, <1>2
  <2>2. ~ m.auto /\ m.auto \in BOOLEAN
    BY <1>1, <1>2
  <2>3. MaxEntries \in Nat /\ MaxTimeout \in Nat
    BY MenuAssumption
  <2> QED
    BY <2>1, <2>2, <2>3
<1>3. CASE m \in Media
  <2>1. m \in MediaType
    BY <1>3, MenuAssumption
  <2>2. /\ m.n \in 0 .. MaxEntries /\ m.shown \in 0 .. MaxEntries
        /\ m.auto \in BOOLEAN /\ m.timeout \in 0 .. MaxTimeout
        /\ m.shown <= m.n /\ (m.auto => m.shown > 0)
    BY <2>1 DEF MediaType
  <2> QED
    BY <2>2, MenuAssumption
<1> QED
  BY <1>2, <1>3

LEMMA ExecuteType ==
  ASSUME NEW b \in Boots, NEW next, Execute(b, next),
         mounted \subseteq Disks, f_quit \in BOOLEAN,
         request # None => request \in Boots
  PROVE  /\ mounted' \subseteq Disks /\ f_quit' \in BOOLEAN
         /\ request' # None => request' \in Boots
<1>1. b.devname \in Entries \cup {None}
  BY BootsAreRecords
<1>2. Mountable(b) => b.devname[1] \in Disks
  BY <1>1 DEF Mountable, Entries
<1> QED
  BY <1>2 DEF Execute, MountFails, LeaveScript, Kexec, NoKernel

----------------------------------------------------------------------------
(* Pointers to entries, and what the list does to them.                    *)

Alive(h, ptr) ==
  \/ ptr \in {None, Stale}
  \/ /\ ptr[1] \in Nodes /\ h[ptr[1]] # None
     /\ ptr[2] \in 1 .. h[ptr[1]].conf.n

\* The list at any time: what the properties of pointers need of ListOK.
HeapOK(h, s) ==
  /\ h \in [Nodes -> Boxes \cup {None}]
  /\ s \in Seq(Nodes)
  /\ \A i \in DOMAIN s : h[s[i]] \in Boxes /\ h[s[i]] # None
  /\ \A n \in Nodes : h[n] # None /\ h[n].device \in Names => h[n].conf = Nothing

LEMMA HeapFacts ==
  ASSUME ListOK, BuiltinOK
  PROVE  HeapOK(heap, devices)
BY DEF ListOK, BuiltinOK, HeapOK, Boxes

\* Freed is what becomes of a pointer when RemoveDevice has freed dead.
LEMMA RemovePointers ==
  ASSUME ListOK, BuiltinOK, NEW d \in Disks, NEW dead, RemoveDevice(d, dead)
  PROVE  /\ BuiltinOK'
         /\ \A ptr : Alive(heap, ptr) => Alive(heap', Freed(ptr, dead))
<1>1. devices \in Seq(Nodes) /\ heap \in [Nodes -> Boxes \cup {None}]
  BY DEF ListOK, Boxes
<1>2. /\ \A n \in Nodes : heap'[n] = IF n = dead THEN None ELSE heap[n]
      /\ dead \in Nodes \/ dead = None
  <2>1. CASE UNCHANGED list /\ dead = None
    BY <2>1, MenuAssumption DEF list
  <2>2. ASSUME NEW i \in DOMAIN devices, RemoveNode(i), dead = devices[i]
        PROVE  /\ \A n \in Nodes : heap'[n] = IF n = dead THEN None ELSE heap[n]
               /\ dead \in Nodes
    BY <1>1, <2>2 DEF RemoveNode
  <2> QED
    BY <2>1, <2>2 DEF RemoveDevice
<1>3. BuiltinOK'
  BY <1>2 DEF BuiltinOK
<1>4. ASSUME NEW ptr, Alive(heap, ptr)
      PROVE  Alive(heap', Freed(ptr, dead))
  <2>1. CASE Freed(ptr, dead) = Stale \/ ptr = None
    BY <2>1 DEF Alive, Freed
  <2>2. CASE Freed(ptr, dead) = ptr /\ ptr \notin {None, Stale} /\ ptr[1] # dead
    BY <1>2, <1>4, <2>2 DEF Alive
  <2>3. CASE Freed(ptr, dead) = ptr /\ ptr = Stale
    BY <2>3 DEF Alive
  <2> QED
    BY <2>1, <2>2, <2>3 DEF Freed
<1> QED
  BY <1>3, <1>4

LEMMA AppendPointers ==
  ASSUME ListOK, BuiltinOK, NEW d \in Disks, NEW c \in Media, NEW n \in Nodes,
         AppendNode(d, c, n)
  PROVE  /\ BuiltinOK'
         /\ \A ptr : Alive(heap, ptr) => Alive(heap', ptr)
<1>1. heap \in [Nodes -> Boxes \cup {None}]
  BY DEF ListOK, Boxes
<1>2. heap[n] = None /\ heap' = [heap EXCEPT ![n] = [device |-> d, conf |-> c]]
  BY DEF AppendNode
<1>3. d \notin Names
  BY MenuAssumption
<1>4. heap'[n].device = d /\ \A m \in Nodes \ {n} : heap'[m] = heap[m]
  BY <1>1, <1>2
<1>5. BuiltinOK'
  BY <1>3, <1>4 DEF BuiltinOK
<1>6. \A ptr : Alive(heap, ptr) => Alive(heap', ptr)
  BY <1>2, <1>4 DEF Alive
<1> QED
  BY <1>5, <1>6

\* A pointer that is alive stays what it is when nothing is freed.
LEMMA FreedNothing ==
  ASSUME NEW h, NEW ptr, Alive(h, ptr)
  PROVE  Alive(h, Freed(ptr, None))
<1>1. Freed(ptr, None) = ptr \/ Freed(ptr, None) = Stale
  BY DEF Freed
<1> QED
  BY <1>1 DEF Alive

\* bootdevices_draw_devices: whatever was selected, what is highlighted now is
\* what RETURN would boot.
LEMMA RedrawShows ==
  ASSUME NEW sd \in Nat, NEW sc \in -1 .. MaxEntries, NEW ptr,
         ListOK', BuiltinOK', Alive(heap', ptr), Redraw(sd, sc, ptr)
  PROVE  /\ selected_device' \in Nat
         /\ selected_config' \in -1 .. MaxEntries
         /\ Alive(heap', current_config_ptr')
         /\ ShownOK'
<1>1. selected_device' = sd
  BY DEF Redraw
<1>2. CASE sd + 1 \notin DOMAIN devices'
  BY <1>1, <1>2 DEF Redraw, ShownOK
<1>3. CASE sd + 1 \in DOMAIN devices'
  <2> DEFINE n == devices'[sd + 1]
             c == heap'[n].conf
             k == Highlight(heap', devices', sd, sc)
  <2>1. /\ n \in Nodes /\ heap'[n] # None /\ heap'[n] \in Boxes
        /\ c \in Media \cup {Nothing}
    BY <1>3 DEF ListOK, Boxes
  <2>2. c.n \in 0 .. MaxEntries /\ c.shown \in 0 .. c.n
    BY <2>1, MediaFacts
  <2>3. /\ k = IF (IF sc < 0 THEN c.shown ELSE sc + 1) \in 1 .. c.n
               THEN (IF sc < 0 THEN c.shown ELSE sc + 1) ELSE 0
    BY DEF Highlight
  <2>4. /\ current_config_ptr' = IF k = 0 THEN None ELSE <<n, k>>
        /\ selected_config' = IF sc < 0 /\ k > 0 THEN k - 1 ELSE sc
    BY <1>3 DEF Redraw
  <2>5. Target' = IF selected_config' + 1 \in 1 .. c.n
                  THEN selected_config' + 1 ELSE 0
    BY <1>1, <1>3 DEF Target, EntryCount
  <2> HIDE DEF n, c, k
  <2>6. MaxEntries \in Nat
    BY MenuAssumption
  <2>7. k \in 0 .. c.n /\ c.n \in Nat /\ c.n <= MaxEntries
    BY <2>2, <2>3, <2>6
  <2>8. selected_config' \in -1 .. MaxEntries /\ Target' = k
    BY <2>2, <2>3, <2>4, <2>5, <2>6, <2>7
  <2>9. Alive(heap', current_config_ptr')
    BY <2>1, <2>4, <2>7 DEF Alive, c
  <2>10. ShownOK'
    <3>1. selected_device' + 1 = sd + 1
      BY <1>1
    <3> QED
      BY <2>4, <2>8, <3>1 DEF ShownOK, n
  <2> QED
    BY <1>1, <2>8, <2>9, <2>10
<1> QED
  BY <1>2, <1>3

----------------------------------------------------------------------------
(* The steps, but for what they do to the list.                            *)

FlagsOK ==
  /\ pc \in Phases
  /\ adding[1] \in Disks \cup {None} /\ adding[2] \in Media \cup {Nothing}
  /\ default_timeout \in -1 .. MaxTimeout
  /\ default \in Boots
  /\ disable_autoboot \in BOOLEAN /\ f_edit \in BOOLEAN /\ f_quit \in BOOLEAN
  /\ mounted \subseteq Disks
  /\ request # None => request \in Boots

ViewOK ==
  /\ selected_device \in Nat
  /\ selected_config \in -1 .. MaxEntries
  /\ Alive(heap, current_config_ptr) /\ Alive(heap, tmp_bconf)

LEMMA TypeParts ==
  ASSUME ListOK
  PROVE  TypeOK <=> FlagsOK /\ ViewOK
<1>1. /\ \A n \in Nodes :
           heap[n] # None => /\ heap[n].device \in Disks \cup Names
                             /\ heap[n].conf \in Media \cup {Nothing}
      /\ devices \in [1 .. Len(devices) -> Nodes]
      /\ cur_device \in Nodes
  BY DEF ListOK
<1> QED
  BY <1>1 DEF TypeOK, FlagsOK, ViewOK, Live, Alive, Boots

\* What RETURN boots is an entry of a disk.
LEMMA TargetIsEntry ==
  ASSUME ListOK, BuiltinOK, ViewOK, Target # 0
  PROVE  /\ selected_device + 1 \in DOMAIN devices
         /\ Dev(selected_device + 1) \in Disks
         /\ heap[devices[selected_device + 1]].conf \in Media
         /\ Target \in 1 .. MaxEntries
<1> DEFINE n == devices[selected_device + 1]
<1>1. MaxEntries \in Nat
  BY MenuAssumption
<1>2. CASE selected_device + 1 \in DOMAIN devices
  <2>1. n \in Nodes /\ heap[n] # None /\ heap[n] \in Boxes
    BY <1>2 DEF ListOK, Boxes
  <2>2. heap[n].conf.n \in 0 .. MaxEntries
    BY <2>1, MediaFacts DEF Boxes
  <2>3. Target = selected_config + 1 /\ Target \in 1 .. heap[n].conf.n
    BY <1>2 DEF Target, EntryCount
  <2>4. heap[n].conf # Nothing
    BY <2>3 DEF Nothing
  <2>5. Dev(selected_device + 1) \in Disks
    BY <2>1, <2>4 DEF BuiltinOK, Boxes, Dev
  <2>6. Target \in 1 .. MaxEntries
    BY <1>1, <2>2, <2>3
  <2> QED
    BY <1>2, <2>1, <2>4, <2>5, <2>6 DEF Boxes
<1>3. CASE selected_device + 1 \notin DOMAIN devices
  BY <1>3 DEF Target, EntryCount, ViewOK
<1> QED
  BY <1>2, <1>3

LEMMA StepFlags ==
  ASSUME ListOK, AddingOK, BuiltinOK, ViewOK, FlagsOK, DefaultIsAuto, [Next]_vars
  PROVE  FlagsOK' /\ DefaultIsAuto'
<1> USE DEF FlagsOK, DefaultIsAuto, Phases
<1>0. Nothing \in Media \cup {Nothing} /\ None \in Disks \cup {None}
  OBVIOUS
<1>1. CASE TestQuit \/ NoRequest
  BY <1>1 DEF TestQuit, NoRequest, auto, edit
<1>2. ASSUME NEW d \in Disks, RequestRemove(d)
      PROVE  FlagsOK' /\ DefaultIsAuto'
  BY <1>2 DEF RequestRemove, Handled, auto
<1>3. ASSUME NEW d \in Disks, NEW m \in Media, AddFails(d, m)
      PROVE  FlagsOK' /\ DefaultIsAuto'
  BY <1>3 DEF AddFails, Handled, auto
<1>4. ASSUME NEW d \in Disks, NEW m \in Media, AddMounts(d, m)
      PROVE  FlagsOK' /\ DefaultIsAuto'
  BY <1>4 DEF AddMounts, auto
<1>5. CASE ReadNothing
  BY <1>0, <1>5 DEF ReadNothing, Handled, auto
<1>6. CASE StartDefault
  <2>1. adding[2].timeout \in 0 .. MaxTimeout
    BY MediaFacts
  <2> QED
    BY <1>6, <2>1 DEF StartDefault, edit
<1>7. CASE SetDefault
  <2> DEFINE b == BootOf(adding[1], adding[2], adding[2].shown)
  <2>1. adding[1] \in Disks /\ adding[2].shown \in 1 .. MaxEntries
    BY <1>7, MediaFacts DEF SetDefault, AddingOK
  <2>2. b \in Boots
    BY <2>1, BootOfType
  <2>3. default' = [f \in DOMAIN b |-> IF b[f] # None THEN b[f] ELSE default[f]]
    BY <1>7 DEF SetDefault
  <2> HIDE DEF b
  <2>4. default' \in Boots
    BY <2>2, <2>3 DEF Boots
  <2> QED
    BY <1>7, <2>4 DEF SetDefault, edit
<1>8. CASE NoDefault
  BY <1>8 DEF NoDefault, auto, edit
<1>9. CASE Link
  BY <1>0, <1>9 DEF Link, Handled, auto
<1>10. CASE HandleEvent
  <2>1. CASE SelectPrev \/ SelectNext \/ ConfigPrev \/ ConfigNext \/ OtherKey
    BY <2>1 DEF SelectPrev, SelectNext, ConfigPrev, ConfigNext, OtherKey, Select,
                auto, edit
  <2>2. CASE NoEvent \/ Escape \/ QuitEvent \/ StartEdit \/ CommitEdit
    BY <2>2 DEF NoEvent, Escape, QuitEvent, StartEdit, CommitEdit, auto, edit
  <2>3. CASE Boot
    <3> DEFINE i == selected_device + 1
               b == BootOf(Dev(i), heap[devices[i]].conf, Target)
    <3>1. b \in Boots
      BY <2>3, TargetIsEntry, BootOfType DEF Boot
    <3>2. Execute(b, "top")
      BY <2>3 DEF Boot
    <3> HIDE DEF b
    <3>3. /\ mounted' \subseteq Disks /\ f_quit' \in BOOLEAN
          /\ request' # None => request' \in Boots
          /\ pc' = "top" \/ pc' = "gone"
      BY <3>1, <3>2, ExecuteType, ExecuteMounts
    <3>4. /\ disable_autoboot' = TRUE
          /\ UNCHANGED <<adding, default_timeout, default, f_edit>>
      BY <2>3 DEF Boot, auto, edit
    <3> QED
      BY <3>3, <3>4
  <2> QED
    BY <1>10, <2>1, <2>2, <2>3 DEF HandleEvent
<1>11. CASE CountDown
  <2>1. /\ default_timeout' \in -1 .. MaxTimeout
        /\ UNCHANGED <<adding, default, disable_autoboot, f_edit>>
    BY <1>11, MenuAssumption DEF CountDown, edit
  <2>2. CASE Execute(default, pc)
    <3>1. /\ mounted' \subseteq Disks /\ f_quit' \in BOOLEAN
          /\ request' # None => request' \in Boots
          /\ pc' = pc \/ pc' = "gone"
      BY <2>2, ExecuteType, ExecuteMounts
    <3> QED
      BY <2>1, <3>1
  <2>3. CASE UNCHANGED <<pc, mounted, request, f_quit>>
    BY <2>1, <2>3
  <2> QED
    BY <1>11, <2>2, <2>3 DEF CountDown
<1>12. CASE UNCHANGED vars
  BY <1>12 DEF vars, auto, edit
<1> QED
  BY <1>1, <1>2, <1>3, <1>4, <1>5, <1>6, <1>7, <1>8, <1>9, <1>10, <1>11, <1>12
  DEF Next, Serve

\* What a step does to the selection and to the entry that is edited: nothing;
\* it draws the list anew; or it removes a device, and draws the list anew
\* unless it goes on to add one; or it links the one that is being added.
Still ==
  /\ UNCHANGED <<list, view>>
  /\ UNCHANGED edit \/ tmp_bconf' = current_config_ptr
  /\ (pc' \in Waiting => pc \in Waiting) /\ (pc' \in Busy => pc \in Busy)

Redraws ==
  /\ UNCHANGED <<list, tmp_bconf>> /\ (f_edit' => f_edit)
  /\ pc \in Waiting /\ pc' \notin Busy
  /\ \E sd \in Nat, sc \in -1 .. MaxEntries :
       /\ sd <= selected_device \/ sd < Len(devices)
       /\ Redraw(sd, sc, current_config_ptr)

DropsPointers(d) ==
  pc = "serv" /\ \E dead :
    /\ RemoveDevice(d, dead)
    /\ tmp_bconf' = Freed(tmp_bconf, dead)
    /\ \/ /\ Redraw(selected_device, selected_config, Freed(current_config_ptr, dead))
          /\ ~ f_edit'
          /\ \/ "remove" \in Requests
             \/ \E m \in Media : m.read = "no_mount"
             \/ d \in mounted
       \/ /\ current_config_ptr' = Freed(current_config_ptr, dead)
          /\ UNCHANGED <<selected_device, selected_config>>
          /\ pc' = "mounted"

EndsAdding ==
  /\ pc \in Busy
  /\ \/ UNCHANGED list /\ adding[2].read = "no_config"
     \/ pc = "link" /\ \E n \in Nodes : AppendNode(adding[1], adding[2], n)
  /\ Handled(None)

LEMMA HandleEventView ==
  ASSUME HandleEvent, ListOK, BuiltinOK, ViewOK
  PROVE  Still \/ Redraws
<1>0. /\ MaxEntries \in Nat /\ Len(devices) \in Nat /\ Len(devices) > 0
      /\ selected_device \in Nat /\ selected_config \in -1 .. MaxEntries
  BY MenuAssumption DEF ListOK, ViewOK
<1>1. EntryCount(selected_device) \in 0 .. MaxEntries
  <2>1. CASE selected_device + 1 \in DOMAIN devices
    <3>1. heap[devices[selected_device + 1]] \in Boxes
      BY <2>1, HeapFacts DEF HeapOK
    <3> QED
      BY <2>1, <3>1, MediaFacts DEF EntryCount, Boxes
  <2>2. CASE selected_device + 1 \notin DOMAIN devices
    BY <1>0, <2>2 DEF EntryCount
  <2> QED
    BY <2>1, <2>2
<1>2. ASSUME NEW sd \in Nat, NEW sc \in -1 .. MaxEntries, Select(sd, sc),
             sd <= selected_device \/ sd < Len(devices)
      PROVE  Redraws
  BY <1>2 DEF Select, Redraws, Waiting, Busy, list, edit
<1>3. CASE SelectPrev
  <2>1. /\ AtLeast0(selected_device - 1) \in Nat
        /\ AtLeast0(selected_device - 1) <= selected_device
    BY <1>0 DEF AtLeast0
  <2> QED
    BY <1>0, <1>2, <1>3, <2>1 DEF SelectPrev
<1>4. CASE SelectNext
  <2>1. /\ AtMost(selected_device + 1, Len(devices) - 1) \in Nat
        /\ AtMost(selected_device + 1, Len(devices) - 1) < Len(devices)
    BY <1>0 DEF AtMost
  <2> QED
    BY <1>0, <1>2, <1>4, <2>1 DEF SelectNext
<1>5. CASE ConfigPrev
  <2>1. AtLeast0(selected_config - 1) \in -1 .. MaxEntries
    BY <1>0 DEF AtLeast0
  <2> QED
    BY <1>0, <1>2, <1>5, <2>1 DEF ConfigPrev
<1>6. CASE ConfigNext
  <2>1. AtMost(selected_config + 1, EntryCount(selected_device) - 1)
          \in -1 .. MaxEntries
    BY <1>0, <1>1 DEF AtMost
  <2> QED
    BY <1>0, <1>2, <1>6, <2>1 DEF ConfigNext
<1>7. CASE OtherKey
  BY <1>0, <1>2, <1>7 DEF OtherKey
<1>8. CASE Boot \/ Escape \/ CommitEdit
  <2>1. UNCHANGED <<list, tmp_bconf>> /\ (f_edit' => f_edit)
    BY <1>8 DEF Boot, Escape, CommitEdit, list, edit
  <2>2. /\ pc = "events" /\ (pc' = "top" \/ pc' = "gone")
        /\ Redraw(selected_device, selected_config, current_config_ptr)
    BY <1>8, ExecuteMounts DEF Boot, Escape, CommitEdit
  <2> QED
    BY <1>0, <2>1, <2>2 DEF Redraws, Waiting, Busy
<1>9. CASE NoEvent \/ QuitEvent \/ StartEdit
  BY <1>9 DEF NoEvent, QuitEvent, StartEdit, Still, Waiting, Busy, edit
<1> QED
  BY <1>3, <1>4, <1>5, <1>6, <1>7, <1>8, <1>9 DEF HandleEvent

LEMMA ViewKinds ==
  ASSUME [Next]_vars, ListOK, BuiltinOK, ViewOK
  PROVE  Still \/ Redraws \/ (\E d \in Disks : DropsPointers(d)) \/ EndsAdding
<1>1. CASE TestQuit \/ NoRequest
  BY <1>1 DEF TestQuit, NoRequest, Still, Waiting, Busy, edit
<1>2. ASSUME NEW d \in Disks, RequestRemove(d)
      PROVE  DropsPointers(d)
  BY <1>2 DEF RequestRemove, Handled, DropsPointers
<1>3. ASSUME NEW d \in Disks, NEW m \in Media, AddFails(d, m)
      PROVE  DropsPointers(d)
  BY <1>3 DEF AddFails, Handled, DropsPointers
<1>4. ASSUME NEW d \in Disks, NEW m \in Media, AddMounts(d, m)
      PROVE  DropsPointers(d)
  BY <1>4 DEF AddMounts, DropsPointers
<1>5. CASE ReadNothing
  BY <1>5 DEF ReadNothing, EndsAdding, Busy
<1>6. CASE StartDefault \/ SetDefault \/ NoDefault
  BY <1>6 DEF StartDefault, SetDefault, NoDefault, Still, Waiting, Busy, edit
<1>7. CASE Link
  BY <1>7 DEF Link, EndsAdding, Busy
<1>8. CASE HandleEvent
  BY <1>8, HandleEventView
<1>9. CASE CountDown
  <2>1. pc' = pc \/ pc' = "gone"
    BY <1>9, ExecuteMounts DEF CountDown
  <2> QED
    BY <1>9, <2>1 DEF CountDown, Still, Waiting, Busy, edit
<1>10. CASE UNCHANGED vars
  BY <1>10 DEF vars, Still, edit
<1> QED
  BY <1>1, <1>2, <1>3, <1>4, <1>5, <1>6, <1>7, <1>8, <1>9, <1>10
  DEF Next, Serve

LEMMA StepView ==
  ASSUME ListOK, AddingOK, ListOK', BuiltinOK, ViewOK, ShownOK, [Next]_vars
  PROVE  BuiltinOK' /\ ViewOK' /\ ShownOK'
<1>0. /\ selected_device \in Nat /\ selected_config \in -1 .. MaxEntries
      /\ Alive(heap, current_config_ptr) /\ Alive(heap, tmp_bconf)
  BY DEF ViewOK
<1>1. CASE Still
  <2>1. Alive(heap, tmp_bconf')
    BY <1>0, <1>1 DEF Still, edit
  <2> QED
    BY <1>0, <1>1, <2>1 DEF Still, BuiltinOK, ViewOK, ShownOK, Target, EntryCount,
                            list, view
<1>2. CASE Redraws
  <2>1. BuiltinOK' /\ heap' = heap /\ tmp_bconf' = tmp_bconf
    BY <1>2 DEF Redraws, BuiltinOK, list
  <2>2. Alive(heap', current_config_ptr) /\ Alive(heap', tmp_bconf')
    BY <1>0, <2>1
  <2> QED
    BY <1>2, <2>1, <2>2, RedrawShows DEF Redraws, ViewOK
<1>3. ASSUME NEW d \in Disks, DropsPointers(d)
      PROVE  BuiltinOK' /\ ViewOK' /\ ShownOK'
  <2>1. PICK dead : /\ RemoveDevice(d, dead)
                    /\ tmp_bconf' = Freed(tmp_bconf, dead)
                    /\ \/ Redraw(selected_device, selected_config,
                                 Freed(current_config_ptr, dead))
                       \/ /\ current_config_ptr' = Freed(current_config_ptr, dead)
                          /\ UNCHANGED <<selected_device, selected_config>>
                          /\ pc' = "mounted"
    BY <1>3 DEF DropsPointers
  <2>2. /\ BuiltinOK' /\ Alive(heap', tmp_bconf')
        /\ Alive(heap', Freed(current_config_ptr, dead))
    BY <1>0, <2>1, RemovePointers
  <2>3. CASE pc' = "mounted" /\ UNCHANGED <<selected_device, selected_config>>
             /\ current_config_ptr' = Freed(current_config_ptr, dead)
    BY <1>0, <2>2, <2>3 DEF ViewOK, ShownOK, Waiting
  <2> QED
    BY <1>0, <2>1, <2>2, <2>3, RedrawShows DEF ViewOK
<1>4. CASE EndsAdding
  <2>1. BuiltinOK' /\ \A ptr : Alive(heap, ptr) => Alive(heap', ptr)
    <3>1. CASE UNCHANGED list
      BY <3>1 DEF list, BuiltinOK
    <3>2. CASE pc = "link" /\ \E n \in Nodes : AppendNode(adding[1], adding[2], n)
      BY <3>2, AppendPointers DEF AddingOK
    <3> QED
      BY <1>4, <3>1, <3>2 DEF EndsAdding
  <2>2. /\ Alive(heap', Freed(current_config_ptr, None))
        /\ Alive(heap', Freed(tmp_bconf, None))
    BY <1>0, <2>1, FreedNothing
  <2>3. /\ tmp_bconf' = Freed(tmp_bconf, None)
        /\ Redraw(selected_device, selected_config, Freed(current_config_ptr, None))
    BY <1>4 DEF EndsAdding, Handled
  <2> QED
    BY <1>0, <2>1, <2>2, <2>3, RedrawShows DEF ViewOK
<1> QED
  BY <1>1, <1>2, <1>3, <1>4, ViewKinds

\* The inductive invariant.
MenuOK ==
  /\ ListOK /\ AddingOK
  /\ FlagsOK /\ ViewOK
  /\ BuiltinOK /\ DefaultIsAuto /\ ShownOK

LEMMA InitMenu ==
  ASSUME Init
  PROVE  MenuOK
<1>1. ListOK /\ AddingOK
  BY InitList
<1>2. /\ MaxEntries \in Nat /\ MaxTimeout \in Nat
      /\ Len(Builtin) \in Nat /\ DOMAIN Builtin = 1 .. Len(Builtin)
  BY MenuAssumption
<1>3. BuiltinOK
  BY DEF Init, BuiltinOK
<1>4. FlagsOK
  <2>1. NoBoot \in Boots
    BY DEF Boots, NoBoot
  <2>2. pc = "top" /\ adding[1] = None /\ adding[2] = Nothing
    BY DEF Init
  <2>3. default_timeout = -1 /\ default \in Boots /\ mounted = {} /\ request = None
    BY <2>1 DEF Init
  <2>4. disable_autoboot \in BOOLEAN /\ f_edit \in BOOLEAN /\ f_quit \in BOOLEAN
    BY DEF Init
  <2> QED
    BY <1>2, <2>2, <2>3, <2>4 DEF FlagsOK, Phases
<1>5. ViewOK
  BY <1>2 DEF Init, ViewOK, Alive
<1>6. ShownOK
  <2>1. Target = 0
    BY <1>2 DEF Init, Target
  <2> QED
    BY <2>1 DEF Init, ShownOK
<1> QED
  BY <1>1, <1>3, <1>4, <1>5, <1>6 DEF Init, MenuOK, DefaultIsAuto

THEOREM MenuSafe == Spec => []MenuOK
<1>1. MenuOK /\ [Next]_vars => MenuOK'
  BY StepList, StepFlags, StepView DEF MenuOK
<1> QED
  BY <1>1, InitMenu, PTL DEF Spec

\* Whatever the helper asks for, whatever the disks hold and whenever the timer
\* interrupts: the pointers to entries are null, stale or into a boot_device
\* that is allocated, the selected entry stays below MaxEntries, and what is
\* booted by itself names an entry of a disk.
THEOREM MenuTypes == Spec => []TypeOK
<1>1. MenuOK => TypeOK
  BY TypeParts DEF MenuOK
<1> QED
  BY <1>1, MenuSafe, PTL

\* RETURN boots the entry that is highlighted, or none when none is: after every
\* request, however it changed the list under the selection, and every event.
THEOREM HighlightSafe == Spec => []BootsHighlighted
<1>1. MenuOK => BootsHighlighted
  BY DEF MenuOK, ShownOK, Waiting, BootsHighlighted
<1> QED
  BY <1>1, MenuSafe, PTL

\* A countdown under way is never restarted by another disk, and what it will
\* boot stays what it was: the first disk with a default entry wins.
THEOREM DefaultSafe == Spec => DefaultStands
<1>1. MenuOK /\ [Next]_vars =>
        [default_timeout > 0 /\ pc # "default" =>
           default' = default /\ default_timeout' <= default_timeout]_vars
  <2> SUFFICES ASSUME MenuOK, Next, default_timeout > 0, pc # "default"
               PROVE  default' = default /\ default_timeout' <= default_timeout
    OBVIOUS
  <2>0. default_timeout \in Int
    BY MenuAssumption DEF MenuOK, FlagsOK
  <2> USE DEF auto
  <2>1. CASE TestQuit \/ NoRequest
    BY <2>0, <2>1 DEF TestQuit, NoRequest
  <2>2. CASE \E d \in Disks : RequestRemove(d)
    BY <2>0, <2>2 DEF RequestRemove
  <2>3. CASE \E d \in Disks, m \in Media : AddFails(d, m) \/ AddMounts(d, m)
    BY <2>0, <2>3 DEF AddFails, AddMounts
  <2>4. CASE ReadNothing \/ StartDefault \/ SetDefault \/ NoDefault \/ Link
    BY <2>0, <2>4 DEF ReadNothing, StartDefault, SetDefault, NoDefault, Link
  <2>5. CASE HandleEvent
    BY <2>0, <2>5 DEF HandleEvent, SelectPrev, SelectNext, ConfigPrev, ConfigNext,
       OtherKey, Select, NoEvent, Boot, Escape, QuitEvent, StartEdit, CommitEdit
  <2>6. CASE CountDown
    BY <2>0, <2>6 DEF CountDown
  <2> QED
    BY <2>1, <2>2, <2>3, <2>4, <2>5, <2>6 DEF Next, Serve
<1> QED
  BY <1>1, MenuSafe, PTL DEF Spec, DefaultStands

----------------------------------------------------------------------------
(* The entry that is edited.                                               *)

\* No disk is taken out, every disk can be read, and what boots by itself is a
\* kernel or an initrd, not a command for the script that started ps3boot.
DisksStay ==
  /\ "remove" \notin Requests
  /\ \A m \in Media : m.read = "ok" /\ (m.auto => m.kernel \/ m.initrd)

BootsKernel(b) == b.devname # None => b.kernel # None \/ b.initrd # None

\* With such disks the list only grows: a disk that is added again leaves it for
\* a while, but not until ps3boot looks at its events.
SelectionOK ==
  /\ pc \in Waiting => selected_device < Len(devices)
  /\ pc \in Busy => selected_device <= Len(devices)
  /\ pc \in Waiting /\ f_edit => tmp_bconf # Stale

NoScript ==
  /\ pc \in {"serv"} \cup Busy => ~ f_quit
  /\ BootsKernel(default)

LEMMA StepNoScript ==
  ASSUME DisksStay, MenuOK, NoScript, [Next]_vars
  PROVE  NoScript'
<1> USE DEF NoScript, Busy
<1>1. CASE TestQuit \/ NoRequest
  BY <1>1 DEF TestQuit, NoRequest, auto
<1>2. CASE \E d \in Disks : RequestRemove(d)
  BY <1>2 DEF RequestRemove, Handled, auto
<1>3. CASE \E d \in Disks, m \in Media : AddFails(d, m)
  BY <1>3 DEF AddFails, Handled, auto
<1>4. CASE \E d \in Disks, m \in Media : AddMounts(d, m)
  BY <1>4 DEF AddMounts, auto
<1>5. CASE ReadNothing \/ Link
  BY <1>5 DEF ReadNothing, Link, Handled, auto
<1>6. CASE StartDefault \/ NoDefault
  BY <1>6 DEF StartDefault, NoDefault, auto
<1>7. CASE SetDefault
  <2> DEFINE m == adding[2]
             b == BootOf(adding[1], m, m.shown)
  <2>1. /\ adding[1] \in Disks /\ m \in Media /\ m.auto
        /\ m.shown \in 1 .. MaxEntries
    BY <1>7, MediaFacts DEF SetDefault, MenuOK, AddingOK, DefaultIsAuto
  <2>2. m.kernel \/ m.initrd
    BY <2>1 DEF DisksStay
  <2>3. <<adding[1], m.shown>> # None
    BY <2>1, MenuAssumption
  <2>4. b.kernel # None \/ b.initrd # None
    BY <2>2, <2>3 DEF BootOf
  <2>5. b \in Boots
    BY <2>1, BootOfType
  <2>6. default' = [f \in DOMAIN b |-> IF b[f] # None THEN b[f] ELSE default[f]]
    BY <1>7 DEF SetDefault
  <2> HIDE DEF b
  <2>7. /\ b.kernel # None => default'.kernel # None
        /\ b.initrd # None => default'.initrd # None
    BY <2>5, <2>6, BootsAreRecords
  <2> QED
    BY <1>7, <2>4, <2>7 DEF SetDefault, BootsKernel
<1>8. CASE HandleEvent
  <2>1. CASE SelectPrev \/ SelectNext \/ ConfigPrev \/ ConfigNext \/ OtherKey
    BY <2>1 DEF SelectPrev, SelectNext, ConfigPrev, ConfigNext, OtherKey, Select,
                auto
  <2>2. CASE NoEvent \/ Escape \/ QuitEvent \/ StartEdit \/ CommitEdit
    BY <2>2 DEF NoEvent, Escape, QuitEvent, StartEdit, CommitEdit, auto
  <2>3. CASE Boot
    <3>1. \E b : Execute(b, "top")
      BY <2>3 DEF Boot
    <3>2. pc' = "top" \/ pc' = "gone"
      BY <3>1, ExecuteMounts
    <3> QED
      BY <2>3, <3>2 DEF Boot, auto
  <2> QED
    BY <1>8, <2>1, <2>2, <2>3 DEF HandleEvent
<1>9. CASE CountDown
  <2>1. ~ LeaveScript(default, pc)
    BY DEF LeaveScript, Mountable, BootsKernel
  <2>2. f_quit' = f_quit /\ (pc' = pc \/ pc' = "gone") /\ default' = default
    BY <1>9, <2>1 DEF CountDown, Execute, MountFails, Kexec, NoKernel
  <2> QED
    BY <2>2
<1>10. CASE UNCHANGED vars
  BY <1>10 DEF vars, auto
<1> QED
  BY <1>1, <1>2, <1>3, <1>4, <1>5, <1>6, <1>7, <1>8, <1>9, <1>10 DEF Next, Serve

LEMMA StepSelection ==
  ASSUME DisksStay, MenuOK, MenuOK', MountsOK, NoScript, SelectionOK, [Next]_vars
  PROVE  SelectionOK'
<1>1. PICK L \in Nat : L = Len(devices) /\ L > 0 /\ selected_device \in Nat
  BY DEF MenuOK, ListOK, ViewOK
<1>2. CASE Still
  <2>1. pc \in Waiting => current_config_ptr # Stale
    <3>1. SUFFICES ASSUME pc \in Waiting
                   PROVE  current_config_ptr # Stale
      OBVIOUS
    <3>2. selected_device + 1 \in DOMAIN devices
      BY <1>1, <3>1 DEF SelectionOK, MenuOK, ListOK
    <3>3. devices[selected_device + 1] # None
      BY <3>2, MenuAssumption DEF MenuOK, ListOK
    <3>4. \/ current_config_ptr = None
          \/ current_config_ptr = <<devices[selected_device + 1], Target>>
      BY <3>1, <3>2 DEF MenuOK, ShownOK
    <3> QED
      BY <3>3, <3>4, MenuAssumption DEF Stale
  <2> QED
    BY <1>1, <1>2, <2>1 DEF Still, SelectionOK, list, view, edit
<1>3. CASE Redraws
  <2>1. PICK sd \in Nat, sc \in -1 .. MaxEntries :
          /\ sd <= selected_device \/ sd < Len(devices)
          /\ Redraw(sd, sc, current_config_ptr)
    BY <1>3 DEF Redraws
  <2>2. selected_device' = sd /\ devices' = devices /\ tmp_bconf' = tmp_bconf
    BY <1>3, <2>1 DEF Redraws, Redraw, list
  <2> QED
    BY <1>1, <1>3, <2>1, <2>2 DEF Redraws, SelectionOK
<1>4. ASSUME NEW d \in Disks, DropsPointers(d)
      PROVE  SelectionOK'
  <2>1. pc = "serv" /\ mounted = {} /\ selected_device < L
    BY <1>1, <1>4 DEF DropsPointers, NoScript, MountsOK, MountsUndone, SelectionOK,
                      Waiting
  <2>2. PICK dead : /\ RemoveDevice(d, dead)
                    /\ UNCHANGED <<selected_device, selected_config>>
                    /\ pc' = "mounted"
    BY <1>4, <2>1 DEF DropsPointers, DisksStay
  <2>3. Len(devices') = L \/ Len(devices') = L - 1
    <3>1. ASSUME NEW i \in DOMAIN devices, Dev(i) = d, RemoveNode(i)
          PROVE  Len(devices') = L - 1
      BY <1>1, <3>1, RemoveNodeKeepsList DEF MenuOK, ListOK
    <3> QED
      BY <1>1, <2>2, <3>1 DEF RemoveDevice, list
  <2> QED
    BY <1>1, <2>1, <2>2, <2>3 DEF SelectionOK, Waiting, Busy
<1>5. CASE EndsAdding
  <2>1. adding \in Disks \X Media /\ adding[2].read = "ok"
    BY <1>5 DEF EndsAdding, MenuOK, AddingOK, Busy, DisksStay
  <2>2. PICK n \in Nodes : pc = "link" /\ AppendNode(adding[1], adding[2], n)
    BY <1>5, <2>1 DEF EndsAdding
  <2>3. Len(devices') = L + 1
    BY <1>1, <2>1, <2>2, AppendNodeKeepsList DEF MenuOK, AddingOK
  <2>4. selected_device' = selected_device /\ pc' = "events" /\ ~ f_edit'
    BY <1>5 DEF EndsAdding, Handled, Redraw
  <2> QED
    BY <1>1, <2>2, <2>3, <2>4 DEF SelectionOK, Waiting, Busy
<1> QED
  BY <1>2, <1>3, <1>4, <1>5, ViewKinds DEF MenuOK

\* When no disk leaves the list for good, the entry that is edited is never one
\* that has been freed.  (Otherwise it may be: run menu_stale.  DisksStay holds
\* of the constants of menu_boot.)
THEOREM EditSafe == DisksStay /\ Spec => []EditsListedEntry
<1> SUFFICES ASSUME DisksStay
             PROVE  Spec => []EditsListedEntry
  OBVIOUS
<1>1. Init => NoScript /\ SelectionOK
  <2> SUFFICES ASSUME Init
               PROVE  NoScript /\ SelectionOK
    OBVIOUS
  <2>1. Len(devices) \in Nat /\ Len(devices) > 0
    BY InitList DEF ListOK
  <2>2. default.devname = None
    BY DEF Init, NoBoot
  <2> QED
    BY <2>1, <2>2 DEF Init, NoScript, SelectionOK, BootsKernel, Waiting, Busy
<1>2. MenuOK /\ MenuOK' /\ MountsOK /\ NoScript /\ SelectionOK /\ [Next]_vars
        => (NoScript /\ SelectionOK)'
  BY StepNoScript, StepSelection
<1>3. SelectionOK => EditsListedEntry
  BY DEF SelectionOK, EditsListedEntry, Waiting
<1> QED
  BY <1>1, <1>2, <1>3, MenuSafe, MountsOKAlways, PTL DEF Spec

----------------------------------------------------------------------------
(* What is executed is one entry.                                          *)

\* The entries that boot by themselves define the same strings.
DefaultsAlike ==
  \A m1, m2 \in Media :
    m1.auto /\ m2.auto =>
      /\ m1.kernel  <=> m2.kernel
      /\ m1.initrd  <=> m2.initrd
      /\ m1.cmdline <=> m2.cmdline

EntryOf(b, d, m, k) ==
  /\ d \in Disks /\ m \in Media /\ k \in 1 .. MaxEntries
  /\ b = BootOf(d, m, k)

OneEntryOK ==
  /\ default = NoBoot \/ \E d, m, k : m.auto /\ EntryOf(default, d, m, k)
  /\ request = None \/ \E d, m, k : EntryOf(request, d, m, k)

LEMMA ExecuteOne ==
  ASSUME NEW b, NEW next, Execute(b, next),
         b = NoBoot \/ \E d, m, k : EntryOf(b, d, m, k)
  PROVE  request' = request \/ \E d, m, k : EntryOf(request', d, m, k)
<1>1. request' = request \/ (request' = b /\ b.devname # None)
  BY DEF Execute, MountFails, LeaveScript, Kexec, NoKernel, Mountable
<1> QED
  BY <1>1 DEF NoBoot

LEMMA StepOneEntry ==
  ASSUME DefaultsAlike, MenuOK, OneEntryOK, [Next]_vars
  PROVE  OneEntryOK'
<1>1. CASE UNCHANGED <<default, request>>
  BY <1>1 DEF OneEntryOK
<1>2. CASE SetDefault
  <2> DEFINE m == adding[2]
             k == m.shown
             b == BootOf(adding[1], m, k)
  <2>1. adding[1] \in Disks /\ m \in Media /\ m.auto /\ k \in 1 .. MaxEntries
    BY <1>2, MediaFacts DEF SetDefault, MenuOK, AddingOK, DefaultIsAuto
  <2>2. b \in Boots /\ b.devname # None
    <3>1. <<adding[1], k>> # None
      BY <2>1, MenuAssumption
    <3>2. b \in Boots /\ b.devname = <<adding[1], k>>
      BY <2>1, BootOfType
    <3> QED
      BY <3>1, <3>2
  <2>3. default' = [f \in DOMAIN b |-> IF b[f] # None THEN b[f] ELSE default[f]]
    BY <1>2 DEF SetDefault
  <2>4. ASSUME NEW f \in DOMAIN NoBoot, b[f] = None
        PROVE  default[f] = None
    <3>1. CASE default = NoBoot
      BY <3>1 DEF NoBoot
    <3>2. ASSUME NEW d1, NEW m1, NEW k1, m1.auto, EntryOf(default, d1, m1, k1)
          PROVE  default[f] = None
      <4>1. <<adding[1], k>> # None
        BY <2>1, MenuAssumption
      <4>2. /\ m1.kernel  <=> m.kernel
            /\ m1.initrd  <=> m.initrd
            /\ m1.cmdline <=> m.cmdline
        <5>1. m1 \in Media /\ m \in Media /\ m1.auto /\ m.auto
          BY <2>1, <3>2 DEF EntryOf
        <5> HIDE DEF m
        <5> QED
          BY <5>1 DEF DefaultsAlike
      <4>3. f \in {"devname", "kernel", "initrd", "cmdline"}
        BY DEF NoBoot
      <4>4. default = BootOf(d1, m1, k1)
        BY <3>2 DEF EntryOf
      <4> HIDE DEF m, k
      <4>5. CASE f = "devname"
        BY <2>2, <2>4, <4>5
      <4>6. CASE f = "kernel"
        BY <2>4, <4>1, <4>2, <4>4, <4>6 DEF BootOf
      <4>7. CASE f = "initrd"
        BY <2>4, <4>1, <4>2, <4>4, <4>7 DEF BootOf
      <4>8. CASE f = "cmdline"
        BY <2>4, <4>1, <4>2, <4>4, <4>8 DEF BootOf
      <4> QED
        BY <4>3, <4>5, <4>6, <4>7, <4>8
    <3> QED
      BY <3>1, <3>2 DEF OneEntryOK
  <2>5. EntryOf(b, adding[1], m, k)
    BY <2>1 DEF EntryOf
  <2> HIDE DEF b
  <2>6. default' = b
    <3>1. DOMAIN b = DOMAIN NoBoot /\ b = [f \in DOMAIN b |-> b[f]]
      BY <2>2 DEF Boots
    <3>2. \A f \in DOMAIN b : (IF b[f] # None THEN b[f] ELSE default[f]) = b[f]
      BY <2>4, <3>1
    <3> QED
      BY <2>3, <3>1, <3>2
  <2>7. request' = request
    BY <1>2 DEF SetDefault
  <2> QED
    BY <2>1, <2>5, <2>6, <2>7 DEF OneEntryOK
<1>3. CASE Boot
  <2> DEFINE i == selected_device + 1
             b == BootOf(Dev(i), heap[devices[i]].conf, Target)
  <2>1. EntryOf(b, Dev(i), heap[devices[i]].conf, Target)
    BY <1>3, TargetIsEntry DEF Boot, MenuOK, EntryOf
  <2>2. Execute(b, "top") /\ default' = default
    BY <1>3 DEF Boot, auto
  <2> HIDE DEF b
  <2>3. request' = request \/ \E d, m, k : EntryOf(request', d, m, k)
    BY <2>1, <2>2, ExecuteOne
  <2> QED
    BY <2>2, <2>3 DEF OneEntryOK
<1>4. CASE CountDown
  <2>1. CASE Execute(default, pc)
    <3>1. default = NoBoot \/ \E d, m, k : EntryOf(default, d, m, k)
      BY DEF OneEntryOK
    <3>2. request' = request \/ \E d, m, k : EntryOf(request', d, m, k)
      BY <2>1, <3>1, ExecuteOne
    <3>3. default' = default
      BY <1>4 DEF CountDown
    <3> QED
      BY <3>2, <3>3 DEF OneEntryOK
  <2> QED
    BY <1>1, <1>4, <2>1 DEF CountDown
<1>5. CASE TestQuit \/ NoRequest \/ \E d \in Disks : RequestRemove(d)
  BY <1>1, <1>5 DEF TestQuit, NoRequest, RequestRemove, auto
<1>6. CASE \E d \in Disks, m \in Media : AddFails(d, m) \/ AddMounts(d, m)
  BY <1>1, <1>6 DEF AddFails, AddMounts, auto
<1>7. CASE ReadNothing \/ StartDefault \/ NoDefault \/ Link
  BY <1>1, <1>7 DEF ReadNothing, StartDefault, NoDefault, Link, auto
<1>8. CASE SelectPrev \/ SelectNext \/ ConfigPrev \/ ConfigNext \/ OtherKey
  BY <1>1, <1>8 DEF SelectPrev, SelectNext, ConfigPrev, ConfigNext, OtherKey, Select,
                    auto
<1>9. CASE NoEvent \/ Escape \/ QuitEvent \/ StartEdit \/ CommitEdit
  BY <1>1, <1>9 DEF NoEvent, Escape, QuitEvent, StartEdit, CommitEdit, auto
<1>10. CASE UNCHANGED vars
  BY <1>1, <1>10 DEF vars, auto
<1> QED
  BY <1>2, <1>3, <1>4, <1>5, <1>6, <1>7, <1>8, <1>9, <1>10
  DEF Next, Serve, HandleEvent

\* Where the default entries of all disks define the same strings, what is
\* executed is one entry of one disk.  (Otherwise bootdevice_default_config
\* leaves a string of an earlier default in place.  DefaultsAlike holds of the
\* constants of menu_boot.)
THEOREM OneEntrySafe == DefaultsAlike /\ Spec => []BootsOneEntry
<1> SUFFICES ASSUME DefaultsAlike
             PROVE  Spec => []BootsOneEntry
  OBVIOUS
<1>1. Init => OneEntryOK
  BY DEF Init, OneEntryOK
<1>2. MenuOK /\ OneEntryOK /\ [Next]_vars => OneEntryOK'
  BY StepOneEntry
<1>3. OneEntryOK => BootsOneEntry
  <2> SUFFICES ASSUME NEW d, NEW m, NEW k, EntryOf(request, d, m, k)
               PROVE  \E e \in Entries, n \in Media : request = BootOf(e[1], n, e[2])
    BY DEF OneEntryOK, BootsOneEntry
  <2>1. /\ <<d, k>> \in Entries /\ m \in Media
        /\ request = BootOf(<<d, k>>[1], m, <<d, k>>[2])
    BY DEF EntryOf, Entries
  <2> QED
    BY <2>1
<1> QED
  BY <1>1, <1>2, <1>3, MenuSafe, PTL DEF Spec
=============================================================================
