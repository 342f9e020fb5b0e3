-------------------------- MODULE MinimountProofs --------------------------
(***************************************************************************)
(* QuietIsMounted for any sticks, drives and labels, and any number of     *)
(* processes and moves.                                                    *)
(***************************************************************************)
EXTENDS Minimount, SequenceTheorems, FiniteSetTheorems, TLAPS

Action == {"add", "remove"}
Name   == Labels \cup {Nothing}

MountTypes ==
  /\ there \subseteq Disks /\ disc \in [Disks -> Name]
  /\ queue \in [Disks -> Seq(Action)]
  /\ worker \in [Workers -> MmProcess \cup {Nothing}]
  /\ stack \in [Labels -> Seq(Disks)]
  /\ dirs \subseteq Labels

\* Whatever is mounted has a directory, and whatever has one was given to a device.
Givens ==
  /\ given \subseteq Disks \X Labels
  /\ \A n \in Labels : stack[n] # <<>> => n \in dirs
  /\ \A n \in Labels : \A i \in DOMAIN stack[n] : <<stack[n][i], n>> \in given
  /\ \A n \in dirs : \E d \in Disks : <<d, n>> \in given

Waits(action, q) == \E i \in DOMAIN q : q[i] = action

\* The names given to d that something is mounted on.
Mine(d) == {n \in Labels : <<d, n>> \in given /\ stack[n] # <<>>}

\* The name that a process would take for the medium that is in.
NameOf(p) == IF p.env # Nothing THEN p.env ELSE disc[p.dev]

Removes == {"remove", "umount", "rmdir"}

\* A process of d, by where it stands.
Kind(d, p) ==
  /\ p.dir # Nothing => <<d, p.dir>> \in given
  /\ p.at \in {"mkdir", "mount", "unmade", "umount", "rmdir"} => p.dir # Nothing
  /\ p.at \in {"plug", "unplug"} => p.poll
  /\ p.poll => d \in Drives
  /\ p.forked => p.poll
  /\ d \in Drives /\ ~ p.poll => disc[d] = Nothing
  /\ p.at \in Removes => disc[d] = Nothing
  /\ d \in Sticks /\ disc[d] # Nothing => p.env = disc[d]

\* The processes of d; but one of them are pollers that have forked.
Kinds(d) ==
  /\ \A w \in ProcessesOf(d) : Kind(d, worker[w])
  /\ \A v, w \in ProcessesOf(d) : v # w => worker[v].forked \/ worker[w].forked

\* Of a device that is there no removal waits, and a drive is polled or will be.
Plugged(d) ==
  /\ disc[d] # Nothing => d \in there
  /\ d \in there => ~ Waits("remove", queue[d])
  /\ d \in there \cap Sticks => disc[d] # Nothing
  /\ d \in there \cap Drives =>
       Waits("add", queue[d]) \/ \E w \in ProcessesOf(d) : worker[w].poll

\* d is mounted once, on one name.
MountedOnce(d) ==
  /\ \A n \in Mine(d) : stack[n] = <<d>>
  /\ \A m, n \in Mine(d) : m = n

OneEnv(d) ==
  \A v, w \in ProcessesOf(d) :
    worker[v].poll /\ worker[w].poll => worker[v].env = worker[w].env

\* While a medium is in: what p has taken, and what is mounted, is its name.
Named(d, p) ==
  /\ p.at \in {"mkdir", "mount", "unmade"} => p.dir = NameOf(p)
  /\ p.at = "mount" => p.dir \in dirs
  /\ p.at \in {"unmade", "unplug"} => Mine(d) # {}
  /\ \A n \in Mine(d) : n = NameOf(p)

OneName(d) ==
  disc[d] # Nothing =>
    /\ \A w \in ProcessesOf(d) : Named(d, worker[w])
    /\ d \in Sticks => Mine(d) \subseteq {disc[d]}

\* A directory that nothing is mounted on has a process that will mount or remove it.
Tends(p, n) == p.dir = n /\ p.at \in {"mount", "unmade", "rmdir"}

Tended(d) ==
  \A n \in dirs : <<d, n>> \in given /\ stack[n] = <<>> =>
    \E w \in ProcessesOf(d) : Tends(worker[w], n)

\* A mount without medium has a process that will find it, or a uevent will.
Finds(p, names) ==
  \/ p.at = "remove"
  \/ p.at = "umount" /\ p.dir \in names
  \/ p.poll /\ p.at \in {"unplug", "add", "mkdir", "mount", "unmade"}

Found(d) ==
  Mine(d) # {} =>
    IF disc[d] = Nothing
    THEN \/ Waits("remove", queue[d])
         \/ \E w \in ProcessesOf(d) : Finds(worker[w], Mine(d))
    ELSE d \in Drives => \E w \in ProcessesOf(d) : worker[w].at = "unplug"

\* A medium that is not mounted has a process that will mount it, or a uevent will.
Mounts(p) == p.at \in {"plug", "add", "mkdir", "mount"}

Awaited(d) ==
  disc[d] # Nothing =>
    \/ Mine(d) # {}
    \/ Waits("add", queue[d])
    \/ \E w \in ProcessesOf(d) : Mounts(worker[w])

InOrder(d) ==
  MountedOnce(d) /\ OneEnv(d) /\ OneName(d) /\ Tended(d) /\ Found(d) /\ Awaited(d)

Device(d) == Kinds(d) /\ Plugged(d) /\ (~ Confused(d) => InOrder(d))

MountInv == MountTypes /\ Givens /\ \A d \in Disks : Device(d)

-----------------------------------------------------------------------------
(* Queues and stacks.                                                      *)

\* A uevent that comes waits, and those before it still do.
LEMMA WaitsMore ==
  ASSUME NEW q \in Seq(Action), NEW a \in Action
  PROVE  /\ Append(q, a) \in Seq(Action)
         /\ \A b : Waits(b, Append(q, a)) <=> Waits(b, q) \/ b = a
<1> DEFINE r == Append(q, a)
<1>1. /\ r \in Seq(Action) /\ Len(q) \in Nat /\ DOMAIN q = 1 .. Len(q)
      /\ DOMAIN r = 1 .. Len(q) + 1
      /\ r[Len(q) + 1] = a /\ \A i \in 1 .. Len(q) : r[i] = q[i]
  OBVIOUS
<1> HIDE DEF r
<1>2. ASSUME NEW b PROVE Waits(b, r) <=> Waits(b, q) \/ b = a
  <2>1. ASSUME Waits(b, r) PROVE Waits(b, q) \/ b = a
    <3>1. PICK i \in 1 .. Len(q) + 1 : r[i] = b
      BY <1>1, <2>1 DEF Waits
    <3>2. i \in 1 .. Len(q) \/ i = Len(q) + 1
      BY <1>1
    <3> QED
      BY <1>1, <3>1, <3>2 DEF Waits
  <2>2. ASSUME Waits(b, q) PROVE Waits(b, r)
    <3>1. PICK i \in 1 .. Len(q) : q[i] = b
      BY <1>1, <2>2 DEF Waits
    <3>2. i \in 1 .. Len(q) + 1
      BY <1>1
    <3> QED
      BY <1>1, <3>1, <3>2 DEF Waits
  <2>3. ASSUME b = a PROVE Waits(b, r)
    <3>1. Len(q) + 1 \in 1 .. Len(q) + 1
      BY <1>1
    <3> QED
      BY <1>1, <2>3, <3>1 DEF Waits
  <2> QED
    BY <2>1, <2>2, <2>3
<1> QED
  BY <1>1, <1>2 DEF r

\* udevd takes the first.
LEMMA WaitsLess ==
  ASSUME NEW q \in Seq(Action), q # <<>>
  PROVE  /\ Tail(q) \in Seq(Action) /\ Head(q) \in Action
         /\ \A b : Waits(b, q) <=> Waits(b, Tail(q)) \/ b = Head(q)
<1> DEFINE r == Tail(q)
<1>1. /\ r \in Seq(Action) /\ Head(q) \in Action
      /\ Len(q) \in Nat /\ Len(q) > 0 /\ DOMAIN q = 1 .. Len(q)
      /\ DOMAIN r = 1 .. Len(q) - 1
      /\ q[1] = Head(q) /\ \A i \in 1 .. Len(q) - 1 : r[i] = q[i + 1]
  OBVIOUS
<1> HIDE DEF r
<1>2. ASSUME NEW b PROVE Waits(b, q) <=> Waits(b, r) \/ b = Head(q)
  <2>1. ASSUME Waits(b, q) PROVE Waits(b, r) \/ b = Head(q)
    <3>1. PICK i \in 1 .. Len(q) : q[i] = b
      BY <1>1, <2>1 DEF Waits
    <3>2. CASE i = 1
      BY <1>1, <3>1, <3>2
    <3>3. CASE i # 1
      <4>1. i - 1 \in 1 .. Len(q) - 1 /\ (i - 1) + 1 = i
        BY <1>1, <3>3
      <4>2. r[i - 1] = b
        BY <1>1, <3>1, <4>1
      <4> QED
        BY <1>1, <4>1, <4>2 DEF Waits
    <3> QED
      BY <3>2, <3>3
  <2>2. ASSUME Waits(b, r) PROVE Waits(b, q)
    <3>1. PICK i \in 1 .. Len(q) - 1 : r[i] = b
      BY <1>1, <2>2 DEF Waits
    <3>2. i + 1 \in 1 .. Len(q) /\ q[i + 1] = b
      BY <1>1, <3>1
    <3> QED
      BY <1>1, <3>2 DEF Waits
  <2>3. ASSUME b = Head(q) PROVE Waits(b, q)
    <3>1. 1 \in DOMAIN q
      BY <1>1
    <3> QED
      BY <1>1, <2>3, <3>1 DEF Waits
  <2> QED
    BY <2>1, <2>2, <2>3
<1> QED
  BY <1>1, <1>2 DEF r

\* In an empty queue nothing waits.
LEMMA NoneWaits == \A b : ~ Waits(b, <<>>)
BY DEF Waits

\* umount of the only mount.
LEMMA OneOff ==
  ASSUME NEW d \in Disks
  PROVE  /\ Front(<<d>>) = <<>> /\ Last(<<d>>) = d
         /\ Append(<<>>, d) = <<d>> /\ <<d>> # <<>> /\ <<d>> \in Seq(Disks)
<1>1. Len(<<d>>) = 1 /\ <<d>>[1] = d
  OBVIOUS
<1>2. SubSeq(<<d>>, 1, 0) = <<>>
  BY SubSeqEmpty
<1> QED
  BY <1>1, <1>2 DEF Front, Last

-----------------------------------------------------------------------------
(* Confusion.                                                              *)

\* Confusion does not pass.
LEMMA StaysConfused ==
  ASSUME given \subseteq given', muddled \subseteq muddled', NEW d \in Disks
  PROVE  Confused(d) => Confused(d)'
BY DEF Confused

\* What was given to d was given to no other.
LEMMA NoneElse ==
  ASSUME NEW d \in Disks, ~ Confused(d), NEW n \in Labels, <<d, n>> \in given
  PROVE  \A e \in Disks : <<e, n>> \in given => e = d
BY DEF Confused

\* A process belongs to one device.
LEMMA OfOne ==
  ASSUME MountTypes, NEW w \in Workers, worker[w] # Nothing
  PROVE  /\ worker[w] \in MmProcess /\ worker[w].dev \in Disks
         /\ \A d : w \in ProcessesOf(d) <=> d = worker[w].dev
BY DEF MountTypes, MmProcess, ProcessesOf

\* Before anything is plugged in all is in order.
LEMMA MountStarts ==
  ASSUME MinimountInit
  PROVE  MountInv
<1>1. \A w \in Workers : worker[w] = Nothing
  BY DEF MinimountInit
<1>2. \A d : ProcessesOf(d) = {}
  BY <1>1 DEF ProcessesOf
<1>3. MountTypes
  <2>1. <<>> \in Seq(Action) /\ <<>> \in Seq(Disks)
    OBVIOUS
  <2> QED
    BY <2>1 DEF MinimountInit, MountTypes, Name
<1>4. Givens
  BY DEF MinimountInit, Givens
<1>5. ASSUME NEW d \in Disks PROVE Device(d)
  <2>1. /\ disc[d] = Nothing /\ d \notin there /\ Mine(d) = {}
    BY DEF MinimountInit, Mine
  <2>2. Kinds(d) /\ Plugged(d)
    BY <1>2, <2>1 DEF Kinds, Plugged
  <2>3. InOrder(d)
    BY <1>2, <2>1 DEF InOrder, MountedOnce, OneEnv, OneName, Tended, Found, Awaited,
                      MinimountInit
  <2> QED
    BY <2>2, <2>3 DEF Device
<1> QED
  BY <1>3, <1>4, <1>5 DEF MountInv

-----------------------------------------------------------------------------
(* What another device does.                                               *)

\* d is not concerned: nothing of it, of its processes and of the names it was
\* given changes.
Spared(d) ==
  /\ disc'[d] = disc[d] /\ (d \in there' <=> d \in there) /\ queue'[d] = queue[d]
  /\ ProcessesOf(d)' = ProcessesOf(d)
  /\ \A w \in ProcessesOf(d) : worker'[w] = worker[w]
  /\ given \subseteq given' /\ muddled \subseteq muddled' /\ dirs' \subseteq Labels
  /\ ~ Confused(d)' =>
       \A n \in Labels :
         /\ <<d, n>> \in given' <=> <<d, n>> \in given
         /\ <<d, n>> \in given => stack'[n] = stack[n] /\ (n \in dirs' <=> n \in dirs)

\* What does not concern d leaves it in order.
LEMMA Elsewhere ==
  ASSUME MountTypes, NEW d \in Disks, Device(d), Spared(d)
  PROVE  Device(d)'
<1>1. /\ disc'[d] = disc[d] /\ (d \in there' <=> d \in there) /\ queue'[d] = queue[d]
      /\ ProcessesOf(d)' = ProcessesOf(d)
      /\ \A w \in ProcessesOf(d) : worker'[w] = worker[w]
      /\ given \subseteq given'
  BY DEF Spared
<1>2. Kinds(d)'
  BY <1>1 DEF Device, Kinds, Kind
<1>3. Plugged(d)'
  BY <1>1 DEF Device, Plugged
<1>4. ASSUME ~ Confused(d)' PROVE InOrder(d)'
  <2>1. ~ Confused(d) /\ InOrder(d)
    BY <1>4, StaysConfused DEF Spared, Device
  <2>2. \A n \in Labels :
          /\ <<d, n>> \in given' <=> <<d, n>> \in given
          /\ <<d, n>> \in given => stack'[n] = stack[n] /\ (n \in dirs' <=> n \in dirs)
    BY <1>4 DEF Spared
  <2>3. dirs \subseteq Labels /\ dirs' \subseteq Labels
    BY DEF MountTypes, Spared
  <2>4. Mine(d)' = Mine(d)
    BY <2>2 DEF Mine
  <2>5. MountedOnce(d)'
    BY <2>1, <2>2, <2>4 DEF InOrder, MountedOnce, Mine
  <2>6. OneEnv(d)'
    BY <1>1, <2>1 DEF InOrder, OneEnv
  <2>7. OneName(d)'
    <3>1. ASSUME disc[d] # Nothing, NEW w \in ProcessesOf(d) PROVE Named(d, worker[w])'
      <4>1. worker'[w] = worker[w] /\ worker[w].dev = d
        BY <1>1 DEF ProcessesOf
      <4>2. (NameOf(worker[w]))' = NameOf(worker[w])
        BY <1>1, <4>1 DEF NameOf
      <4>3. Named(d, worker[w]) /\ Kind(d, worker[w])
        BY <2>1, <3>1 DEF InOrder, OneName, Device, Kinds
      <4>4. worker[w].at = "mount" => worker[w].dir \in dirs'
        BY <2>2, <2>3, <4>3 DEF Named, Kind
      <4> QED
        BY <2>4, <4>1, <4>2, <4>3, <4>4 DEF Named
    <3> QED
      BY <1>1, <2>1, <2>4, <3>1 DEF InOrder, OneName
  <2>8. Tended(d)'
    BY <1>1, <2>1, <2>2, <2>3 DEF InOrder, Tended
  <2>9. Found(d)'
    BY <1>1, <2>1, <2>4 DEF InOrder, Found
  <2>10. Awaited(d)'
    BY <1>1, <2>1, <2>4 DEF InOrder, Awaited
  <2> QED
    BY <2>5, <2>6, <2>7, <2>8, <2>9, <2>10 DEF InOrder
<1> QED
  BY <1>2, <1>3, <1>4 DEF Device

-----------------------------------------------------------------------------
(* The user.                                                               *)

\* What a hand on d leaves alone.
Handled(d) ==
  /\ UNCHANGED <<worker, stack, dirs, given, muddled>>
  /\ \A e \in Disks \ {d} : disc'[e] = disc[e] /\ (e \in there' <=> e \in there)
                            /\ queue'[e] = queue[e]

\* A hand on one device spares the others.
LEMMA HandSpares ==
  ASSUME MountTypes, NEW d \in Disks, Handled(d), NEW e \in Disks, e # d
  PROVE  Spared(e)
BY DEF Handled, Spared, ProcessesOf, MountTypes

\* Processes, names and mounts stay.
LEMMA HandKeeps ==
  ASSUME NEW d \in Disks, Handled(d)
  PROVE  /\ ProcessesOf(d)' = ProcessesOf(d) /\ Mine(d)' = Mine(d)
         /\ Confused(d)' <=> Confused(d)
         /\ MountedOnce(d)' <=> MountedOnce(d)
         /\ OneEnv(d)' <=> OneEnv(d)
         /\ Tended(d)' <=> Tended(d)
         /\ worker' = worker
BY DEF Handled, ProcessesOf, Mine, Confused, MountedOnce, OneEnv, Tended

\* A medium that comes is not Nothing, and no stick is a drive.
LEMMA StickOrDrive ==
  Sticks \cap Drives = {} /\ Disks = Sticks \cup Drives /\ Nothing \notin Labels
BY MinimountAssumption DEF Disks

\* A device comes: no process, no mount, and an add that will be handled.
LEMMA PlugInKeeps ==
  ASSUME MountTypes, NEW d \in Disks, Device(d), NEW medium \in Name, PlugIn(d, medium)
  PROVE  /\ Device(d)' /\ Handled(d)
         /\ there' \subseteq Disks /\ disc' \in [Disks -> Name]
         /\ queue' \in [Disks -> Seq(Action)]
<1>1. /\ d \notin there /\ queue[d] = <<>> /\ ProcessesOf(d) = {}
      /\ d \in Sticks => medium # Nothing
      /\ there' = there \cup {d} /\ disc' = [disc EXCEPT ![d] = medium]
      /\ queue' = [queue EXCEPT ![d] = Append(@, "add")]
  BY DEF PlugIn, Tell
<1>2. Handled(d)
  BY <1>1 DEF PlugIn, Handled, Rest, MountTypes
<1>3. /\ disc'[d] = medium /\ d \in there' /\ queue'[d] = Append(<<>>, "add")
      /\ \A b : Waits(b, queue'[d]) <=> b = "add"
  <2>1. <<>> \in Seq(Action) /\ "add" \in Action
    BY DEF Action
  <2>2. \A b : Waits(b, Append(<<>>, "add")) <=> Waits(b, <<>>) \/ b = "add"
    BY <2>1, WaitsMore
  <2> QED
    BY <1>1, <2>2, NoneWaits DEF MountTypes
<1>4. disc[d] = Nothing /\ \A b : ~ Waits(b, queue[d])
  BY <1>1, NoneWaits DEF Device, Plugged, MountTypes
<1>5. Kinds(d)'
  BY <1>1, <1>2, HandKeeps DEF Kinds
<1>6. Plugged(d)'
  BY <1>1, <1>3 DEF Plugged
<1>7. ASSUME ~ Confused(d)' PROVE InOrder(d)'
  <2>1. ~ Confused(d) /\ InOrder(d)
    BY <1>2, <1>7, HandKeeps DEF Device
  <2>2. Mine(d) = {}
    BY <1>1, <1>4, <2>1 DEF InOrder, Found
  <2>3. OneName(d)' /\ Found(d)' /\ Awaited(d)'
    BY <1>1, <1>2, <1>3, <2>2, HandKeeps DEF OneName, Found, Awaited
  <2> QED
    BY <1>2, <2>1, <2>3, HandKeeps DEF InOrder
<1>8. there' \subseteq Disks /\ disc' \in [Disks -> Name]
  BY <1>1 DEF MountTypes
<1>9. queue' \in [Disks -> Seq(Action)]
  <2>1. "add" \in Action /\ queue[d] \in Seq(Action)
    BY DEF Action, MountTypes
  <2>2. Append(queue[d], "add") \in Seq(Action)
    BY <2>1, WaitsMore
  <2> QED
    BY <1>1, <2>2 DEF MountTypes
<1> QED
  BY <1>2, <1>5, <1>6, <1>7, <1>8, <1>9 DEF Device

\* Without a medium little is asked of processes and mounts.
LEMMA Emptied ==
  ASSUME NEW d \in Disks, Handled(d), Device(d), disc'[d] = Nothing
  PROVE  /\ Kinds(d)'
         /\ ~ Confused(d)' /\ Found(d)' => InOrder(d)'
<1>1. Kinds(d)'
  BY HandKeeps DEF Device, Kinds, Kind, Handled
<1>2. ASSUME ~ Confused(d)', Found(d)' PROVE InOrder(d)'
  <2>1. InOrder(d)
    BY <1>2, HandKeeps DEF Device
  <2>2. OneName(d)' /\ Awaited(d)'
    BY DEF OneName, Awaited
  <2> QED
    BY <1>2, <2>1, <2>2, HandKeeps DEF InOrder
<1> QED
  BY <1>1, <1>2

\* A device goes: its removal will find the mount.
LEMMA PullOutKeeps ==
  ASSUME MountTypes, NEW d \in Disks, Device(d), PullOut(d)
  PROVE  /\ Device(d)' /\ Handled(d)
         /\ there' \subseteq Disks /\ disc' \in [Disks -> Name]
         /\ queue' \in [Disks -> Seq(Action)]
<1>1. /\ there' = there \ {d} /\ disc' = [disc EXCEPT ![d] = Nothing]
      /\ queue' = [queue EXCEPT ![d] = Append(@, "remove")]
  BY DEF PullOut, Tell
<1>2. Handled(d)
  BY <1>1 DEF PullOut, Handled, Rest, MountTypes
<1>3. /\ disc'[d] = Nothing /\ d \notin there' /\ queue' \in [Disks -> Seq(Action)]
      /\ Waits("remove", queue'[d])
  <2>1. queue[d] \in Seq(Action) /\ "remove" \in Action
    BY DEF Action, MountTypes
  <2>2. /\ Append(queue[d], "remove") \in Seq(Action)
        /\ Waits("remove", Append(queue[d], "remove"))
    BY <2>1, WaitsMore
  <2> QED
    BY <1>1, <2>2 DEF MountTypes
<1>4. Plugged(d)'
  BY <1>3 DEF Plugged
<1>5. Found(d)'
  BY <1>3 DEF Found
<1>6. there' \subseteq Disks /\ disc' \in [Disks -> Name]
  BY <1>1 DEF MountTypes, Name
<1> QED
  BY <1>2, <1>3, <1>4, <1>5, <1>6, Emptied DEF Device

\* A medium goes: the poller that mounted it will find the mount.
LEMMA TakeOutKeeps ==
  ASSUME MountTypes, NEW d \in Disks, Device(d), TakeOut(d)
  PROVE  /\ Device(d)' /\ Handled(d)
         /\ there' \subseteq Disks /\ disc' \in [Disks -> Name]
         /\ queue' \in [Disks -> Seq(Action)]
<1>1. /\ d \in there /\ d \in Drives /\ disc[d] # Nothing
      /\ there' = there /\ queue' = queue /\ disc' = [disc EXCEPT ![d] = Nothing]
  BY DEF TakeOut
<1>2. Handled(d)
  BY <1>1 DEF TakeOut, Handled, Rest, MountTypes
<1>3. disc'[d] = Nothing /\ d \notin Sticks
  BY <1>1, StickOrDrive DEF MountTypes
<1>4. Plugged(d)'
  BY <1>1, <1>2, <1>3, HandKeeps DEF Device, Plugged
<1>5. ASSUME ~ Confused(d)' PROVE Found(d)'
  <2>1. InOrder(d)
    BY <1>2, <1>5, HandKeeps DEF Device
  <2>2. ASSUME Mine(d) # {} PROVE \E w \in ProcessesOf(d) : Finds(worker[w], Mine(d))
    <3>1. PICK w \in ProcessesOf(d) : worker[w].at = "unplug"
      BY <1>1, <2>1, <2>2 DEF InOrder, Found
    <3>2. worker[w].poll
      BY <3>1 DEF Device, Kinds, Kind
    <3> QED
      BY <3>1, <3>2 DEF Finds
  <2> QED
    BY <1>2, <1>3, <2>2, HandKeeps DEF Found
<1>6. there' \subseteq Disks /\ disc' \in [Disks -> Name] /\ queue' \in [Disks -> Seq(Action)]
  BY <1>1 DEF MountTypes, Name
<1> QED
  BY <1>2, <1>3, <1>4, <1>5, <1>6, Emptied DEF Device

\* A medium comes: all processes of the drive wait for it.
LEMMA PutInKeeps ==
  ASSUME MountTypes, NEW d \in Disks, Device(d), NEW medium \in Labels, PutIn(d, medium)
  PROVE  /\ Device(d)' /\ Handled(d)
         /\ there' \subseteq Disks /\ disc' \in [Disks -> Name]
         /\ queue' \in [Disks -> Seq(Action)]
<1>1. /\ d \in there /\ d \in Drives /\ disc[d] = Nothing /\ queue[d] = <<>>
      /\ \A w \in ProcessesOf(d) : worker[w].at = "plug"
      /\ there' = there /\ queue' = queue /\ disc' = [disc EXCEPT ![d] = medium]
  BY DEF PutIn, AtRest
<1>2. Handled(d)
  BY <1>1 DEF PutIn, Handled, Rest, MountTypes
<1>3. /\ disc'[d] = medium /\ medium # Nothing /\ d \notin Sticks
      /\ \A b : ~ Waits(b, queue[d])
  BY <1>1, StickOrDrive, NoneWaits DEF MountTypes
<1>4. Kinds(d)'
  <2>1. ASSUME NEW w \in ProcessesOf(d) PROVE Kind(d, worker[w])'
    <3>1. Kind(d, worker[w]) /\ worker[w].at \notin Removes /\ worker[w].poll
      BY <1>1 DEF Device, Kinds, Kind, Removes
    <3> QED
      BY <1>2, <1>3, <3>1 DEF Kind, Handled
  <2> QED
    BY <1>2, <2>1, HandKeeps DEF Device, Kinds
<1>5. Plugged(d)'
  BY <1>1, <1>2, <1>3, HandKeeps DEF Device, Plugged
<1>6. ASSUME ~ Confused(d)' PROVE InOrder(d)'
  <2>1. InOrder(d)
    BY <1>2, <1>6, HandKeeps DEF Device
  <2>2. Mine(d) = {}
    BY <1>1, <1>3, <2>1 DEF InOrder, Found, Finds
  <2>3. Found(d)'
    BY <1>2, <2>2, HandKeeps DEF Found
  <2>4. OneName(d)'
    <3>1. ASSUME NEW w \in ProcessesOf(d) PROVE Named(d, worker[w])'
      BY <1>1, <1>2, <2>2, HandKeeps DEF Named
    <3> QED
      BY <1>2, <1>3, <3>1, HandKeeps DEF OneName
  <2>5. PICK w \in ProcessesOf(d) : worker[w].poll
    BY <1>1, <1>3 DEF Device, Plugged
  <2>6. Mounts(worker[w])
    BY <1>1 DEF Mounts
  <2>7. Awaited(d)'
    BY <1>2, <2>6, HandKeeps DEF Awaited
  <2> QED
    BY <1>2, <2>1, <2>3, <2>4, <2>7, HandKeeps DEF InOrder
<1>7. there' \subseteq Disks /\ disc' \in [Disks -> Name] /\ queue' \in [Disks -> Seq(Action)]
  BY <1>1 DEF MountTypes, Name
<1> QED
  BY <1>2, <1>4, <1>5, <1>6, <1>7 DEF Device

\* One more add changes nothing but the queue.
LEMMA RetriggerKeeps ==
  ASSUME MountTypes, NEW d \in Disks, Device(d), Retrigger(d)
  PROVE  /\ Device(d)' /\ Handled(d)
         /\ there' \subseteq Disks /\ disc' \in [Disks -> Name]
         /\ queue' \in [Disks -> Seq(Action)]
<1>1. /\ d \in there /\ there' = there /\ disc' = disc
      /\ queue' = [queue EXCEPT ![d] = Append(@, "add")]
  BY DEF Retrigger, Tell
<1>2. Handled(d)
  BY <1>1 DEF Retrigger, Handled, Rest, MountTypes
<1>3. /\ queue' \in [Disks -> Seq(Action)]
      /\ \A b : Waits(b, queue'[d]) <=> Waits(b, queue[d]) \/ b = "add"
  <2>1. queue[d] \in Seq(Action) /\ "add" \in Action
    BY DEF Action, MountTypes
  <2>2. /\ Append(queue[d], "add") \in Seq(Action)
        /\ \A b : Waits(b, Append(queue[d], "add")) <=> Waits(b, queue[d]) \/ b = "add"
    BY <2>1, WaitsMore
  <2>3. queue'[d] = Append(queue[d], "add")
    BY <1>1 DEF MountTypes
  <2>4. queue' \in [Disks -> Seq(Action)]
    BY <1>1, <2>2 DEF MountTypes
  <2> QED
    BY <2>2, <2>3, <2>4
<1>4. Kinds(d)'
  BY <1>1, <1>2, HandKeeps DEF Device, Kinds, Kind, Handled
<1>5. Plugged(d)'
  BY <1>1, <1>3 DEF Device, Plugged
<1>6. ASSUME ~ Confused(d)' PROVE InOrder(d)'
  <2>1. InOrder(d)
    BY <1>2, <1>6, HandKeeps DEF Device
  <2>2. OneName(d)'
    BY <1>1, <1>2, <2>1, HandKeeps DEF InOrder, OneName, Named, NameOf, Handled
  <2>3. Found(d)'
    BY <1>1, <1>2, <1>3, <2>1, HandKeeps DEF InOrder, Found
  <2>4. Awaited(d)'
    BY <1>1, <1>2, <1>3, <2>1, HandKeeps DEF InOrder, Awaited
  <2> QED
    BY <1>2, <2>1, <2>2, <2>3, <2>4, HandKeeps DEF InOrder
<1>7. there' \subseteq Disks /\ disc' \in [Disks -> Name]
  BY <1>1 DEF MountTypes
<1> QED
  BY <1>2, <1>3, <1>4, <1>5, <1>6, <1>7 DEF Device

\* Whatever the user does.
LEMMA UserKeeps ==
  ASSUME MountInv, User
  PROVE  MountInv'
<1>1. PICK d \in Disks :
        \/ \E medium \in Labels : PlugIn(d, medium) \/ PutIn(d, medium)
        \/ PlugIn(d, Nothing)
        \/ PullOut(d) \/ TakeOut(d) \/ Retrigger(d)
  BY DEF User
<1>2. MountTypes /\ Givens /\ \A e \in Disks : Device(e)
  BY DEF MountInv
<1>3. /\ Device(d)' /\ Handled(d)
      /\ there' \subseteq Disks /\ disc' \in [Disks -> Name]
      /\ queue' \in [Disks -> Seq(Action)]
  <2>1. Labels \subseteq Name /\ Nothing \in Name
    BY DEF Name
  <2> QED
    BY <1>1, <1>2, <2>1, PlugInKeeps, PutInKeeps, PullOutKeeps, TakeOutKeeps, RetriggerKeeps
<1>4. ASSUME NEW e \in Disks, e # d PROVE Device(e)'
  BY <1>2, <1>3, <1>4, HandSpares, Elsewhere
<1>5. MountTypes' /\ Givens'
  BY <1>2, <1>3 DEF MountTypes, Givens, Handled
<1> QED
  BY <1>3, <1>4, <1>5 DEF MountInv

-----------------------------------------------------------------------------
(* udevd starts a process.                                                 *)

\* The new process knows the medium that is in; if a poller knows another one, the
\* drive is muddled.
LEMMA UdevKeeps ==
  ASSUME MountInv, NEW d \in Disks, UdevStarts(d)
  PROVE  MountInv'
<1> DEFINE first == Head(queue[d])
           p == [dev |-> d, poll |-> first = "add" /\ d \in Drives \cap there,
                 at |-> IF first = "remove" THEN "remove"
                        ELSE IF d \in Drives \cap there THEN "plug" ELSE "add",
                 env |-> disc[d], dir |-> Nothing, forked |-> FALSE]
<1>0. MountTypes /\ Givens /\ \A e \in Disks : Device(e)
  BY DEF MountInv
<1>1. PICK w \in Workers :
        worker[w] = Nothing /\ worker' = [worker EXCEPT ![w] = p]
  BY DEF UdevStarts
<1>2. /\ queue[d] # <<>> /\ \A v \in ProcessesOf(d) : worker[v].forked
      /\ queue' = [queue EXCEPT ![d] = Tail(@)]
      /\ muddled' = IF /\ first = "add" /\ d \in Drives \cap there
                       /\ \E v \in ProcessesOf(d) : worker[v].env # disc[d]
                    THEN muddled \cup {d} ELSE muddled
      /\ UNCHANGED <<there, disc, stack, dirs, given>>
  BY DEF UdevStarts, mmHand
<1>3. /\ first \in Action /\ queue' \in [Disks -> Seq(Action)]
      /\ \A b : Waits(b, queue[d]) <=> Waits(b, queue'[d]) \/ b = first
      /\ \A e \in Disks : e # d => queue'[e] = queue[e]
  <2>1. queue[d] \in Seq(Action)
    BY <1>0 DEF MountTypes
  <2>2. /\ Tail(queue[d]) \in Seq(Action) /\ first \in Action
        /\ \A b : Waits(b, queue[d]) <=> Waits(b, Tail(queue[d])) \/ b = first
    BY <1>2, <2>1, WaitsLess
  <2>3. queue'[d] = Tail(queue[d])
    BY <1>0, <1>2 DEF MountTypes
  <2>4. queue' \in [Disks -> Seq(Action)] /\ \A e \in Disks : e # d => queue'[e] = queue[e]
    BY <1>0, <1>2, <2>2 DEF MountTypes
  <2> QED
    BY <2>2, <2>3, <2>4
<1>4. /\ p \in MmProcess
      /\ p.dev = d /\ p.env = disc[d] /\ p.dir = Nothing /\ p.forked = FALSE
      /\ p.poll <=> d \in Drives \cap there /\ first = "add"
      /\ p.at = "remove" <=> first = "remove"
      /\ p.at = "plug" => p.poll
      /\ p.at \in {"remove", "plug", "add"}
  BY <1>0, <1>3 DEF MmProcess, MmStages, Action, MountTypes, Name
<1> HIDE DEF p, first
<1>5. p # Nothing
  BY <1>4, MinimountAssumption
<1>6. /\ worker'[w] = p /\ \A v \in Workers : v # w => worker'[v] = worker[v]
      /\ worker' \in [Workers -> MmProcess \cup {Nothing}]
  BY <1>0, <1>1, <1>4 DEF MountTypes
<1>7. /\ ProcessesOf(d)' = ProcessesOf(d) \cup {w} /\ w \notin ProcessesOf(d)
      /\ \A v \in ProcessesOf(d) : worker'[v] = worker[v]
      /\ \A e : e # d => ProcessesOf(e)' = ProcessesOf(e)
      /\ \A e : \A v \in ProcessesOf(e) : worker'[v] = worker[v]
  BY <1>1, <1>4, <1>5, <1>6 DEF ProcessesOf
<1>8. MountTypes' /\ Givens'
  BY <1>0, <1>2, <1>3, <1>6 DEF MountTypes, Givens
<1>9. ASSUME NEW e \in Disks, e # d PROVE Device(e)'
  <2>1. Spared(e)
    BY <1>0, <1>2, <1>3, <1>7, <1>9 DEF Spared, MountTypes
  <2> QED
    BY <1>0, <2>1, Elsewhere
<1>10. Device(d) /\ (d \in there => first # "remove") /\ Mine(d)' = Mine(d)
  BY <1>0, <1>2, <1>3 DEF Device, Plugged, Mine
<1>11. Kinds(d)'
  <2>1. Kind(d, worker[w])'
    BY <1>2, <1>3, <1>4, <1>6, <1>10 DEF Kind, Device, Plugged, Removes, Action
  <2>2. ASSUME NEW v \in ProcessesOf(d) PROVE Kind(d, worker[v])'
    BY <1>2, <1>7, <1>10 DEF Device, Kinds, Kind
  <2> QED
    BY <1>2, <1>6, <1>7, <1>10, <2>1, <2>2 DEF Device, Kinds
<1>12. Plugged(d)'
  <2>1. ASSUME d \in there, d \in Drives
        PROVE  Waits("add", queue'[d]) \/ \E v \in ProcessesOf(d)' : worker'[v].poll
    <3>1. CASE first = "add"
      BY <1>4, <1>6, <1>7, <2>1, <3>1
    <3>2. CASE first # "add"
      BY <1>3, <1>7, <1>10, <2>1, <3>2 DEF Device, Plugged
    <3> QED
      BY <3>1, <3>2
  <2> QED
    BY <1>2, <1>3, <1>10, <2>1 DEF Device, Plugged
<1>13. ASSUME ~ Confused(d)' PROVE InOrder(d)'
  <2>1. InOrder(d) /\ d \notin muddled'
    BY <1>2, <1>10, <1>13, StaysConfused DEF Device, Confused
  <2>2. p.poll => \A v \in ProcessesOf(d) : worker[v].env = disc[d]
    BY <1>2, <1>4, <2>1
  <2>3. MountedOnce(d)'
    BY <1>2, <1>10, <2>1 DEF InOrder, MountedOnce
  <2>4. OneEnv(d)'
    <3>1. p.poll => \A v \in ProcessesOf(d) : worker[v].env = p.env
      BY <1>4, <2>2
    <3> QED
      BY <1>6, <1>7, <2>1, <3>1 DEF InOrder, OneEnv
  <2>5. OneName(d)'
    <3> SUFFICES ASSUME disc[d] # Nothing PROVE OneName(d)'
      BY <1>2 DEF OneName
    <3>1. first = "add"
      BY <1>3, <1>10 DEF Device, Plugged, Action
    <3>2. ASSUME NEW v \in ProcessesOf(d) PROVE Named(d, worker[v])'
      <4>1. Named(d, worker[v])
        BY <2>1 DEF InOrder, OneName
      <4> QED
        BY <1>2, <1>7, <1>10, <4>1 DEF Named, NameOf
    <3>3. ASSUME NEW n \in Mine(d) PROVE n = disc[d]
      <4>1. CASE d \in Sticks
        BY <2>1, <3>3, <4>1 DEF InOrder, OneName
      <4>2. CASE d \in Drives
        <5>1. PICK v \in ProcessesOf(d) : worker[v].at = "unplug"
          BY <2>1, <3>3, <4>2 DEF InOrder, Found
        <5>2. n = NameOf(worker[v])
          BY <2>1, <3>3, <5>1 DEF InOrder, OneName, Named
        <5>3. p.poll
          BY <1>4, <1>10, <3>1, <4>2 DEF Device, Plugged
        <5> QED
          BY <2>2, <5>2, <5>3 DEF NameOf
      <4> QED
        BY <4>1, <4>2, StickOrDrive
    <3>4. NameOf(worker[w])' = disc[d] /\ worker'[w].at \in {"plug", "add"}
      BY <1>2, <1>3, <1>4, <1>6, <3>1 DEF NameOf
    <3>5. Named(d, worker[w])'
      BY <1>6, <1>10, <3>3, <3>4 DEF Named
    <3> QED
      BY <1>2, <1>7, <1>10, <2>1, <3>2, <3>5 DEF InOrder, OneName
  <2>6. Tended(d)'
    BY <1>2, <1>7, <2>1 DEF InOrder, Tended
  <2>7. Found(d)'
    <3>1. first = "remove" => Finds(p, Mine(d))
      BY <1>4 DEF Finds
    <3> QED
      BY <1>2, <1>3, <1>6, <1>7, <1>10, <2>1, <3>1 DEF InOrder, Found
  <2>8. Awaited(d)'
    <3>1. first = "add" => Mounts(p)
      BY <1>4 DEF Mounts
    <3> QED
      BY <1>2, <1>3, <1>6, <1>7, <1>10, <2>1, <3>1 DEF InOrder, Awaited
  <2> QED
    BY <2>3, <2>4, <2>5, <2>6, <2>7, <2>8 DEF InOrder
<1> QED
  BY <1>8, <1>9, <1>11, <1>12, <1>13 DEF MountInv, Device

-----------------------------------------------------------------------------
(* A process does something.                                               *)

\* MmProcess w of d becomes next, or ends, and nothing moves but what it handles.
Steps(w, d, next) ==
  /\ w \in ProcessesOf(d)
  /\ UNCHANGED <<there, disc, queue, muddled>>
  /\ worker' \in [Workers -> MmProcess \cup {Nothing}]
  /\ worker'[w] = next /\ \A v \in Workers : v # w => worker'[v] = worker[v]
  /\ next = Nothing \/ /\ next.dev = d /\ next.poll = worker[w].poll
                       /\ next.env = worker[w].env
                       /\ worker[w].forked => next.forked
  /\ ProcessesOf(d)' = IF next = Nothing THEN ProcessesOf(d) \ {w} ELSE ProcessesOf(d)
  /\ \A e : e # d => ProcessesOf(e)' = ProcessesOf(e) /\ w \notin ProcessesOf(e)

\* What may become of a process.
Successor(me, next) ==
  next = Nothing \/ /\ next \in MmProcess
                    /\ next.dev = me.dev /\ next.poll = me.poll /\ next.env = me.env
                    /\ me.forked => next.forked

\* A process that becomes a successor of itself has made a step.
LEMMA Stepped ==
  ASSUME MountTypes, NEW d, NEW w \in ProcessesOf(d),
         NEW next, Becomes(w, next), Successor(worker[w], next),
         UNCHANGED <<there, disc, queue, muddled>>
  PROVE  Steps(w, d, next)
<1>0. w \in Workers /\ worker[w] # Nothing /\ worker[w].dev = d
  BY DEF ProcessesOf
<1>1. worker[w] \in MmProcess /\ \A e : w \in ProcessesOf(e) <=> e = d
  BY <1>0, OfOne
<1>2. next = Nothing \/ next \in MmProcess
  BY DEF Successor
<1>3. /\ worker' \in [Workers -> MmProcess \cup {Nothing}]
      /\ worker'[w] = next /\ \A v \in Workers : v # w => worker'[v] = worker[v]
  BY <1>0, <1>2 DEF Becomes, MountTypes
<1>4. /\ ProcessesOf(d)' = IF next = Nothing THEN ProcessesOf(d) \ {w} ELSE ProcessesOf(d)
      /\ \A e : e # d => ProcessesOf(e)' = ProcessesOf(e)
  <2>1. \A e : ProcessesOf(e)' \subseteq Workers /\ ProcessesOf(e) \subseteq Workers
    BY DEF ProcessesOf
  <2>2. \A e : \A v \in Workers : v # w => (v \in ProcessesOf(e)' <=> v \in ProcessesOf(e))
    BY <1>3 DEF ProcessesOf
  <2>3. \A e : w \in ProcessesOf(e)' <=> next # Nothing /\ e = d
    <3>1. next # Nothing => next.dev = d
      BY <1>0 DEF Successor
    <3> QED
      BY <1>0, <1>3, <3>1 DEF ProcessesOf
  <2>4. ASSUME NEW e, e # d PROVE ProcessesOf(e)' = ProcessesOf(e)
    BY <1>1, <2>1, <2>2, <2>3, <2>4
  <2>5. w \in ProcessesOf(d)
    BY <1>1
  <2>6. CASE next = Nothing
    <3>1. ProcessesOf(d)' = ProcessesOf(d) \ {w}
      BY <2>1, <2>2, <2>3, <2>6
    <3> QED
      BY <2>4, <2>6, <3>1
  <2>7. CASE next # Nothing
    <3>1. ProcessesOf(d)' = ProcessesOf(d)
      BY <2>1, <2>2, <2>3, <2>5, <2>7
    <3> QED
      BY <2>4, <2>7, <3>1
  <2> QED
    BY <2>6, <2>7
<1> QED
  BY <1>0, <1>1, <1>3, <1>4 DEF Steps, Successor

\* d touches no name but those given to it.
Reaches(d) ==
  /\ given \subseteq given' /\ dirs' \subseteq Labels
  /\ \A e \in Disks \ {d} : \A n \in Labels : <<e, n>> \in given' => <<e, n>> \in given
  /\ \A n \in Labels : <<d, n>> \notin given' =>
       stack'[n] = stack[n] /\ (n \in dirs' <=> n \in dirs)

\* A process of d does not concern the devices that share no name with it.
LEMMA StepSpares ==
  ASSUME MountTypes, NEW d \in Disks, NEW w, NEW next, Steps(w, d, next), Reaches(d),
         NEW e \in Disks, e # d
  PROVE  Spared(e)
<1>1. ASSUME ~ Confused(e)', NEW n \in Labels, <<e, n>> \in given
      PROVE  <<d, n>> \notin given'
  <2>1. <<e, n>> \in given'
    BY <1>1 DEF Reaches
  <2> QED
    BY <1>1, <2>1 DEF Confused
<1>2. \A v \in ProcessesOf(e) : worker'[v] = worker[v]
  BY DEF Steps, ProcessesOf
<1>3. /\ disc'[e] = disc[e] /\ (e \in there' <=> e \in there) /\ queue'[e] = queue[e]
      /\ ProcessesOf(e)' = ProcessesOf(e)
      /\ muddled \subseteq muddled'
  BY DEF Steps
<1>4. ASSUME ~ Confused(e)', NEW n \in Labels
      PROVE  /\ <<e, n>> \in given' <=> <<e, n>> \in given
             /\ <<e, n>> \in given => stack'[n] = stack[n] /\ (n \in dirs' <=> n \in dirs)
  BY <1>1, <1>4 DEF Reaches
<1> QED
  BY <1>2, <1>3, <1>4 DEF Spared, Reaches

\* A process of d that stays one leaves its device polled.
LEMMA StepKinds ==
  ASSUME NEW d \in Disks, Device(d), NEW w, NEW next, Steps(w, d, next), Reaches(d),
         IF next = Nothing THEN worker[w].poll => d \notin there ELSE Kind(d, worker[w])'
  PROVE  /\ Kinds(d)' /\ Plugged(d)'
         /\ OneEnv(d) => OneEnv(d)'
<1>1. /\ w \in ProcessesOf(d) /\ UNCHANGED <<there, disc, queue, muddled>>
      /\ worker'[w] = next /\ \A v \in ProcessesOf(d) : v # w => worker'[v] = worker[v]
      /\ ProcessesOf(d)' = IF next = Nothing THEN ProcessesOf(d) \ {w} ELSE ProcessesOf(d)
      /\ given \subseteq given'
  BY DEF Steps, Reaches, ProcessesOf
<1>2. next # Nothing => /\ next.poll = worker[w].poll /\ next.env = worker[w].env
                        /\ worker[w].forked => next.forked
  BY DEF Steps
<1>3. Kinds(d)'
  <2>1. ASSUME NEW v \in ProcessesOf(d), v # w PROVE Kind(d, worker[v])'
    BY <1>1, <2>1 DEF Device, Kinds, Kind
  <2> QED
    BY <1>1, <1>2, <2>1 DEF Device, Kinds
<1>4. Plugged(d)'
  <2>1. ASSUME d \in there, NEW v \in ProcessesOf(d), worker[v].poll
        PROVE  \E u \in ProcessesOf(d)' : worker'[u].poll
    BY <1>1, <1>2, <2>1
  <2> QED
    BY <1>1, <2>1 DEF Device, Plugged
<1>5. OneEnv(d) => OneEnv(d)'
  BY <1>1, <1>2 DEF OneEnv
<1> QED
  BY <1>3, <1>4, <1>5

\* A step that mounts and unmounts nothing.
LEMMA StepOrder ==
  ASSUME NEW d \in Disks, Device(d), InOrder(d), NEW w, NEW next, Steps(w, d, next),
         OneEnv(d)', stack' = stack, Mine(d)' = Mine(d),
         disc[d] # Nothing => dirs \subseteq dirs',
         \A m \in dirs' : <<d, m>> \in given' /\ stack[m] = <<>> =>
           \/ next # Nothing /\ Tends(next, m)
           \/ m \in dirs /\ <<d, m>> \in given /\ ~ Tends(worker[w], m),
         disc[d] # Nothing /\ next # Nothing => Named(d, worker[w])',
         IF disc[d] = Nothing
         THEN Finds(worker[w], Mine(d)) /\ Mine(d) # {} =>
                next # Nothing /\ Finds(next, Mine(d))
         ELSE worker[w].at = "unplug" => next # Nothing /\ next.at = "unplug",
         disc[d] # Nothing /\ Mounts(worker[w]) =>
           (next # Nothing /\ Mounts(next)) \/ Mine(d) # {}
  PROVE  InOrder(d)'
<1>1. /\ w \in ProcessesOf(d) /\ UNCHANGED <<disc, queue>>
      /\ worker'[w] = next /\ \A v \in ProcessesOf(d) : v # w => worker'[v] = worker[v]
      /\ ProcessesOf(d)' = IF next = Nothing THEN ProcessesOf(d) \ {w} ELSE ProcessesOf(d)
  BY DEF Steps, ProcessesOf
<1>2. MountedOnce(d)'
  BY DEF InOrder, MountedOnce
<1>3. OneName(d)'
  <2>1. ASSUME disc[d] # Nothing, NEW v \in ProcessesOf(d), v # w
        PROVE  Named(d, worker[v])'
    <3>1. Named(d, worker[v]) /\ worker'[v] = worker[v]
      BY <1>1, <2>1 DEF InOrder, OneName
    <3> QED
      BY <1>1, <2>1, <3>1 DEF Named, NameOf
  <2> QED
    BY <1>1, <2>1 DEF InOrder, OneName
<1>4. Tended(d)'
  <2> SUFFICES ASSUME NEW m \in dirs', <<d, m>> \in given', stack[m] = <<>>
               PROVE  \E v \in ProcessesOf(d)' : Tends(worker'[v], m)
    BY DEF Tended
  <2>1. CASE next # Nothing /\ Tends(next, m)
    BY <1>1, <2>1
  <2>2. CASE m \in dirs /\ <<d, m>> \in given /\ ~ Tends(worker[w], m)
    <3>1. PICK v \in ProcessesOf(d) : Tends(worker[v], m)
      BY <2>2 DEF InOrder, Tended
    <3> QED
      BY <1>1, <2>2, <3>1
  <2> QED
    BY <2>1, <2>2
<1>5. Found(d)'
  <2> SUFFICES ASSUME Mine(d) # {} PROVE Found(d)'
    BY DEF Found
  <2>1. CASE disc[d] = Nothing
    <3>1. CASE Waits("remove", queue[d])
      BY <1>1, <2>1, <3>1 DEF Found
    <3>2. CASE \E v \in ProcessesOf(d) : Finds(worker[v], Mine(d))
      <4>1. \E v \in ProcessesOf(d)' : Finds(worker'[v], Mine(d))
        BY <1>1, <2>1, <3>2
      <4> QED
        BY <1>1, <2>1, <4>1 DEF Found
    <3> QED
      BY <2>1, <3>1, <3>2 DEF InOrder, Found
  <2>2. CASE disc[d] # Nothing
    BY <1>1, <2>2 DEF InOrder, Found
  <2> QED
    BY <2>1, <2>2
<1>6. Awaited(d)'
  BY <1>1 DEF InOrder, Awaited
<1> QED
  BY <1>2, <1>3, <1>4, <1>5, <1>6 DEF InOrder

\* What is shown of every step of a process w of d.
Kept(d, w) ==
  /\ Device(d)' /\ Givens' /\ Reaches(d)
  /\ stack' \in [Labels -> Seq(Disks)]
  /\ \E next : Steps(w, d, next)

\* A step that touches neither mounts nor directories nor names.
LEMMA MediaStay ==
  ASSUME MountTypes, Givens, NEW d \in Disks, Device(d), NEW w, NEW next, Steps(w, d, next),
         UNCHANGED <<stack, dirs, given>>,
         IF next = Nothing THEN worker[w].poll => d \notin there ELSE Kind(d, next),
         ~ Confused(d) =>
           /\ \A m : Tends(worker[w], m) => next # Nothing /\ Tends(next, m)
           /\ disc[d] # Nothing /\ next # Nothing => Named(d, next)
           /\ IF disc[d] = Nothing
              THEN Finds(worker[w], Mine(d)) /\ Mine(d) # {} =>
                     next # Nothing /\ Finds(next, Mine(d))
              ELSE worker[w].at = "unplug" => next # Nothing /\ next.at = "unplug"
           /\ disc[d] # Nothing /\ Mounts(worker[w]) =>
                (next # Nothing /\ Mounts(next)) \/ Mine(d) # {}
  PROVE  Kept(d, w)
<1>1. worker'[w] = next /\ disc' = disc /\ muddled' = muddled
  BY DEF Steps
<1>2. Reaches(d) /\ Givens' /\ stack' \in [Labels -> Seq(Disks)] /\ Mine(d)' = Mine(d)
  BY DEF Reaches, Givens, MountTypes, Mine
<1>3. next # Nothing => Kind(d, worker[w])'
  BY <1>1 DEF Kind
<1>4. Kinds(d)' /\ Plugged(d)' /\ (OneEnv(d) => OneEnv(d)')
  BY <1>2, <1>3, StepKinds
<1>5. ASSUME ~ Confused(d)' PROVE InOrder(d)'
  <2>1. ~ Confused(d) /\ InOrder(d)
    BY <1>1, <1>5, StaysConfused DEF Device
  <2>2. OneEnv(d)'
    BY <1>4, <2>1 DEF InOrder
  <2>3. disc[d] # Nothing /\ next # Nothing => Named(d, worker[w])'
    BY <1>1, <1>2, <2>1 DEF Named, NameOf
  <2>4. dirs' = dirs /\ given' = given /\ stack' = stack
    OBVIOUS
  <2>5. \A m \in dirs' : <<d, m>> \in given' /\ stack[m] = <<>> =>
          \/ next # Nothing /\ Tends(next, m)
          \/ m \in dirs /\ <<d, m>> \in given /\ ~ Tends(worker[w], m)
    BY <2>1, <2>4
  <2> QED
    BY <1>2, <2>1, <2>2, <2>3, <2>4, <2>5, StepOrder
<1> QED
  BY <1>2, <1>4, <1>5 DEF Kept, Device

\* The script has ended.
Ended(me, next, at) ==
  IF ~ me.poll THEN next = Nothing
  ELSE /\ next \in MmProcess /\ next # Nothing
       /\ next.dev = me.dev /\ next.poll = me.poll /\ next.env = me.env
       /\ next.at = at /\ next.dir = Nothing
       /\ next.forked <=> me.forked \/ at = "plug"

\* Ends is a step.
LEMMA EndsAt ==
  ASSUME MountTypes, NEW d, NEW w \in ProcessesOf(d), NEW at \in {"plug", "unplug"},
         Ends(w, at), UNCHANGED <<there, disc, queue, muddled>>
  PROVE  \E next : Steps(w, d, next) /\ Ended(worker[w], next, at)
<1> DEFINE me == worker[w]
           next == IF ~ me.poll THEN Nothing
                   ELSE [me EXCEPT !.at = at, !.dir = Nothing, !.forked = @ \/ at = "plug"]
<1>1. w \in Workers /\ me \in MmProcess
  BY OfOne DEF ProcessesOf
<1>2. Ended(me, next, at)
  <2>1. CASE ~ me.poll
    BY <2>1 DEF Ended
  <2>2. CASE me.poll
    <3>1. /\ next \in MmProcess
          /\ next.dev = me.dev /\ next.poll = me.poll /\ next.env = me.env
          /\ next.at = at /\ next.dir = Nothing
          /\ next.forked <=> me.forked \/ at = "plug"
      BY <1>1, <2>2 DEF MmProcess, MmStages
    <3>2. Nothing \notin MmProcess
      BY MinimountAssumption
    <3> HIDE DEF next
    <3> QED
      BY <2>2, <3>1, <3>2 DEF Ended
  <2> QED
    BY <2>1, <2>2
<1>3. Successor(me, next)
  BY <1>2 DEF Ended, Successor
<1>4. Becomes(w, next)
  BY DEF Ends
<1> HIDE DEF next
<1>5. Steps(w, d, next)
  BY <1>3, <1>4, Stepped
<1> QED
  BY <1>2, <1>5

\* next is a process like me that stands at `at' and has n.
Like(me, next, at, n) ==
  /\ next \in MmProcess /\ next # Nothing
  /\ next.dev = me.dev /\ next.poll = me.poll /\ next.env = me.env
  /\ next.at = at /\ next.dir = n

\* What EXCEPT makes of a process.
LEMMA Went ==
  ASSUME NEW me \in MmProcess, NEW at \in MmStages, NEW n \in Name
  PROVE  /\ Like(me, [me EXCEPT !.at = at], at, me.dir)
         /\ [me EXCEPT !.at = at].forked = me.forked
         /\ Like(me, [me EXCEPT !.at = at, !.dir = n], at, n)
         /\ [me EXCEPT !.at = at, !.dir = n].forked = me.forked
<1>1. Nothing \notin MmProcess
  BY MinimountAssumption
<1>2. /\ Like(me, [me EXCEPT !.at = at], at, me.dir)
      /\ [me EXCEPT !.at = at].forked = me.forked
  BY <1>1 DEF Like, MmProcess
<1>3. /\ Like(me, [me EXCEPT !.at = at, !.dir = n], at, n)
      /\ [me EXCEPT !.at = at, !.dir = n].forked = me.forked
  BY <1>1 DEF Like, MmProcess, Name
<1> QED
  BY <1>2, <1>3

\* The same, of one that forks.
LEMMA Waited ==
  ASSUME NEW me \in MmProcess
  PROVE  /\ Like(me, [me EXCEPT !.forked = TRUE], me.at, me.dir)
         /\ [me EXCEPT !.forked = TRUE].forked = TRUE
<1>1. Nothing \notin MmProcess
  BY MinimountAssumption
<1> QED
  BY <1>1 DEF Like, MmProcess

\* A process that goes on is a step.
LEMMA LikeSteps ==
  ASSUME MountTypes, NEW d, NEW w \in ProcessesOf(d), NEW at, NEW n, NEW next,
         Like(worker[w], next, at, n), worker[w].forked => next.forked,
         Becomes(w, next), UNCHANGED <<there, disc, queue, muddled>>
  PROVE  Steps(w, d, next)
<1>1. Successor(worker[w], next)
  BY DEF Like, Successor
<1> QED
  BY <1>1, Stepped

\* The lines of /proc/mounts, where d has its names for itself.
LEMMA LinesAre ==
  ASSUME MountTypes, Givens, NEW d \in Disks, MountedOnce(d)
  PROVE  /\ Mine(d) = {} => Lines(d) = {} /\ Cardinality(Lines(d)) = 0
         /\ \A n \in Mine(d) : Lines(d) = {<<n, 1>>} /\ Cardinality(Lines(d)) = 1
<1>1. ASSUME NEW l \in Lines(d) PROVE l[1] \in Mine(d) /\ l \in {l[1]} \X DOMAIN stack[l[1]]
  <2>1. PICK n \in Labels : l \in {n} \X DOMAIN stack[n]
    BY <1>1 DEF Lines
  <2>2. l[1] = n /\ l[2] \in DOMAIN stack[n] /\ stack[n][l[2]] = d
    BY <1>1, <2>1 DEF Lines
  <2>3. <<d, n>> \in given
    BY <2>2 DEF Givens
  <2>4. stack[n] # <<>>
    BY <2>2
  <2> QED
    BY <2>1, <2>2, <2>3, <2>4 DEF Mine
<1>2. CASE Mine(d) = {}
  <2>1. Lines(d) = {}
    BY <1>1, <1>2
  <2> QED
    BY <1>2, <2>1, FS_EmptySet
<1>3. ASSUME NEW n \in Mine(d) PROVE Lines(d) = {<<n, 1>>} /\ Cardinality(Lines(d)) = 1
  <2>1. stack[n] = <<d>> /\ n \in Labels
    BY <1>3 DEF MountedOnce, Mine
  <2>2. DOMAIN stack[n] = {1} /\ stack[n][1] = d
    BY <2>1
  <2>3. <<n, 1>> \in Lines(d)
    BY <2>1, <2>2 DEF Lines
  <2>4. ASSUME NEW l \in Lines(d) PROVE l = <<n, 1>>
    <3>1. l[1] \in Mine(d) /\ l \in {l[1]} \X DOMAIN stack[l[1]]
      BY <1>1
    <3>2. l[1] = n
      BY <1>3, <3>1 DEF MountedOnce
    <3> QED
      BY <2>2, <3>1, <3>2
  <2>5. Lines(d) = {<<n, 1>>}
    BY <2>3, <2>4
  <2> QED
    BY <2>5, FS_Singleton
<1> QED
  BY <1>2, <1>3

\* What is left of a process is one of d, or the end of one that does not poll.
LEMMA EndedKind ==
  ASSUME NEW d \in Disks, NEW me, Kind(d, me), NEW at \in {"plug", "unplug"},
         NEW next, Ended(me, next, at)
  PROVE  IF next = Nothing THEN ~ me.poll ELSE Kind(d, next) /\ next.poll
<1>1. CASE ~ me.poll
  BY <1>1 DEF Ended
<1>2. CASE me.poll
  BY <1>2 DEF Ended, Kind, Removes
<1> QED
  BY <1>1, <1>2

\* What is known of a process of d.
LEMMA OfD ==
  ASSUME MountTypes, NEW d, Device(d), NEW w \in ProcessesOf(d)
  PROVE  /\ worker[w] \in MmProcess /\ worker[w].dev = d /\ Kind(d, worker[w])
         /\ worker[w].at \in MmStages /\ worker[w].dir \in Name /\ worker[w].forked \in BOOLEAN
<1>1. worker[w] \in MmProcess /\ worker[w].dev = d
  BY OfOne DEF ProcessesOf
<1>2. Kind(d, worker[w])
  BY DEF Device, Kinds
<1> QED
  BY <1>1, <1>2 DEF MmProcess, Name

\* poll_device_plug
LEMMA PollPlugKeeps ==
  ASSUME MountTypes, Givens, NEW d \in Disks, Device(d), NEW w \in ProcessesOf(d),
         PollPlug(w), UNCHANGED <<there, disc, queue, muddled>>
  PROVE  Kept(d, w)
<1> DEFINE me == worker[w]
<1>1. /\ me \in MmProcess /\ me.dev = d /\ Kind(d, me)
      /\ me.at \in MmStages /\ me.dir \in Name
      /\ me.at = "plug" /\ me.poll
  BY OfD DEF PollPlug, Stands, Kind
<1>2. UNCHANGED <<stack, dirs, given>> /\ \A m : ~ Tends(me, m)
  BY <1>1 DEF PollPlug, Media, Tends
<1>3. ~ Confused(d) => InOrder(d)
  BY DEF Device
<1>4. CASE disc[d] # Nothing /\ Goes(w, "add")
  <2> DEFINE next == [me EXCEPT !.at = "add"]
  <2>1. Like(me, next, "add", me.dir) /\ next.forked = me.forked
    BY <1>1, Went DEF MmStages
  <2>2. Becomes(w, next)
    BY <1>4 DEF Goes
  <2> HIDE DEF next
  <2>3. Steps(w, d, next)
    BY <2>1, <2>2, LikeSteps
  <2>4. Kind(d, next) /\ next # Nothing /\ next.at = "add" /\ NameOf(next) = NameOf(me)
    BY <1>1, <2>1 DEF Kind, Removes, Like, NameOf
  <2>5. ~ Confused(d) => Named(d, next)
    BY <1>3, <1>4, <2>4 DEF InOrder, OneName, Named
  <2>6. Mounts(next)
    BY <2>4 DEF Mounts
  <2> QED
    BY <1>1, <1>2, <1>4, <2>3, <2>4, <2>5, <2>6, MediaStay
<1>5. CASE disc[d] = Nothing /\ Becomes(w, [me EXCEPT !.forked = TRUE])
  <2> DEFINE next == [me EXCEPT !.forked = TRUE]
  <2>1. Like(me, next, me.at, me.dir) /\ next.forked = TRUE
    BY <1>1, Waited
  <2>2. Becomes(w, next)
    BY <1>5
  <2> HIDE DEF next
  <2>3. Steps(w, d, next)
    BY <2>1, <2>2, LikeSteps
  <2>4. Kind(d, next) /\ next # Nothing
    BY <1>1, <2>1 DEF Kind, Like
  <2>5. ~ Finds(me, Mine(d))
    BY <1>1 DEF Finds
  <2> QED
    BY <1>1, <1>2, <1>5, <2>3, <2>4, <2>5, MediaStay
<1>6. CASE d \notin there /\ Becomes(w, Nothing)
  <2>1. Steps(w, d, Nothing)
    <3>1. Successor(me, Nothing)
      BY DEF Successor
    <3> QED
      BY <1>6, <3>1, Stepped
  <2>2. disc[d] = Nothing /\ ~ Finds(me, Mine(d))
    BY <1>1, <1>6 DEF Device, Plugged, Finds
  <2> QED
    BY <1>2, <1>6, <2>1, <2>2, MediaStay
<1> QED
  BY <1>1, <1>4, <1>5, <1>6 DEF PollPlug

\* poll_device_unplug
LEMMA PollUnplugKeeps ==
  ASSUME MountTypes, Givens, NEW d \in Disks, Device(d), NEW w \in ProcessesOf(d),
         PollUnplug(w), UNCHANGED <<there, disc, queue, muddled>>
  PROVE  Kept(d, w)
<1> DEFINE me == worker[w]
<1>1. /\ me \in MmProcess /\ me.dev = d /\ Kind(d, me)
      /\ me.at \in MmStages /\ me.dir \in Name
      /\ me.at = "unplug" /\ me.poll
  BY OfD DEF PollUnplug, Stands, Kind
<1>2. UNCHANGED <<stack, dirs, given>> /\ \A m : ~ Tends(me, m)
  BY <1>1 DEF PollUnplug, Media, Tends
<1>3. ~ Confused(d) => InOrder(d)
  BY DEF Device
<1>4. ~ Mounts(me)
  BY <1>1 DEF Mounts
<1>5. CASE disc[d] # Nothing /\ Becomes(w, [me EXCEPT !.forked = TRUE])
  <2> DEFINE next == [me EXCEPT !.forked = TRUE]
  <2>1. Like(me, next, me.at, me.dir) /\ next.forked = TRUE
    BY <1>1, Waited
  <2>2. Becomes(w, next)
    BY <1>5
  <2> HIDE DEF next
  <2>3. Steps(w, d, next)
    BY <2>1, <2>2, LikeSteps
  <2>4. Kind(d, next) /\ next # Nothing /\ next.at = "unplug" /\ NameOf(next) = NameOf(me)
    BY <1>1, <2>1 DEF Kind, Like, NameOf
  <2>5. ~ Confused(d) => Named(d, next)
    BY <1>1, <1>3, <1>5, <2>4 DEF InOrder, OneName, Named
  <2> QED
    BY <1>2, <1>4, <1>5, <2>3, <2>4, <2>5, MediaStay
<1>6. CASE disc[d] = Nothing /\ Goes(w, "remove")
  <2> DEFINE next == [me EXCEPT !.at = "remove"]
  <2>1. Like(me, next, "remove", me.dir) /\ next.forked = me.forked
    BY <1>1, Went DEF MmStages
  <2>2. Becomes(w, next)
    BY <1>6 DEF Goes
  <2> HIDE DEF next
  <2>3. Steps(w, d, next)
    BY <2>1, <2>2, LikeSteps
  <2>4. Kind(d, next) /\ next # Nothing /\ Finds(next, Mine(d))
    BY <1>1, <1>6, <2>1 DEF Kind, Like, Finds
  <2> QED
    BY <1>2, <1>6, <2>3, <2>4, MediaStay
<1> QED
  BY <1>1, <1>5, <1>6 DEF PollUnplug

\* minimount remove: grep in /proc/mounts
LEMMA FindMountKeeps ==
  ASSUME MountTypes, Givens, NEW d \in Disks, Device(d), NEW w \in ProcessesOf(d),
         FindMount(w), UNCHANGED <<there, disc, queue, muddled>>
  PROVE  Kept(d, w)
<1> DEFINE me == worker[w]
<1>1. /\ me \in MmProcess /\ me.dev = d /\ Kind(d, me)
      /\ me.at \in MmStages /\ me.dir \in Name
      /\ me.at = "remove" /\ disc[d] = Nothing
  BY OfD DEF FindMount, Stands, Kind, Removes
<1>2. UNCHANGED <<stack, dirs, given>> /\ \A m : ~ Tends(me, m)
  BY <1>1 DEF FindMount, Media, Tends
<1>3. ~ Confused(d) => MountedOnce(d)
  BY DEF Device, InOrder
<1>4. ASSUME Cardinality(Lines(d)) = 1, NEW l \in Lines(d),
             Becomes(w, [me EXCEPT !.at = "umount", !.dir = l[1]])
      PROVE  Kept(d, w)
  <2> DEFINE next == [me EXCEPT !.at = "umount", !.dir = l[1]]
  <2>1. l[1] \in Labels /\ <<d, l[1]>> \in given
    BY <1>4 DEF Lines, Givens
  <2>2. Like(me, next, "umount", l[1]) /\ next.forked = me.forked
    BY <1>1, <2>1, Went DEF MmStages, Name
  <2>3. Becomes(w, next)
    BY <1>4
  <2> HIDE DEF next
  <2>4. Steps(w, d, next)
    BY <2>2, <2>3, LikeSteps
  <2>5. Kind(d, next) /\ next # Nothing
    BY <1>1, <2>1, <2>2, StickOrDrive DEF Kind, Like, Removes
  <2>6. ~ Confused(d) /\ Mine(d) # {} => Finds(next, Mine(d))
    <3>1. \A n \in Mine(d) : MountedOnce(d) => Lines(d) = {<<n, 1>>}
      BY LinesAre
    <3>2. ~ Confused(d) /\ Mine(d) # {} => l[1] \in Mine(d)
      BY <1>3, <1>4, <3>1
    <3> QED
      BY <2>2, <3>2 DEF Finds, Like
  <2> QED
    BY <1>1, <1>2, <2>4, <2>5, <2>6, MediaStay
<1>5. CASE Cardinality(Lines(d)) # 1 /\ Ends(w, "plug")
  <2>1. PICK next : Steps(w, d, next) /\ Ended(me, next, "plug")
    BY <1>5, EndsAt
  <2>2. IF next = Nothing THEN ~ me.poll ELSE Kind(d, next)
    BY <1>1, <2>1, EndedKind
  <2>3. ~ Confused(d) => Mine(d) = {}
    BY <1>3, <1>5, LinesAre
  <2> QED
    BY <1>1, <1>2, <2>1, <2>2, <2>3, MediaStay
<1> QED
  BY <1>1, <1>4, <1>5 DEF FindMount

\* minimount add: the name
LEMMA AddKeeps ==
  ASSUME MountTypes, Givens, NEW d \in Disks, Device(d), NEW w \in ProcessesOf(d),
         Add(w), UNCHANGED <<there, disc, queue, muddled>>
  PROVE  Kept(d, w)
<1> DEFINE me == worker[w]
           n  == NameOf(me)
<1>1. /\ me \in MmProcess /\ me.dev = d /\ Kind(d, me)
      /\ me.at \in MmStages /\ me.dir \in Name
      /\ me.at = "add"
  BY OfD DEF Add, Stands
<1>2. UNCHANGED <<stack, dirs>> /\ \A m : ~ Tends(me, m)
  BY <1>1 DEF Add, Tends
<1>3. ~ Confused(d) => InOrder(d)
  BY DEF Device
<1>4. CASE n = Nothing /\ Ends(w, "unplug") /\ given' = given
  <2>1. PICK next : Steps(w, d, next) /\ Ended(me, next, "unplug")
    BY <1>4, EndsAt
  <2>2. IF next = Nothing THEN ~ me.poll ELSE Kind(d, next) /\ next.poll
    BY <1>1, <2>1, EndedKind
  <2>3. disc[d] = Nothing
    BY <1>1, <1>4 DEF NameOf
  <2>4. Finds(me, Mine(d)) => next # Nothing /\ Finds(next, Mine(d))
    BY <1>1, <2>1 DEF Finds, Ended
  <2> QED
    BY <1>2, <1>4, <2>1, <2>2, <2>3, <2>4, MediaStay
<1>5. ASSUME n # Nothing, Becomes(w, [me EXCEPT !.at = "mkdir", !.dir = n]),
             given' = given \cup {<<d, n>>}
      PROVE  Kept(d, w)
  <2> DEFINE next == [me EXCEPT !.at = "mkdir", !.dir = n]
  <2>1. n \in Labels /\ n \in Name
    BY <1>1, <1>5 DEF NameOf, Name, MmProcess, MountTypes
  <2>2. Like(me, next, "mkdir", n) /\ next.forked = me.forked
    BY <1>1, <2>1, Went DEF MmStages
  <2>3. Becomes(w, next)
    BY <1>5
  <2> HIDE DEF next
  <2>4. Steps(w, d, next) /\ worker'[w] = next /\ disc' = disc /\ next # Nothing
    <3>1. Steps(w, d, next)
      BY <2>2, <2>3, LikeSteps
    <3> QED
      BY <2>2, <3>1 DEF Steps, Like
  <2>5. Reaches(d)
    BY <1>2, <1>5, <2>1 DEF Reaches, MountTypes
  <2>6. Givens' /\ stack' \in [Labels -> Seq(Disks)]
    BY <1>2, <1>5, <2>1 DEF Givens, MountTypes
  <2>7. Kind(d, worker[w])'
    BY <1>1, <1>5, <2>1, <2>2, <2>4 DEF Kind, Like, Removes
  <2>8. Kinds(d)' /\ Plugged(d)' /\ (OneEnv(d) => OneEnv(d)')
    BY <2>4, <2>5, <2>7, StepKinds
  <2>9. ASSUME ~ Confused(d)' PROVE InOrder(d)'
    <3>1. ~ Confused(d) /\ InOrder(d)
      BY <1>3, <2>4, <2>5, <2>9, StaysConfused DEF Reaches, Steps
    <3>2. ASSUME NEW m \in dirs, <<d, m>> \in given' PROVE <<d, m>> \in given
      <4>1. PICK e \in Disks : <<e, m>> \in given
        BY DEF Givens
      <4>2. m \in Labels /\ <<e, m>> \in given'
        BY <1>5, <4>1 DEF MountTypes
      <4>3. e = d
        BY <2>9, <3>2, <4>2 DEF Confused
      <4> QED
        BY <4>1, <4>3
    <3>3. Mine(d)' = Mine(d)
      BY <1>2, <1>5, <3>2 DEF Mine, Givens
    <3>4. NameOf(next) = n /\ next.dir = n /\ next.at = "mkdir" /\ next.poll = me.poll
      BY <1>1, <2>2 DEF NameOf, Like
    <3>5. disc[d] # Nothing => Named(d, worker[w])'
      <4>1. disc[d] # Nothing => \A m \in Mine(d) : m = n
        BY <3>1 DEF InOrder, OneName, Named
      <4>2. (NameOf(worker[w]))' = NameOf(next)
        BY <2>4 DEF NameOf
      <4> QED
        BY <2>4, <3>3, <3>4, <4>1, <4>2 DEF Named
    <3>6. /\ Finds(me, Mine(d)) => Finds(next, Mine(d))
          /\ Mounts(next)
      BY <1>1, <3>4 DEF Finds, Mounts
    <3>7. dirs' = dirs /\ \A m \in dirs' : <<d, m>> \in given' /\ stack[m] = <<>> =>
             m \in dirs /\ <<d, m>> \in given /\ ~ Tends(me, m)
      BY <1>2, <3>2
    <3>8. OneEnv(d)' /\ stack' = stack /\ me.at # "unplug"
      BY <1>1, <1>2, <2>8, <3>1 DEF InOrder
    <3> QED
      BY <2>4, <3>1, <3>3, <3>5, <3>6, <3>7, <3>8, StepOrder
  <2> QED
    BY <2>4, <2>5, <2>6, <2>8, <2>9 DEF Kept, Device
<1> QED
  BY <1>1, <1>4, <1>5 DEF Add, NameOf

\* mkdir -p
LEMMA MkdirKeeps ==
  ASSUME MountTypes, Givens, NEW d \in Disks, Device(d), NEW w \in ProcessesOf(d),
         Mkdir(w), UNCHANGED <<there, disc, queue, muddled>>
  PROVE  Kept(d, w)
<1> DEFINE me   == worker[w]
           n    == me.dir
           next == [me EXCEPT !.at = "mount"]
<1>1. /\ me \in MmProcess /\ me.dev = d /\ Kind(d, me)
      /\ me.at \in MmStages /\ me.dir \in Name
      /\ me.at = "mkdir"
  BY OfD DEF Mkdir, Stands
<1>2. n \in Labels /\ <<d, n>> \in given
  BY <1>1 DEF Kind, Name
<1>3. UNCHANGED <<stack, given>> /\ dirs' = dirs \cup {n} /\ \A m : ~ Tends(me, m)
  BY <1>1 DEF Mkdir, Tends
<1>4. Like(me, next, "mount", n) /\ next.forked = me.forked
  BY <1>1, Went DEF MmStages
<1>5. Becomes(w, next)
  BY DEF Mkdir, Goes
<1> HIDE DEF next
<1>6. Steps(w, d, next) /\ worker'[w] = next /\ disc' = disc /\ next # Nothing
  <2>1. Steps(w, d, next)
    BY <1>4, <1>5, LikeSteps
  <2> QED
    BY <1>4, <2>1 DEF Steps, Like
<1>7. Reaches(d)
  BY <1>2, <1>3 DEF Reaches, MountTypes
<1>8. Givens' /\ stack' \in [Labels -> Seq(Disks)]
  BY <1>2, <1>3 DEF Givens, MountTypes
<1>9. Kind(d, worker[w])'
  BY <1>1, <1>2, <1>3, <1>4, <1>6 DEF Kind, Like, Removes
<1>10. Kinds(d)' /\ Plugged(d)' /\ (OneEnv(d) => OneEnv(d)')
  BY <1>6, <1>7, <1>9, StepKinds
<1>11. ASSUME ~ Confused(d)' PROVE InOrder(d)'
  <2>1. ~ Confused(d) /\ InOrder(d)
    BY <1>6, <1>7, <1>11, StaysConfused DEF Reaches, Steps, Device
  <2>2. Mine(d)' = Mine(d)
    BY <1>3 DEF Mine
  <2>3. NameOf(next) = NameOf(me) /\ next.dir = n /\ next.at = "mount" /\ next.poll = me.poll
    BY <1>1, <1>4 DEF NameOf, Like
  <2>4. disc[d] # Nothing => Named(d, worker[w])'
    <3>1. disc[d] # Nothing => n = NameOf(me) /\ \A m \in Mine(d) : m = NameOf(me)
      BY <1>1, <2>1 DEF InOrder, OneName, Named
    <3>2. (NameOf(worker[w]))' = NameOf(next)
      BY <1>6 DEF NameOf
    <3> QED
      BY <1>3, <1>6, <2>2, <2>3, <3>1, <3>2 DEF Named
  <2>5. /\ Finds(me, Mine(d)) => Finds(next, Mine(d))
        /\ Mounts(next)
    BY <1>1, <2>3 DEF Finds, Mounts
  <2>6. dirs \subseteq dirs' /\ \A m \in dirs' : <<d, m>> \in given' /\ stack[m] = <<>> =>
          \/ Tends(next, m)
          \/ m \in dirs /\ <<d, m>> \in given /\ ~ Tends(me, m)
    BY <1>3, <2>3 DEF Tends
  <2>7. OneEnv(d)' /\ stack' = stack /\ me.at # "unplug"
    BY <1>1, <1>3, <1>10, <2>1 DEF InOrder
  <2> QED
    BY <1>6, <2>1, <2>2, <2>4, <2>5, <2>6, <2>7, StepOrder
<1> QED
  BY <1>6, <1>7, <1>8, <1>10, <1>11 DEF Kept, Device

\* rmdir
LEMMA RmdirKeeps ==
  ASSUME MountTypes, Givens, NEW d \in Disks, Device(d), NEW w \in ProcessesOf(d),
         NEW from, NEW to,
         \/ from = "unmade" /\ to = "unplug"
         \/ from = "rmdir" /\ to = "plug",
         Rmdir(w, from, to), UNCHANGED <<there, disc, queue, muddled>>
  PROVE  Kept(d, w)
<1> DEFINE me == worker[w]
           n  == me.dir
<1>1. /\ me \in MmProcess /\ me.dev = d /\ Kind(d, me)
      /\ me.at \in MmStages /\ me.dir \in Name
      /\ me.at = from
  BY OfD DEF Rmdir, Stands
<1>2. n \in Labels /\ <<d, n>> \in given
  BY <1>1 DEF Kind, Name
<1>3. /\ UNCHANGED <<stack, given>> /\ Ends(w, to)
      /\ dirs' = IF stack[n] = <<>> THEN dirs \ {n} ELSE dirs
  BY DEF Rmdir
<1>4. PICK next : Steps(w, d, next) /\ Ended(me, next, to)
  BY <1>3, EndsAt
<1>5. worker'[w] = next /\ disc' = disc
  BY <1>4 DEF Steps
<1>6. IF next = Nothing THEN ~ me.poll ELSE Kind(d, next) /\ next.poll
  BY <1>1, <1>4, EndedKind
<1>7. Reaches(d)
  BY <1>2, <1>3 DEF Reaches, MountTypes
<1>8. Givens' /\ stack' \in [Labels -> Seq(Disks)]
  BY <1>2, <1>3 DEF Givens, MountTypes
<1>9. next # Nothing => Kind(d, worker[w])'
  BY <1>3, <1>5, <1>6 DEF Kind
<1>10. Kinds(d)' /\ Plugged(d)' /\ (OneEnv(d) => OneEnv(d)')
  BY <1>4, <1>6, <1>7, <1>9, StepKinds
<1>11. ASSUME ~ Confused(d)' PROVE InOrder(d)'
  <2>1. ~ Confused(d) /\ InOrder(d)
    BY <1>4, <1>7, <1>11, StaysConfused DEF Reaches, Steps, Device
  <2>2. Mine(d)' = Mine(d)
    BY <1>3 DEF Mine
  <2>3. disc[d] # Nothing => /\ from = "unmade" /\ to = "unplug"
                             /\ Named(d, me)
    BY <1>1, <2>1 DEF InOrder, OneName, Kind, Removes
  <2>4. disc[d] # Nothing => dirs' = dirs
    <3>1. disc[d] # Nothing => n \in Mine(d)
      BY <1>1, <2>3 DEF Named
    <3> QED
      BY <1>3, <3>1 DEF Mine
  <2>5. disc[d] # Nothing /\ next # Nothing => Named(d, worker[w])'
    <3>1. next # Nothing => /\ next.at = to /\ NameOf(next) = NameOf(me)
      BY <1>4 DEF Ended, NameOf
    <3>2. (NameOf(worker[w]))' = NameOf(next)
      BY <1>5 DEF NameOf
    <3> QED
      BY <1>1, <1>5, <2>2, <2>3, <3>1, <3>2 DEF Named
  <2>6. \A m \in dirs' : <<d, m>> \in given' /\ stack[m] = <<>> =>
          m \in dirs /\ <<d, m>> \in given /\ ~ Tends(me, m)
    BY <1>3 DEF Tends
  <2>7. Finds(me, Mine(d)) => next # Nothing /\ Finds(next, Mine(d))
    BY <1>1, <1>4 DEF Finds, Ended
  <2>8. OneEnv(d)' /\ stack' = stack /\ me.at # "unplug" /\ ~ Mounts(me)
    BY <1>1, <1>3, <1>10, <2>1 DEF InOrder, Mounts
  <2> QED
    BY <1>4, <2>1, <2>2, <2>4, <2>5, <2>6, <2>7, <2>8, StepOrder
<1> QED
  BY <1>4, <1>7, <1>8, <1>10, <1>11 DEF Kept, Device

\* A mount lies on the others; umount takes it.
LEMMA OnTop ==
  ASSUME NEW s \in Seq(Disks), NEW d \in Disks
  PROVE  /\ Append(s, d) \in Seq(Disks) /\ Append(s, d) # <<>>
         /\ \A i \in DOMAIN Append(s, d) :
              Append(s, d)[i] = d \/ (i \in DOMAIN s /\ Append(s, d)[i] = s[i])
<1> DEFINE r == Append(s, d)
<1>1. /\ r \in Seq(Disks) /\ Len(s) \in Nat /\ DOMAIN s = 1 .. Len(s)
      /\ Len(r) = Len(s) + 1 /\ DOMAIN r = 1 .. Len(s) + 1
      /\ r[Len(s) + 1] = d /\ \A i \in 1 .. Len(s) : r[i] = s[i]
  OBVIOUS
<1>2. r # <<>>
  BY <1>1
<1> HIDE DEF r
<1>3. ASSUME NEW i \in DOMAIN r PROVE r[i] = d \/ (i \in DOMAIN s /\ r[i] = s[i])
  <2>1. CASE i \in 1 .. Len(s)
    BY <1>1, <2>1
  <2>2. CASE i = Len(s) + 1
    BY <1>1, <2>2
  <2> QED
    BY <1>1, <1>3, <2>1, <2>2
<1> QED
  BY <1>1, <1>2, <1>3 DEF r

\* The rest stay as they were.
LEMMA TopOff ==
  ASSUME NEW s \in Seq(Disks), s # <<>>
  PROVE  /\ Front(s) \in Seq(Disks)
         /\ \A i \in DOMAIN Front(s) : i \in DOMAIN s /\ Front(s)[i] = s[i]
<1>1. Len(s) \in Nat /\ Len(s) > 0 /\ Len(s) - 1 \in Nat
  OBVIOUS
<1>2. /\ Front(s) \in Seq(Disks) /\ DOMAIN Front(s) = 1 .. Len(s) - 1
      /\ \A i \in 1 .. Len(s) - 1 : Front(s)[i] = s[i]
  BY <1>1 DEF Front
<1> QED
  BY <1>1, <1>2

\* While a medium is in, all processes of the device have one name for it.
LEMMA SameName ==
  ASSUME NEW d \in Disks, Device(d), OneEnv(d), disc[d] # Nothing,
         NEW v \in ProcessesOf(d), NEW w \in ProcessesOf(d),
         worker[v].at \notin Removes, worker[w].at \notin Removes
  PROVE  NameOf(worker[v]) = NameOf(worker[w])
<1>1. Kind(d, worker[v]) /\ Kind(d, worker[w]) /\ worker[v].dev = d /\ worker[w].dev = d
  BY DEF Device, Kinds, ProcessesOf
<1>2. CASE d \in Sticks
  BY <1>1, <1>2 DEF Kind, NameOf
<1>3. CASE d \in Drives
  BY <1>1, <1>3 DEF Kind, NameOf, OneEnv
<1> QED
  BY <1>2, <1>3, StickOrDrive

\* mount
LEMMA MountKeeps ==
  ASSUME MountTypes, Givens, NEW d \in Disks, Device(d), NEW w \in ProcessesOf(d),
         Mount(w), UNCHANGED <<there, disc, queue, muddled>>
  PROVE  Kept(d, w)
<1> DEFINE me == worker[w]
           n  == me.dir
           on == stack[n]
<1>1. /\ me \in MmProcess /\ me.dev = d /\ Kind(d, me)
      /\ me.at \in MmStages /\ me.dir \in Name
      /\ me.at = "mount"
  BY OfD DEF Mount, Stands
<1>2. n \in Labels /\ <<d, n>> \in given
  BY <1>1 DEF Kind, Name
<1>3. UNCHANGED <<dirs, given>> /\ \A m : ~ Tends(me, m) \/ m = n
  BY <1>1 DEF Mount, Tends
<1>4. ~ Confused(d) => InOrder(d)
  BY DEF Device
<1>5. ASSUME ~ (disc[d] # Nothing /\ n \in dirs /\ (on = <<>> \/ Last(on) # d)),
             Goes(w, "unmade"), UNCHANGED stack
      PROVE  Kept(d, w)
  <2> DEFINE next == [me EXCEPT !.at = "unmade"]
  <2>1. Like(me, next, "unmade", n) /\ next.forked = me.forked
    BY <1>1, Went DEF MmStages
  <2>2. Becomes(w, next)
    BY <1>5 DEF Goes
  <2> HIDE DEF next
  <2>3. Steps(w, d, next)
    BY <2>1, <2>2, LikeSteps
  <2>4. /\ Kind(d, next) /\ next # Nothing /\ next.at = "unmade" /\ next.dir = n
        /\ next.poll = me.poll /\ NameOf(next) = NameOf(me)
    BY <1>1, <2>1 DEF Kind, Removes, Like, NameOf
  <2>5. ASSUME ~ Confused(d), disc[d] # Nothing PROVE Named(d, next) /\ Mine(d) # {}
    <3>1. Named(d, me)
      BY <1>4, <2>5 DEF InOrder, OneName
    <3>2. on # <<>>
      BY <1>1, <1>5, <2>5, <3>1 DEF Named
    <3>3. n \in Mine(d)
      BY <1>2, <3>2 DEF Mine
    <3> QED
      BY <1>1, <2>4, <3>1, <3>3 DEF Named
  <2>6. /\ \A m : Tends(me, m) => Tends(next, m)
        /\ Finds(me, Mine(d)) => Finds(next, Mine(d))
        /\ me.at # "unplug"
    BY <1>1, <2>4 DEF Tends, Finds
  <2> QED
    BY <1>3, <1>5, <2>3, <2>4, <2>5, <2>6, MediaStay
<1>6. ASSUME disc[d] # Nothing, n \in dirs, on = <<>> \/ Last(on) # d,
             stack' = [stack EXCEPT ![n] = Append(@, d)], Ends(w, "unplug")
      PROVE  Kept(d, w)
  <2>1. PICK next : Steps(w, d, next) /\ Ended(me, next, "unplug")
    BY <1>6, EndsAt
  <2>2. worker'[w] = next /\ disc' = disc
    BY <2>1 DEF Steps
  <2>3. IF next = Nothing THEN ~ me.poll ELSE Kind(d, next) /\ next.poll
    BY <1>1, <2>1, EndedKind
  <2>4. /\ on \in Seq(Disks) /\ stack'[n] = Append(on, d)
        /\ \A m \in Labels : m # n => stack'[m] = stack[m]
        /\ stack' \in [Labels -> Seq(Disks)]
    <3>1. on \in Seq(Disks)
      BY <1>2 DEF MountTypes
    <3>2. Append(on, d) \in Seq(Disks)
      BY <3>1, OnTop
    <3> QED
      BY <1>2, <1>6, <3>1, <3>2 DEF MountTypes
  <2>5. Reaches(d)
    BY <1>2, <1>3, <2>4 DEF Reaches, MountTypes
  <2>6. Givens'
    <3>1. \A i \in DOMAIN on : <<on[i], n>> \in given
      BY <1>2 DEF Givens
    <3>2. \A i \in DOMAIN stack'[n] :
            stack'[n][i] = d \/ (i \in DOMAIN on /\ stack'[n][i] = on[i])
      BY <2>4, OnTop
    <3>3. \A i \in DOMAIN stack'[n] : <<stack'[n][i], n>> \in given
      BY <1>2, <3>1, <3>2
    <3> QED
      BY <1>2, <1>3, <1>6, <2>4, <3>3 DEF Givens
  <2>7. next # Nothing => Kind(d, worker[w])'
    BY <1>3, <2>2, <2>3 DEF Kind
  <2>8. Kinds(d)' /\ Plugged(d)' /\ (OneEnv(d) => OneEnv(d)')
    BY <2>1, <2>3, <2>5, <2>7, StepKinds
  <2>9. ASSUME ~ Confused(d)' PROVE InOrder(d)'
    <3>1. ~ Confused(d) /\ InOrder(d)
      BY <2>1, <2>5, <2>9, StaysConfused DEF Reaches, Steps, Device
    <3>2. n = NameOf(me) /\ \A m \in Mine(d) : m = n
      BY <1>1, <1>6, <3>1 DEF InOrder, OneName, Named
    <3>3. Mine(d) = {} /\ on = <<>>
      <4>1. n \notin Mine(d)
        BY <1>6, <3>1, OneOff DEF InOrder, MountedOnce
      <4> QED
        BY <1>2, <3>2, <4>1 DEF Mine
    <3>4. stack'[n] = <<d>> /\ stack'[n] # <<>>
      BY <2>4, <3>3, OneOff
    <3>5. Mine(d)' = {n}
      <4>1. \A m \in Labels : m # n /\ <<d, m>> \in given => stack'[m] = <<>>
        BY <2>4, <3>3 DEF Mine
      <4> QED
        BY <1>2, <1>3, <3>4, <4>1 DEF Mine
    <3>6. MountedOnce(d)' /\ OneEnv(d)'
      BY <2>8, <3>1, <3>4, <3>5 DEF MountedOnce, InOrder
    <3>7. /\ w \in ProcessesOf(d) /\ \A v \in ProcessesOf(d) : v # w => worker'[v] = worker[v]
          /\ ProcessesOf(d)' = IF next = Nothing THEN ProcessesOf(d) \ {w} ELSE ProcessesOf(d)
      BY <2>1 DEF Steps, ProcessesOf
    <3>8. ASSUME NEW v \in ProcessesOf(d), v # w PROVE Named(d, worker[v])'
      <4>1. Named(d, worker[v]) /\ worker[v].at \notin Removes
        BY <1>6, <3>1, <3>8 DEF InOrder, OneName, Device, Kinds, Kind
      <4>2. NameOf(worker[v]) = n
        BY <1>1, <1>6, <3>1, <3>2, <4>1, SameName DEF InOrder, Removes
      <4>3. worker'[v] = worker[v] /\ NameOf(worker[v])' = NameOf(worker[v])
        BY <2>2, <3>7, <3>8 DEF NameOf
      <4> QED
        BY <1>3, <3>5, <4>1, <4>2, <4>3 DEF Named
    <3>9. next # Nothing => Named(d, worker[w])'
      <4>1. next # Nothing => next.at = "unplug" /\ NameOf(next) = n
        BY <2>1, <3>2 DEF Ended, NameOf
      <4>2. (NameOf(worker[w]))' = NameOf(next)
        BY <2>2 DEF NameOf
      <4> QED
        BY <2>2, <3>5, <4>1, <4>2 DEF Named
    <3>10. d \in Sticks => n = disc[d]
      <4>1. d \in Sticks => me.env = disc[d]
        BY <1>1, <1>6 DEF Kind
      <4> QED
        BY <1>6, <3>2, <4>1 DEF NameOf
    <3>11. OneName(d)'
      BY <2>2, <3>5, <3>7, <3>8, <3>9, <3>10 DEF OneName
    <3>12. Tended(d)'
      <4> SUFFICES ASSUME NEW m \in dirs, <<d, m>> \in given, stack'[m] = <<>>
                   PROVE  \E v \in ProcessesOf(d)' : Tends(worker'[v], m)
        BY <1>3 DEF Tended
      <4>1. m # n /\ stack[m] = <<>>
        BY <2>4, <3>4 DEF MountTypes
      <4>2. PICK v \in ProcessesOf(d) : Tends(worker[v], m)
        BY <3>1, <4>1 DEF InOrder, Tended
      <4>3. v # w
        BY <1>3, <4>1, <4>2
      <4> QED
        BY <3>7, <4>2, <4>3
    <3>13. Found(d)'
      <4>1. d \in Drives => w \in ProcessesOf(d)' /\ worker'[w].at = "unplug"
        <5>1. d \in Drives => me.poll
          BY <1>1, <1>6 DEF Kind
        <5> QED
          BY <2>1, <2>2, <3>7, <5>1 DEF Ended
      <4> QED
        BY <1>6, <2>2, <4>1 DEF Found
    <3>14. Awaited(d)'
      BY <3>5 DEF Awaited
    <3> QED
      BY <3>6, <3>11, <3>12, <3>13, <3>14 DEF InOrder
  <2> QED
    BY <2>1, <2>4, <2>5, <2>6, <2>8, <2>9 DEF Kept, Device
<1> QED
  BY <1>1, <1>5, <1>6 DEF Mount

\* umount -l
LEMMA UmountKeeps ==
  ASSUME MountTypes, Givens, NEW d \in Disks, Device(d), NEW w \in ProcessesOf(d),
         Umount(w), UNCHANGED <<there, disc, queue, muddled>>
  PROVE  Kept(d, w)
<1> DEFINE me == worker[w]
           n  == me.dir
<1>1. /\ me \in MmProcess /\ me.dev = d /\ Kind(d, me)
      /\ me.at \in MmStages /\ me.dir \in Name
      /\ me.at = "umount" /\ disc[d] = Nothing
  BY OfD DEF Umount, Stands, Kind, Removes
<1>2. n \in Labels /\ <<d, n>> \in given
  BY <1>1 DEF Kind, Name
<1>3. UNCHANGED <<dirs, given>> /\ \A m : ~ Tends(me, m)
  BY <1>1 DEF Umount, Tends
<1>4. CASE stack[n] = <<>> /\ Ends(w, "plug") /\ stack' = stack
  <2>1. PICK next : Steps(w, d, next) /\ Ended(me, next, "plug")
    BY <1>4, EndsAt
  <2>2. IF next = Nothing THEN ~ me.poll ELSE Kind(d, next)
    BY <1>1, <2>1, EndedKind
  <2>3. ~ Finds(me, Mine(d))
    BY <1>1, <1>4 DEF Finds, Mine
  <2> QED
    BY <1>1, <1>3, <1>4, <2>1, <2>2, <2>3, MediaStay
<1>5. ASSUME stack[n] # <<>>, Goes(w, "rmdir"), stack' = [stack EXCEPT ![n] = Front(@)]
      PROVE  Kept(d, w)
  <2> DEFINE next == [me EXCEPT !.at = "rmdir"]
  <2>1. Like(me, next, "rmdir", n) /\ next.forked = me.forked
    BY <1>1, Went DEF MmStages
  <2>2. Becomes(w, next)
    BY <1>5 DEF Goes
  <2> HIDE DEF next
  <2>3. Steps(w, d, next) /\ worker'[w] = next /\ disc' = disc /\ next # Nothing
    <3>1. Steps(w, d, next)
      BY <2>1, <2>2, LikeSteps
    <3> QED
      BY <2>1, <3>1 DEF Steps, Like
  <2>4. /\ stack[n] \in Seq(Disks) /\ stack'[n] = Front(stack[n])
        /\ \A m \in Labels : m # n => stack'[m] = stack[m]
        /\ stack' \in [Labels -> Seq(Disks)]
    <3>1. stack[n] \in Seq(Disks)
      BY <1>2 DEF MountTypes
    <3>2. Front(stack[n]) \in Seq(Disks)
      BY <1>5, <3>1, TopOff
    <3> QED
      BY <1>2, <1>5, <3>1, <3>2 DEF MountTypes
  <2>5. Reaches(d)
    BY <1>2, <1>3, <2>4 DEF Reaches, MountTypes
  <2>6. Givens'
    <3>1. \A i \in DOMAIN stack'[n] : <<stack'[n][i], n>> \in given
      BY <1>2, <1>5, <2>4, TopOff DEF Givens
    <3>2. n \in dirs
      BY <1>2, <1>5 DEF Givens
    <3> QED
      BY <1>2, <1>3, <2>4, <3>1, <3>2 DEF Givens
  <2>7. Kind(d, worker[w])'
    BY <1>1, <1>2, <1>3, <2>1, <2>3 DEF Kind, Like, Removes
  <2>8. Kinds(d)' /\ Plugged(d)' /\ (OneEnv(d) => OneEnv(d)')
    BY <2>3, <2>5, <2>7, StepKinds
  <2>9. ASSUME ~ Confused(d)' PROVE InOrder(d)'
    <3>1. ~ Confused(d) /\ InOrder(d)
      BY <2>3, <2>5, <2>9, StaysConfused DEF Reaches, Steps, Device
    <3>2. n \in Mine(d) /\ stack[n] = <<d>> /\ \A m \in Mine(d) : m = n
      BY <1>2, <1>5, <3>1 DEF Mine, InOrder, MountedOnce
    <3>3. stack'[n] = <<>>
      BY <2>4, <3>2, OneOff
    <3>4. Mine(d)' = {}
      BY <1>2, <1>3, <2>4, <3>2, <3>3 DEF Mine
    <3>5. MountedOnce(d)' /\ OneEnv(d)'
      BY <2>8, <3>1, <3>4 DEF MountedOnce, InOrder
    <3>6. OneName(d)' /\ Found(d)' /\ Awaited(d)'
      BY <1>1, <2>3, <3>4 DEF OneName, Found, Awaited
    <3>7. /\ w \in ProcessesOf(d) /\ \A v \in ProcessesOf(d) : v # w => worker'[v] = worker[v]
          /\ ProcessesOf(d)' = ProcessesOf(d)
      BY <2>3 DEF Steps, ProcessesOf
    <3>8. Tended(d)'
      <4> SUFFICES ASSUME NEW m \in dirs, <<d, m>> \in given, stack'[m] = <<>>
                   PROVE  \E v \in ProcessesOf(d) : Tends(worker'[v], m)
        BY <1>3, <3>7 DEF Tended
      <4>1. CASE m = n
        <5>1. Tends(next, n)
          BY <2>1 DEF Tends, Like
        <5> QED
          BY <2>3, <3>7, <4>1, <5>1
      <4>2. CASE m # n
        <5>1. stack[m] = <<>>
          BY <2>4, <4>2 DEF MountTypes
        <5>2. PICK v \in ProcessesOf(d) : Tends(worker[v], m)
          BY <3>1, <5>1 DEF InOrder, Tended
        <5>3. v # w
          BY <1>3, <5>2
        <5> QED
          BY <3>7, <5>2, <5>3
      <4> QED
        BY <4>1, <4>2
    <3> QED
      BY <3>5, <3>6, <3>8 DEF InOrder
  <2> QED
    BY <2>3, <2>4, <2>5, <2>6, <2>8, <2>9 DEF Kept, Device
<1> QED
  BY <1>1, <1>4, <1>5 DEF Umount

-----------------------------------------------------------------------------
(* The specification.                                                      *)

\* Whatever a process does.
LEMMA WorkKeeps ==
  ASSUME MountInv, NEW w \in Workers, Work(w)
  PROVE  MountInv'
<1>1. MountTypes /\ Givens /\ \A e \in Disks : Device(e)
  BY DEF MountInv
<1>2. UNCHANGED <<there, disc, queue, muddled>>
  BY DEF Work, mmHand
<1>3. worker[w] # Nothing
  BY DEF Work, PollPlug, PollUnplug, Add, Mkdir, Mount, Rmdir, FindMount, Umount, Stands
<1>4. PICK d \in Disks : w \in ProcessesOf(d)
  BY <1>1, <1>3, OfOne
<1>5. Kept(d, w)
  <2>1. MountTypes /\ Givens /\ Device(d) /\ d \in Disks /\ w \in ProcessesOf(d)
    BY <1>1, <1>4
  <2>2. CASE PollPlug(w)
    BY <1>2, <2>1, <2>2, PollPlugKeeps
  <2>3. CASE PollUnplug(w)
    BY <1>2, <2>1, <2>3, PollUnplugKeeps
  <2>4. CASE Add(w)
    BY <1>2, <2>1, <2>4, AddKeeps
  <2>5. CASE Mkdir(w)
    BY <1>2, <2>1, <2>5, MkdirKeeps
  <2>6. CASE Mount(w)
    BY <1>2, <2>1, <2>6, MountKeeps
  <2>7. CASE Rmdir(w, "unmade", "unplug")
    BY <1>2, <2>1, <2>7, RmdirKeeps
  <2>8. CASE FindMount(w)
    BY <1>2, <2>1, <2>8, FindMountKeeps
  <2>9. CASE Umount(w)
    BY <1>2, <2>1, <2>9, UmountKeeps
  <2>10. CASE Rmdir(w, "rmdir", "plug")
    BY <1>2, <2>1, <2>10, RmdirKeeps
  <2> QED
    BY <2>2, <2>3, <2>4, <2>5, <2>6, <2>7, <2>8, <2>9, <2>10 DEF Work
<1>6. PICK next : Steps(w, d, next)
  BY <1>5 DEF Kept
<1>7. ASSUME NEW e \in Disks PROVE Device(e)'
  <2>1. CASE e = d
    BY <1>5, <2>1 DEF Kept
  <2>2. CASE e # d
    <3>1. Spared(e)
      BY <1>1, <1>5, <1>6, <2>2, StepSpares DEF Kept
    <3> QED
      BY <1>1, <3>1, Elsewhere
  <2> QED
    BY <2>1, <2>2
<1>8. MountTypes'
  BY <1>1, <1>2, <1>5, <1>6 DEF MountTypes, Kept, Reaches, Steps
<1> QED
  BY <1>5, <1>7, <1>8 DEF MountInv, Kept

\* No step breaks the invariant.
LEMMA MountStep ==
  ASSUME MountInv, [MinimountNext]_mmVars
  PROVE  MountInv'
<1>1. CASE User
  BY <1>1, UserKeeps
<1>2. ASSUME NEW d \in Disks, UdevStarts(d) PROVE MountInv'
  BY <1>2, UdevKeeps
<1>3. ASSUME NEW w \in Workers, Work(w) PROVE MountInv'
  BY <1>3, WorkKeeps
<1>4. CASE UNCHANGED mmVars
  <2>1. MountTypes /\ Givens /\ \A d \in Disks : Device(d)
    BY DEF MountInv
  <2>2. /\ UNCHANGED <<there, disc, queue, worker, stack, dirs, given, muddled>>
        /\ \A d : ProcessesOf(d)' = ProcessesOf(d)
    BY <1>4 DEF mmVars, mmHand, ProcessesOf
  <2>3. MountTypes' /\ Givens'
    BY <2>1, <2>2 DEF MountTypes, Givens
  <2>4. ASSUME NEW d \in Disks PROVE Device(d)'
    <3>1. Spared(d)
      BY <2>1, <2>2 DEF Spared, MountTypes
    <3> QED
      BY <2>1, <3>1, Elsewhere
  <2> QED
    BY <2>3, <2>4 DEF MountInv
<1> QED
  BY <1>1, <1>2, <1>3, <1>4 DEF MinimountNext

\* Where all processes wait, what is mounted is what is in.
LEMMA MountQuiet ==
  ASSUME MountInv
  PROVE  QuietIsMounted
<1> SUFFICES ASSUME NEW d \in Disks, Quiet(d), ~ Confused(d)
    PROVE  /\ Cardinality(Lines(d)) = IF disc[d] = Nothing THEN 0 ELSE 1
           /\ \A n \in Labels : <<d, n>> \in given =>
                (n \in dirs <=> \E l \in Lines(d) : l[1] = n)
  BY DEF QuietIsMounted
<1>1. MountTypes /\ Givens /\ Device(d) /\ InOrder(d)
  BY DEF MountInv, Device
<1>2. /\ \A b : ~ Waits(b, queue[d])
      /\ \A w \in ProcessesOf(d) : worker[w].at = IF disc[d] = Nothing THEN "plug" ELSE "unplug"
  BY NoneWaits DEF Quiet
<1>3. disc[d] = Nothing <=> Mine(d) = {}
  BY <1>1, <1>2 DEF InOrder, Found, Awaited, Finds, Mounts
<1>4. /\ Mine(d) = {} => Lines(d) = {} /\ Cardinality(Lines(d)) = 0
      /\ \A n \in Mine(d) : Lines(d) = {<<n, 1>>} /\ Cardinality(Lines(d)) = 1
  BY <1>1, LinesAre DEF InOrder
<1>5. Cardinality(Lines(d)) = IF disc[d] = Nothing THEN 0 ELSE 1
  BY <1>3, <1>4
<1>6. ASSUME NEW n \in Labels, <<d, n>> \in given
      PROVE  n \in dirs <=> \E l \in Lines(d) : l[1] = n
  <2>1. n \in dirs => n \in Mine(d)
    BY <1>1, <1>2, <1>6 DEF InOrder, Tended, Tends, Mine
  <2>2. n \in Mine(d) => n \in dirs
    BY <1>1 DEF Givens, Mine
  <2>3. n \in Mine(d) <=> \E l \in Lines(d) : l[1] = n
    <3>1. n \in Mine(d) => \E l \in Lines(d) : l[1] = n
      <4>1. <<n, 1>>[1] = n
        OBVIOUS
      <4> QED
        BY <1>4, <4>1
    <3>2. ASSUME NEW l \in Lines(d), l[1] = n PROVE n \in Mine(d)
      <4>1. PICK m \in Mine(d) : TRUE
        BY <1>4, <3>2
      <4>2. l = <<m, 1>>
        BY <1>4, <3>2, <4>1
      <4> QED
        BY <3>2, <4>1, <4>2
    <3> QED
      BY <3>1, <3>2
  <2> QED
    BY <2>1, <2>2, <2>3
<1> QED
  BY <1>5, <1>6

\* minimount: whatever hands, udevd, pollers and scripts do, in whatever order, and
\* however many processes a drive has: when all is quiet the medium of a device
\* whose names are its own is mounted once, on a directory that is there, and a
\* device without one leaves neither mount nor directory.
THEOREM MountedSafe == MinimountSpec => []QuietIsMounted
<1>1. MinimountInit => MountInv
  BY MountStarts
<1>2. MountInv /\ [MinimountNext]_mmVars => MountInv'
  BY MountStep
<1>3. MountInv => QuietIsMounted
  BY MountQuiet
<1> QED
  BY <1>1, <1>2, <1>3, PTL DEF MinimountSpec
============================================================================
