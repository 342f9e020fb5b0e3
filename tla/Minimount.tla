------------------------------ MODULE Minimount ------------------------------
(***************************************************************************)
(* minimount: udev starts a minimount-udev for every uevent of a block     *)
(* device.  It runs a script that mounts the medium under its label or     *)
(* unmounts it, once for the partition of a stick, and for a drive (sysfs  *)
(* removable = 1) each time it sees a medium come or go.  Scripts of       *)
(* several processes run side by side, mount table and /media between      *)
(* them.                                                                   *)
(*                                                                         *)
(* A medium is abstracted to the name it is mounted under, its label or    *)
(* its UUID.  Mounting fails only for the reasons below.                   *)
(***************************************************************************)
EXTENDS Integers, Sequences, FiniteSets, SequencesExt

CONSTANTS
  Sticks,      \* partitions: their medium comes and goes with them
  Drives,      \* polled for media
  Labels,
  MaxWorkers,  \* bound: processes at a time
  MaxMoves,    \* bound: what the user does
  Nothing      \* no medium, no name, no process

Disks   == Sticks \cup Drives
Workers == 1 .. MaxWorkers

\* What a process does next, and what it knows.
MmStages  == {"plug", "unplug", "add", "mkdir", "mount", "unmade",
              "remove", "umount", "rmdir"}
MmProcess == [dev    : Disks,
              poll   : BOOLEAN,                  \* poll_removable_device
              at     : MmStages,
              env    : Labels \cup {Nothing},    \* ID_FS_LABEL
              dir    : Labels \cup {Nothing},    \* MOUNTDIR
              forked : BOOLEAN]

ASSUME MinimountAssumption ==
  /\ Sticks \cap Drives = {} /\ Nothing \notin Disks \cup Labels \cup MmProcess
  /\ MaxWorkers \in Nat /\ MaxMoves \in Nat

VARIABLES
  there,    \* the devices that are plugged in
  disc,     \* disc[d]: the name of the medium in d
  queue,    \* queue[d]: the uevents of d that udevd has not handled
  worker,   \* worker[w]: a minimount-udev and its script, or Nothing
  stack,    \* stack[n]: the devices mounted on /media/n, the last on top
  dirs,     \* the directories in /media
  given,    \* (history) <<d, n>>: a script took n for a medium in d
  muddled,  \* (history) the drives with pollers that inherited different names
  moves

mmHand == <<there, disc, moves>>
mmVars == <<mmHand, queue, worker, stack, dirs, given, muddled>>

MinimountInit ==
  /\ there = {} /\ disc = [d \in Disks |-> Nothing]
  /\ queue = [d \in Disks |-> <<>>]
  /\ worker = [w \in Workers |-> Nothing]
  /\ stack = [n \in Labels |-> <<>>] /\ dirs = {}
  /\ given = {} /\ muddled = {} /\ moves = 0

\* The lines of d in /proc/mounts.
Lines(d) ==
  {l \in UNION {{n} \X DOMAIN stack[n] : n \in Labels} : stack[l[1]][l[2]] = d}

\* Its processes.
ProcessesOf(d) == {w \in Workers : worker[w] # Nothing /\ worker[w].dev = d}

-----------------------------------------------------------------------------
(* The user, the kernel and udevd (external).                              *)

Move == moves < MaxMoves /\ moves' = moves + 1
Tell(d, action) == queue' = [queue EXCEPT ![d] = Append(@, action)]
Rest == UNCHANGED <<worker, stack, dirs, given, muddled>>

\* A hand takes longer than udevd, a poll and its script: a medium is not put in
\* before all know that the last one has gone.
AtRest(d) ==
  queue[d] = <<>> /\ \A w \in ProcessesOf(d) : worker[w].at = "plug" /\ worker[w].forked

PlugIn(d, medium) ==
  /\ d \notin there /\ queue[d] = <<>> /\ ProcessesOf(d) = {}
  /\ d \in Sticks => medium # Nothing
  /\ Move
  /\ there' = there \cup {d} /\ disc' = [disc EXCEPT ![d] = medium]
  /\ Tell(d, "add")
  /\ Rest

PullOut(d) ==
  /\ d \in there
  /\ Move
  /\ there' = there \ {d} /\ disc' = [disc EXCEPT ![d] = Nothing]
  /\ Tell(d, "remove")
  /\ Rest

PutIn(d, medium) ==
  /\ d \in there \cap Drives /\ disc[d] = Nothing /\ AtRest(d)
  /\ Move
  /\ disc' = [disc EXCEPT ![d] = medium]
  /\ UNCHANGED <<there, queue>> /\ Rest

TakeOut(d) ==
  /\ d \in there \cap Drives /\ disc[d] # Nothing
  /\ Move
  /\ disc' = [disc EXCEPT ![d] = Nothing]
  /\ UNCHANGED <<there, queue>> /\ Rest

\* udevadm trigger
Retrigger(d) ==
  /\ d \in there
  /\ Move
  /\ Tell(d, "add")
  /\ UNCHANGED <<there, disc>> /\ Rest

User ==
  \E d \in Disks :
    \/ \E medium \in Labels : PlugIn(d, medium) \/ PutIn(d, medium)
    \/ PlugIn(d, Nothing)
    \/ PullOut(d) \/ TakeOut(d) \/ Retrigger(d)

\* One event of a device after the other.  The process finds the label of the
\* medium of that moment in its environment, as ID_FS_LABEL, and keeps it.  A drive
\* that has gone is not found removable: its add is one of the script.
UdevStarts(d) ==
  /\ queue[d] # <<>>
  /\ \A w \in ProcessesOf(d) : worker[w].forked
  /\ \E w \in Workers :
       /\ worker[w] = Nothing /\ \A v \in 1 .. w - 1 : worker[v] # Nothing
       /\ worker' = [worker EXCEPT ![w] =
            [dev |-> d, poll |-> Head(queue[d]) = "add" /\ d \in Drives \cap there,
             at |-> IF Head(queue[d]) = "remove" THEN "remove"
                    ELSE IF d \in Drives \cap there THEN "plug" ELSE "add",
             env |-> disc[d], dir |-> Nothing, forked |-> FALSE]]
  /\ queue' = [queue EXCEPT ![d] = Tail(@)]
  /\ muddled' = IF /\ Head(queue[d]) = "add" /\ d \in Drives \cap there
                   /\ \E w \in ProcessesOf(d) : worker[w].env # disc[d]
                THEN muddled \cup {d} ELSE muddled
  /\ UNCHANGED <<mmHand, stack, dirs, given>>

-----------------------------------------------------------------------------
(* minimount-udev                                                          *)

Becomes(w, next) == worker' = [worker EXCEPT ![w] = next]
Goes(w, at)      == Becomes(w, [worker[w] EXCEPT !.at = at])
Media            == UNCHANGED <<stack, dirs, given>>

Stands(w, at) == worker[w] # Nothing /\ worker[w].at = at

\* poll_device_plug: add, or fork and sleep, or the device has gone.
PollPlug(w) ==
  /\ Stands(w, "plug")
  /\ LET me == worker[w] IN
       \/ me.dev \in there /\ disc[me.dev] # Nothing /\ Goes(w, "add")
       \/ me.dev \in there /\ disc[me.dev] = Nothing
          /\ Becomes(w, [me EXCEPT !.forked = TRUE])
       \/ me.dev \notin there /\ Becomes(w, Nothing)
  /\ Media

\* Mutant: a poller whose device has gone leaves without the script.
PollUnplugLeaves(w) ==
  /\ Stands(w, "unplug")
  /\ LET me == worker[w] IN
       \/ disc[me.dev] # Nothing /\ Becomes(w, [me EXCEPT !.forked = TRUE])
       \/ disc[me.dev] = Nothing /\ Becomes(w, Nothing)
  /\ Media

\* poll_device_unplug: gone is as good as empty.
PollUnplug(w) ==
  /\ Stands(w, "unplug")
  /\ LET me == worker[w] IN
       \/ disc[me.dev] # Nothing /\ Becomes(w, [me EXCEPT !.forked = TRUE])
       \/ disc[me.dev] = Nothing /\ Goes(w, "remove")
  /\ Media

\* The script has ended: poll_removable_device polls on, main returns.
Ends(w, at) ==
  Becomes(w, IF ~ worker[w].poll THEN Nothing
             ELSE [worker[w] EXCEPT !.at = at, !.dir = Nothing,
                                    !.forked = @ \/ at = "plug"])

\* minimount add: the name.  The medium is asked only if udev knew none.
Add(w) ==
  /\ Stands(w, "add")
  /\ LET me == worker[w]
         n  == IF me.env # Nothing THEN me.env ELSE disc[me.dev]
     IN  IF n = Nothing THEN Ends(w, "unplug") /\ UNCHANGED given
         ELSE /\ Becomes(w, [me EXCEPT !.at = "mkdir", !.dir = n])
              /\ given' = given \cup {<<me.dev, n>>}
  /\ UNCHANGED <<stack, dirs>>

Mkdir(w) ==
  /\ Stands(w, "mkdir")
  /\ dirs' = dirs \cup {worker[w].dir}
  /\ Goes(w, "mount")
  /\ UNCHANGED <<stack, given>>

\* mount: not without medium or directory, nor on top of the same device.
Mount(w) ==
  /\ Stands(w, "mount")
  /\ LET me == worker[w]
         on == stack[me.dir]
     IN  IF /\ disc[me.dev] # Nothing /\ me.dir \in dirs
            /\ on = <<>> \/ Last(on) # me.dev
         THEN stack' = [stack EXCEPT ![me.dir] = Append(@, me.dev)] /\ Ends(w, "unplug")
         ELSE Goes(w, "unmade") /\ UNCHANGED stack
  /\ UNCHANGED <<dirs, given>>

\* rmdir, of a directory that nothing is mounted on.
Rmdir(w, from, to) ==
  /\ Stands(w, from)
  /\ dirs' = IF stack[worker[w].dir] = <<>> THEN dirs \ {worker[w].dir} ELSE dirs
  /\ Ends(w, to)
  /\ UNCHANGED <<stack, given>>

\* minimount remove: the directories of the device in /proc/mounts, which umount
\* takes for one name.
FindMount(w) ==
  /\ Stands(w, "remove")
  /\ LET lines == Lines(worker[w].dev) IN
       IF Cardinality(lines) = 1
       THEN \E l \in lines : Becomes(w, [worker[w] EXCEPT !.at = "umount", !.dir = l[1]])
       ELSE Ends(w, "plug")
  /\ Media

\* umount -l takes the uppermost mount.
Umount(w) ==
  /\ Stands(w, "umount")
  /\ LET n == worker[w].dir IN
       IF stack[n] = <<>> THEN Ends(w, "plug") /\ UNCHANGED stack
       ELSE Goes(w, "rmdir") /\ stack' = [stack EXCEPT ![n] = Front(@)]
  /\ UNCHANGED <<dirs, given>>

Work(w) ==
  /\ \/ PollPlug(w) \/ PollUnplug(w)
     \/ Add(w) \/ Mkdir(w) \/ Mount(w) \/ Rmdir(w, "unmade", "unplug")
     \/ FindMount(w) \/ Umount(w) \/ Rmdir(w, "rmdir", "plug")
  /\ UNCHANGED <<mmHand, queue, muddled>>

MinimountNext ==
  \/ User
  \/ \E d \in Disks : UdevStarts(d)
  \/ \E w \in Workers : Work(w)

MinimountSpec == MinimountInit /\ [][MinimountNext]_mmVars

-----------------------------------------------------------------------------
(* Properties                                                              *)

\* Nothing is left to do about d until the user moves.
Quiet(d) ==
  /\ queue[d] = <<>>
  /\ \A w \in ProcessesOf(d) : d \in there /\ worker[w].forked
                      /\ worker[w].at = IF disc[d] = Nothing THEN "plug" ELSE "unplug"

\* Two devices were given one name, or one drive two.
Confused(d) ==
  \/ d \in muddled
  \/ \E e \in Disks \ {d}, n \in Labels : <<d, n>> \in given /\ <<e, n>> \in given

\* However devices and media come and go, and however many processes poll and run
\* scripts for one drive: when all is quiet a medium is mounted once, on a
\* directory that is there, and of a device without one no mount is left, nor an
\* empty directory of a name that only it had.  Names that two devices share, or
\* that a poller keeps from an earlier medium while another one asks anew, are
\* what breaks it.
QuietIsMounted ==
  \A d \in Disks : Quiet(d) /\ ~ Confused(d) =>
    /\ Cardinality(Lines(d)) = IF disc[d] = Nothing THEN 0 ELSE 1
    /\ \A n \in Labels : <<d, n>> \in given => (n \in dirs <=> \E l \in Lines(d) : l[1] = n)
==============================================================================
