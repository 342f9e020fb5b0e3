----------------------------- MODULE BootHotplug -----------------------------
(***************************************************************************)
(* How ps3boot learns of disks: udev starts a ps3boot-udev for every       *)
(* uevent of a block device (99-ps3boot.rules), which sends a line over a  *)
(* Unix socket to ps3boot (server.c), at once, or, for a drive with        *)
(* removable media, each time it sees a medium come or go.  The script     *)
(* utils/ps3boot restarts ps3boot and kills the helpers in between.  What  *)
(* ps3boot does with a disk it is told of is the matter of BootMenu.       *)
(***************************************************************************)
EXTENDS Integers, Sequences, FiniteSets, SequencesExt

CONSTANTS
  Fixed,       \* disks without removable media
  Removable,   \* drives with /sys/.../removable = 1
  Backlog,     \* connections that may wait for accept
  MaxHelpers,  \* bound: helpers at a time
  TriggerActions, \* the uevents that an udevadm trigger may ask for
  MaxEvents,   \* MaxEvents[w], w a set of devices: how many events may happen on a
               \* machine that only those devices are ever plugged into
  None         \* no helper, no connection, nothing written yet

Devices == Fixed \cup Removable
Helpers == 1 .. MaxHelpers

\* The machines worth looking at: those to which something may happen.
Machines == {w \in SUBSET Devices : MaxEvents[w] > 0}

\* A ps3boot-udev process.
HelperType ==
  [dev    : Devices,
   poller : BOOLEAN,           \* in poll_removable_device
   at     : {"start", "plug", "connect", "write", "unplug"},
   msg    : {"add", "remove"}, \* what it sends, or was started for
   forked : BOOLEAN]           \* udev does not wait for it any more

\* A connection: who made it, about which device, and what was written.
ConnType == [by : Helpers, dev : Devices, msg : {None, "add", "remove"}]

ASSUME HotplugAssumption ==
  /\ Fixed \cap Removable = {}
  /\ Backlog \in Nat \ {0} /\ MaxHelpers \in Nat \ {0}
  /\ TriggerActions \subseteq {"add", "change"}
  /\ MaxEvents \in [SUBSET Devices -> Nat]
  /\ None \notin {"add", "remove"}
  /\ None \notin HelperType /\ None \notin ConnType

VARIABLES
  owned,    \* the devices there are
  present,  \* those that are plugged in
  medium,   \* the drives with a medium in them
  uevents,  \* uevents[d]: what udevd has not begun to handle, in order
  helper,   \* helper[h]: a ps3boot-udev process, or None
  pc,       \* where the script and ps3boot are
  conns,    \* the connections ps3boot has not accepted
  reading,  \* the one it reads from
  listed,   \* the disks in its list
  untold,   \* those that were there at a trigger which does not tell it of them, and
            \* that it has not heard of since (history)
  events    \* how many events have happened

env  == <<owned, present, medium, events>>
menu == <<pc, conns, reading, listed, untold>>
vars == <<env, uevents, helper, menu>>

Phases == {"kill_first", "start", "bound", "listening", "loop", "read",
           "kill_last", "script", "end"}

\* The socket is in the file system; somebody listens.
SocketThere == pc \in {"bound", "listening", "loop", "read"}
Listening   == pc \in {"listening", "loop", "read"}

\* The disks that can be mounted.
Ready == {d \in present : d \in Fixed \cup medium}

\* The system has come up: some devices are there, and udev may or may not be
\* done with them.
Init ==
  /\ owned \in Machines
  /\ present \in SUBSET owned
  /\ medium \in SUBSET (present \cap Removable)
  /\ \E late \in SUBSET present :
       uevents = [d \in Devices |-> IF d \in late THEN <<"add">> ELSE <<>>]
  /\ helper = [h \in Helpers |-> None]
  /\ pc = "kill_first" /\ conns = <<>> /\ reading = None /\ listed = {}
  /\ untold = {}
  /\ events = 0

----------------------------------------------------------------------------
(* The environment: devices and media come and go.                         *)

Event ==
  /\ events < MaxEvents[owned]
  /\ events' = events + 1
  /\ UNCHANGED owned

Plug(d) ==
  /\ d \in owned \ present
  /\ Event
  /\ present' = present \cup {d}
  /\ \/ medium' = medium
     \/ d \in Removable /\ medium' = medium \cup {d}
  /\ uevents' = [uevents EXCEPT ![d] = Append(@, "add")]
  /\ UNCHANGED <<helper, menu>>

Unplug(d) ==
  /\ d \in present
  /\ Event
  /\ present' = present \ {d}
  /\ medium' = medium \ {d}
  /\ uevents' = [uevents EXCEPT ![d] = Append(@, "remove")]
  /\ UNCHANGED <<helper, menu>>

\* A hand takes longer than REMOVABLE_SLEEP_DELAY: whoever polls the drive has
\* seen it empty before the next medium is in.
Insert(d) ==
  /\ d \in (present \cap Removable) \ medium
  /\ \A h \in Helpers :
       helper[h] # None => helper[h].dev # d \/ helper[h].at # "unplug"
  /\ Event
  /\ medium' = medium \cup {d}
  /\ UNCHANGED <<present, uevents, helper, menu>>

Eject(d) ==
  /\ d \in medium
  /\ Event
  /\ medium' = medium \ {d}
  /\ UNCHANGED <<present, uevents, helper, menu>>

Environment ==
  \E d \in Devices : Plug(d) \/ Unplug(d) \/ Insert(d) \/ Eject(d)

----------------------------------------------------------------------------
(* udevd handles the uevents of a device one after another, and waits for  *)
(* what it starts (external).                                              *)

Foreground(d) ==
  {h \in Helpers : helper[h] # None /\ helper[h].dev = d /\ ~ helper[h].forked}

UdevRun(d) ==
  /\ uevents[d] # <<>>
  /\ Foreground(d) = {}
  /\ \E h \in Helpers :
       /\ helper[h] = None
       /\ \A k \in 1 .. h - 1 : helper[k] # None
       /\ helper' = [helper EXCEPT ![h] =
                       [dev |-> d, poller |-> FALSE, at |-> "start",
                        msg |-> Head(uevents[d]), forked |-> FALSE]]
  /\ uevents' = [uevents EXCEPT ![d] = Tail(@)]
  /\ UNCHANGED <<env, menu>>

----------------------------------------------------------------------------
(* ps3boot-udev                                                            *)

At(h, place) == helper[h] # None /\ helper[h].at = place

\* Mutant: a poller that has told of a medium leaves the rest to udev.
AfterSendOnce(r) ==
  IF r.poller /\ r.msg = "remove" THEN [r EXCEPT !.at = "plug", !.forked = TRUE]
  ELSE None

\* What h is when it has sent its message, or could not: a poller looks for
\* the opposite (having slept, in the background, after a remove); any other
\* exits.
AfterSend(r) ==
  CASE ~ r.poller -> None
    [] r.poller /\ r.msg = "add" -> [r EXCEPT !.at = "unplug"]
    [] OTHER -> [r EXCEPT !.at = "plug", !.forked = TRUE]

\* main: without a socket there is nobody to tell.
Start(h) ==
  /\ At(h, "start")
  /\ LET r == helper[h]
         polls == r.msg = "add" /\ r.dev \in present \cap Removable
     IN  helper' = [helper EXCEPT ![h] =
           CASE ~ SocketThere -> None
             [] SocketThere /\ polls -> [r EXCEPT !.poller = TRUE, !.at = "plug"]
             [] OTHER -> [r EXCEPT !.at = "connect"]]
  /\ UNCHANGED <<env, uevents, menu>>

\* Mutant: a poller stays in the foreground.
PollPlugForeground(h) ==
  /\ At(h, "plug")
  /\ LET r == helper[h] IN
     helper' = [helper EXCEPT ![h] =
       CASE r.dev \notin present -> None
         [] r.dev \in medium     -> [r EXCEPT !.at = "connect", !.msg = "add"]
         [] OTHER                -> r]
  /\ UNCHANGED <<env, uevents, menu>>

\* poll_device_plug; before it first sleeps it forks and lets udev go on.
PollPlug(h) ==
  /\ At(h, "plug")
  /\ LET r == helper[h] IN
     helper' = [helper EXCEPT ![h] =
       CASE r.dev \notin present -> None
         [] r.dev \in medium     -> [r EXCEPT !.at = "connect", !.msg = "add"]
         [] OTHER                -> [r EXCEPT !.forked = TRUE]]
  /\ UNCHANGED <<env, uevents, menu>>

\* poll_device_unplug, whose result nobody looks at.
PollUnplug(h) ==
  /\ At(h, "unplug")
  /\ LET r == helper[h] IN
     helper' = [helper EXCEPT ![h] =
       IF r.dev \in medium THEN [r EXCEPT !.forked = TRUE]
       ELSE [r EXCEPT !.at = "connect", !.msg = "remove"]]
  /\ UNCHANGED <<env, uevents, menu>>

\* send_action: connect waits while the backlog is full.
Connect(h) ==
  /\ At(h, "connect")
  /\ Listening /\ Len(conns) < Backlog
  /\ conns' = Append(conns, [by |-> h, dev |-> helper[h].dev, msg |-> None])
  /\ helper' = [helper EXCEPT ![h].at = "write"]
  /\ UNCHANGED <<env, uevents, pc, reading, listed, untold>>

Refused(h) ==
  /\ At(h, "connect")
  /\ ~ Listening
  /\ helper' = [helper EXCEPT ![h] = AfterSend(@)]
  /\ UNCHANGED <<env, uevents, menu>>

Mine(h, c) == c # None /\ c.by = h /\ c.msg = None

\* write and close; the line is there at once.
Write(h) ==
  /\ At(h, "write")
  /\ LET sent(c) == IF Mine(h, c) THEN [c EXCEPT !.msg = helper[h].msg] ELSE c IN
     /\ \E c \in ToSet(conns) \cup {reading} : Mine(h, c)
     /\ conns' = [i \in DOMAIN conns |-> sent(conns[i])]
     /\ reading' = sent(reading)
  /\ helper' = [helper EXCEPT ![h] = AfterSend(@)]
  /\ UNCHANGED <<env, uevents, pc, listed, untold>>

\* ps3boot has closed its end: SIGPIPE.
WriteBroken(h) ==
  /\ At(h, "write")
  /\ ~ \E c \in ToSet(conns) \cup {reading} : Mine(h, c)
  /\ helper' = [helper EXCEPT ![h] = None]
  /\ UNCHANGED <<env, uevents, menu>>

Helper(h) ==
  \/ Start(h) \/ PollPlug(h) \/ PollUnplug(h)
  \/ Connect(h) \/ Refused(h) \/ Write(h) \/ WriteBroken(h)

----------------------------------------------------------------------------
(* ps3boot and the script around it                                        *)

\* killall ps3boot-udev.  One that forks just then may escape as its child.
KillHelpers ==
  /\ pc \in {"kill_first", "kill_last"}
  /\ pc' = IF pc = "kill_first" THEN "start" ELSE "script"
  /\ \E escaped \in SUBSET {h \in Helpers :
                              /\ At(h, "plug") \/ At(h, "unplug")
                              /\ ~ helper[h].forked} :
       helper' = [h \in Helpers |->
                    IF h \in escaped THEN [helper[h] EXCEPT !.forked = TRUE]
                    ELSE None]
  /\ UNCHANGED <<env, uevents, conns, reading, listed, untold>>

\* bootdevice_init and ps3boot_serv_on: unlink, socket, bind, ...
Bind ==
  /\ pc = "start"
  /\ pc' = "bound"
  /\ listed' = {}
  /\ untold' = {}
  /\ UNCHANGED <<env, uevents, helper, conns, reading>>

\* ... listen, ...
Listen ==
  /\ pc = "bound"
  /\ pc' = "listening"
  /\ UNCHANGED <<env, uevents, helper, conns, reading, listed, untold>>

\* Mutant: without it.
NoTrigger ==
  /\ pc = "listening"
  /\ pc' = "loop"
  /\ untold' = {}
  /\ UNCHANGED <<env, uevents, helper, conns, reading, listed>>

\* ... udevadm trigger, without --action: an add of every device that is there, by
\* an old udev, a change by a newer one, such as the udev 164 of the ps3boot image.
\* What udev starts for a change says "Unknown action" and ends: it is left out.
Trigger ==
  /\ pc = "listening"
  /\ pc' = "loop"
  /\ \E action \in TriggerActions :
       LET added == IF action = "add" THEN present ELSE {} IN
       /\ uevents' = [d \in Devices |->
                        IF d \in added THEN Append(uevents[d], "add") ELSE uevents[d]]
       /\ untold' = present \ added
  /\ UNCHANGED <<env, helper, conns, reading, listed>>

\* ps3boot_serv_check_msg: accept, and then read, which waits for the line.
Accept ==
  /\ pc = "loop"
  /\ conns # <<>>
  /\ reading' = Head(conns) /\ conns' = Tail(conns)
  /\ pc' = "read"
  /\ UNCHANGED <<env, uevents, helper, listed, untold>>

Read ==
  /\ pc = "read"
  /\ reading.msg # None
  /\ listed' = IF reading.msg = "add" /\ reading.dev \in Ready
               THEN listed \cup {reading.dev} ELSE listed \ {reading.dev}
  /\ untold' = untold \ {reading.dev}
  /\ reading' = None
  /\ pc' = "loop"
  /\ UNCHANGED <<env, uevents, helper, conns>>

\* Mutant: the socket stays open in a child.
QuitKeepsSocket ==
  /\ pc = "loop"
  /\ Event
  /\ pc' = "kill_last"
  /\ UNCHANGED <<present, medium, uevents, helper, conns, reading, listed, untold>>

\* The user leaves the menu: ps3boot_serv_off.
Quit ==
  /\ pc = "loop"
  /\ Event
  /\ pc' = "kill_last"
  /\ conns' = <<>>
  /\ UNCHANGED <<present, medium, uevents, helper, reading, listed, untold>>

\* The script runs /tmp/ps3boot.inc and starts over, or there is none.
Script ==
  /\ pc = "script"
  /\ pc' \in {"kill_first", "end"}
  /\ UNCHANGED <<env, uevents, helper, conns, reading, listed, untold>>

Serve == KillHelpers \/ Bind \/ Listen \/ Trigger \/ Accept \/ Read \/ Script

----------------------------------------------------------------------------
Next ==
  \/ Environment \/ Quit \/ Serve
  \/ \E d \in Devices : UdevRun(d)
  \/ \E h \in Helpers : Helper(h)

Spec == Init /\ [][Next]_vars

\* The processes run; nobody has to plug anything in, or to quit.
FairSpec ==
  /\ Spec
  /\ WF_vars(Serve)
  /\ \A d \in Devices : WF_vars(UdevRun(d))
  /\ \A h \in Helpers : WF_vars(Helper(h))

----------------------------------------------------------------------------
(* Properties                                                              *)

TypeOK ==
  /\ owned \in Machines /\ present \subseteq owned
  /\ medium \subseteq present \cap Removable
  /\ uevents \in [Devices -> Seq({"add", "remove"})]
  /\ helper \in [Helpers -> HelperType \cup {None}]
  /\ pc \in Phases
  /\ conns \in Seq(ConnType) /\ Len(conns) <= Backlog
  /\ conns # <<>> => Listening
  /\ IF pc = "read" THEN reading \in ConnType ELSE reading = None
  /\ listed \subseteq Devices /\ untold \subseteq Devices
  /\ events \in 0 .. MaxEvents[owned]

\* Nothing is under way about d: no uevent, no message, no helper that has not
\* seen what is there.
Quiet(d) ==
  /\ pc = "loop"
  /\ uevents[d] = <<>>
  /\ \A c \in ToSet(conns) : c.dev # d
  /\ \A h \in Helpers :
       helper[h] # None /\ helper[h].dev = d =>
         \/ helper[h].at = "plug" /\ d \in present \ medium
         \/ helper[h].at = "unplug" /\ d \in medium

\* When nothing is under way about a disk, the menu lists it exactly if it can be
\* booted from: whatever came while the socket was bound and nobody listened,
\* whichever of two pollers of one drive spoke last, and whether a poller outlived
\* its drive or a killall.  The exception is the code's: where udevadm trigger asks
\* for changes, a disk that was there before ps3boot is not listed, until something
\* happens to it of which a helper tells.
QuietIsRight ==
  \A d \in Devices : Quiet(d) => (d \in listed <=> d \in Ready \ untold)

\* The menu comes to list what can be booted from, but for the disks that it was
\* never told of, and goes on doing so.
Converges == <>[](pc \in {"loop", "read"} => listed = Ready \ untold)

\* udev gets on with every device: no helper waits for a medium or for ps3boot
\* in the foreground for ever.
UdevGoesOn == \A d \in Devices : []<>(uevents[d] = <<>> /\ Foreground(d) = {})
=============================================================================
