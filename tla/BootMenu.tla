------------------------------ MODULE BootMenu ------------------------------
(***************************************************************************)
(* The ps3boot process: the list of boot devices (devices.c), the main     *)
(* loop with its keys and the line editor (main.c), the requests of the    *)
(* hotplug helper (server.c), what the readers of boot configurations tell *)
(* them (parse-config.c), and the SIGVTALRM handler that counts down to    *)
(* the automatic boot and may run between any two steps of the main loop.  *)
(***************************************************************************)
EXTENDS Integers, Sequences, FiniteSets

CONSTANTS
  Disks,       \* the device paths the helper may name
  Builtin,     \* what bootdevice_init puts first: poweroff, and gameos
  Nodes,       \* the memory a boot_device may be given
  Media,       \* what may be found on a disk, see MediaType
  Requests,    \* the requests the helper sends: a subset of {"add", "remove"}
  MaxEntries,  \* bound: entries of one configuration
  MaxTimeout,  \* bound: seconds of a timeout
  None         \* no disk, no entry, no pointer, no memory

(***************************************************************************)
(* What bootdevice_add learns of a disk: that it cannot be mounted, that   *)
(* it holds no configuration, or n entries.  The menu starts at entry      *)
(* shown (0: the default names none).  auto: the reader met the entry of   *)
(* that name after the line that says default, and so called               *)
(* bootdevice_default_config with the timeout read up to there.  kernel,   *)
(* initrd, cmdline: which of the three the entries define.                 *)
(***************************************************************************)
MediaType ==
  {m \in [read: {"no_mount", "no_config", "ok"}, n: 0 .. MaxEntries,
          shown: 0 .. MaxEntries, auto: BOOLEAN, timeout: 0 .. MaxTimeout,
          kernel: BOOLEAN, initrd: BOOLEAN, cmdline: BOOLEAN] :
     m.shown <= m.n /\ (m.auto => m.shown > 0)}

Nothing == [read |-> "ok", n |-> 0, shown |-> 0, auto |-> FALSE,
            timeout |-> 0, kernel |-> FALSE, initrd |-> FALSE,
            cmdline |-> FALSE]

Names == {Builtin[i] : i \in DOMAIN Builtin}

ASSUME MenuAssumption ==
  /\ Builtin \in Seq(STRING) /\ Builtin # <<>>
  /\ \A i, j \in DOMAIN Builtin : Builtin[i] = Builtin[j] => i = j
  /\ Disks \cap Names = {}
  /\ MaxEntries \in Nat /\ MaxTimeout \in Nat
  /\ Media \subseteq MediaType
  /\ Requests \subseteq {"add", "remove"}
  /\ None \notin Disks \cup Names \cup Nodes
  /\ None \notin Disks \X (1 .. MaxEntries) /\ None # <<None, 0>>
  /\ \A x \in Disks \cup Names, m \in Media \cup {Nothing} :
       None # [device |-> x, conf |-> m]

VARIABLES
  pc,                  \* where the main loop is
  adding,              \* the disk bootdevice_add is at, and what is on it
  heap,                \* heap[n]: the boot_device at n, None when free
  devices,             \* the list, as the sequence of its nodes
  cur_device,          \* the tail pointer
  selected_device,
  selected_config,
  current_config_ptr,  \* the entry last highlighted: None, Stale or <<n, k>>
  default_timeout,
  default,             \* what default_devname, _kernel, ... point to
  disable_autoboot,
  f_edit,
  tmp_bconf,           \* the entry being edited: None, Stale or <<n, k>>
  f_quit,
  mounted,             \* the disks mounted below MOUNT_DIR
  request              \* what was last given to kexec or to /tmp/ps3boot.inc

list == <<heap, devices, cur_device>>
view == <<selected_device, selected_config, current_config_ptr>>
auto == <<default_timeout, default>>
edit == <<f_edit, tmp_bconf>>
vars == <<pc, adding, list, view, auto, disable_autoboot, edit, f_quit,
          mounted, request>>

Phases == {"top", "serv", "mounted", "default", "link", "events", "end",
           "gone"}

\* A pointer into memory that has been freed.
Stale == <<None, 0>>

\* Entry k of disk d, whatever holds a copy of it.
Entries == Disks \X (1 .. MaxEntries)

NoBoot == [devname |-> None, kernel |-> None, initrd |-> None,
           cmdline |-> None]

\* bootdevice_init
Init ==
  /\ pc = "top" /\ adding = <<None, Nothing>>
  /\ devices \in [DOMAIN Builtin -> Nodes]
  /\ \A i, j \in DOMAIN Builtin : devices[i] = devices[j] => i = j
  /\ heap = [n \in Nodes |->
               IF \E i \in DOMAIN Builtin : devices[i] = n
               THEN [device |-> Builtin[CHOOSE i \in DOMAIN Builtin : devices[i] = n],
                     conf   |-> Nothing]
               ELSE None]
  /\ cur_device = devices[Len(Builtin)]
  /\ selected_device = 0 /\ selected_config = -1 /\ current_config_ptr = None
  /\ default_timeout = -1 /\ default = NoBoot /\ disable_autoboot = FALSE
  /\ f_edit = FALSE /\ tmp_bconf = None /\ f_quit = FALSE
  /\ mounted = {} /\ request = None

----------------------------------------------------------------------------
(* The list                                                                *)

Dev(i) == heap[devices[i]].device

Without(s, i) == [j \in 1 .. Len(s) - 1 |-> IF j < i THEN s[j] ELSE s[j + 1]]

\* Pointers into a node that is freed.
Freed(ptr, n) == IF ptr # None /\ ptr[1] = n THEN Stale ELSE ptr

\* Mutant: the tail pointer stays where it was.
RemoveNodeKeepTail(i) ==
  /\ devices' = Without(devices, i)
  /\ UNCHANGED cur_device
  /\ heap' = [heap EXCEPT ![devices[i]] = None]

\* bootdevice_remove, its device being found at place i.
RemoveNode(i) ==
  /\ devices' = Without(devices, i)
  /\ cur_device' =
       CASE i > 1 /\ i = Len(devices) -> devices[i - 1]
         [] i = 1 /\ Len(devices) = 2 -> devices[2]
         [] OTHER                      -> cur_device
  /\ heap' = [heap EXCEPT ![devices[i]] = None]

\* bootdevice_remove: the first device of that name, if there is one.  dead is
\* the node it frees.
RemoveDevice(d, dead) ==
  \/ \E i \in DOMAIN devices :
       /\ Dev(i) = d
       /\ \A j \in 1 .. i - 1 : Dev(j) # d
       /\ dead = devices[i]
       /\ RemoveNode(i)
  \/ /\ \A i \in DOMAIN devices : Dev(i) # d
     /\ dead = None
     /\ UNCHANGED list

\* bootdevice_create and the append: cur_device->next = dev.
AppendNode(d, c, n) ==
  /\ heap[n] = None
  /\ heap' = [heap EXCEPT ![n] = [device |-> d, conf |-> c]]
  /\ \E i \in DOMAIN devices :
       /\ devices[i] = cur_device
       /\ devices' = [j \in 1 .. i + 1 |-> IF j <= i THEN devices[j] ELSE n]
  /\ cur_device' = n

\* bootdevices_draw_devices: the entry highlighted (0: none) when config sc of
\* the device at place sd + 1 is selected; sc = -1 selects the default.
Highlight(h, s, sd, sc) ==
  LET c == h[s[sd + 1]].conf
      k == IF sc < 0 THEN c.shown ELSE sc + 1
  IN  IF k \in 1 .. c.n THEN k ELSE 0

\* The pointer to that entry is set only while a device of the list is drawn
\* as selected; otherwise it is left as it is (ptr).
Redraw(sd, sc, ptr) ==
  /\ selected_device' = sd
  /\ IF sd + 1 \in DOMAIN devices'
     THEN LET k == Highlight(heap', devices', sd, sc) IN
          /\ current_config_ptr' = IF k = 0 THEN None ELSE <<devices'[sd + 1], k>>
          /\ selected_config' = IF sc < 0 /\ k > 0 THEN k - 1 ELSE sc
     ELSE /\ current_config_ptr' = ptr
          /\ selected_config' = sc

----------------------------------------------------------------------------
(* execute_boot_conf                                                       *)

\* The arguments for entry k of the configuration c of disk d.
BootOf(d, c, k) ==
  [devname |-> <<d, k>>,
   kernel  |-> IF c.kernel  THEN <<d, k>> ELSE None,
   initrd  |-> IF c.initrd  THEN <<d, k>> ELSE None,
   cmdline |-> IF c.cmdline THEN <<d, k>> ELSE None]

Mountable(b) == b.devname # None /\ b.devname[1] \notin mounted

\* The disk is mounted already where it would be mounted again, or it is gone
\* (if disks are taken out at all), or there is no path to mount.
MountFails(b, next) ==
  /\ ~ Mountable(b) \/ "remove" \in Requests
  /\ pc' = next
  /\ UNCHANGED <<mounted, request, f_quit>>

\* No kernel and no initrd: the command goes into /tmp/ps3boot.inc, for the
\* script that started ps3boot, and the disk stays mounted.
LeaveScript(b, next) ==
  /\ Mountable(b)
  /\ b.kernel = None /\ b.initrd = None
  /\ request' = b
  /\ f_quit' = TRUE
  /\ mounted' = mounted \cup {b.devname[1]}
  /\ pc' = next

\* Mutant: the disk is not unmounted when kexec has failed.
KexecLeavesMount(b, next) ==
  /\ Mountable(b)
  /\ b.kernel # None
  /\ request' = b
  /\ mounted' = mounted \cup {b.devname[1]}
  /\ pc' \in {next, "gone"}
  /\ UNCHANGED f_quit

\* kexec replaces the system, or fails and the disk is unmounted.
Kexec(b, next) ==
  /\ Mountable(b)
  /\ b.kernel # None
  /\ request' = b
  /\ pc' \in {next, "gone"}
  /\ UNCHANGED <<mounted, f_quit>>

\* An initrd without a kernel: mounted, unmounted, nothing executed.
NoKernel(b, next) ==
  /\ Mountable(b)
  /\ b.kernel = None /\ b.initrd # None
  /\ pc' = next
  /\ UNCHANGED <<mounted, request, f_quit>>

Execute(b, next) ==
  \/ MountFails(b, next) \/ LeaveScript(b, next) \/ Kexec(b, next)
  \/ NoKernel(b, next)

----------------------------------------------------------------------------
(* The main loop                                                           *)

TestQuit ==
  /\ pc = "top"
  /\ pc' = IF f_quit THEN "end" ELSE "serv"
  /\ UNCHANGED <<adding, list, view, auto, disable_autoboot, edit, f_quit,
                 mounted, request>>

NoRequest ==
  /\ pc = "serv"
  /\ pc' = "events"
  /\ UNCHANGED <<adding, list, view, auto, disable_autoboot, edit, f_quit,
                 mounted, request>>

\* Mutants: the list is not drawn anew; an edit goes on when the list has changed.
HandledNoRedraw(dead) ==
  /\ pc' = "events"
  /\ f_edit' = FALSE
  /\ tmp_bconf' = Freed(tmp_bconf, dead)
  /\ current_config_ptr' = Freed(current_config_ptr, dead)
  /\ UNCHANGED <<selected_device, selected_config>>

HandledKeepEdit(dead) ==
  /\ pc' = "events"
  /\ UNCHANGED f_edit
  /\ tmp_bconf' = Freed(tmp_bconf, dead)
  /\ Redraw(selected_device, selected_config, Freed(current_config_ptr, dead))

\* A request has been handled: main ends an edit and draws the list anew.
Handled(dead) ==
  /\ pc' = "events"
  /\ f_edit' = FALSE
  /\ tmp_bconf' = Freed(tmp_bconf, dead)
  /\ Redraw(selected_device, selected_config, Freed(current_config_ptr, dead))

RequestRemove(d) ==
  /\ pc = "serv"
  /\ "remove" \in Requests
  /\ \E dead \in Nodes \cup {None} : RemoveDevice(d, dead) /\ Handled(dead)
  /\ UNCHANGED <<adding, auto, disable_autoboot, f_quit, mounted, request>>

\* bootdevice_add removes the device before it mounts the disk, ...
AddFails(d, m) ==
  /\ pc = "serv"
  /\ "add" \in Requests
  /\ m.read = "no_mount" \/ d \in mounted
  /\ \E dead \in Nodes \cup {None} : RemoveDevice(d, dead) /\ Handled(dead)
  /\ UNCHANGED <<adding, auto, disable_autoboot, f_quit, mounted, request>>

\* (mutant: it does not)
AddMountsKeepsOld(d, m) ==
  /\ pc = "serv"
  /\ "add" \in Requests
  /\ m.read # "no_mount" /\ d \notin mounted
  /\ mounted' = mounted \cup {d}
  /\ adding' = <<d, m>>
  /\ pc' = "mounted"
  /\ UNCHANGED <<list, view, auto, disable_autoboot, edit, f_quit, request>>

AddMounts(d, m) ==
  /\ pc = "serv"
  /\ "add" \in Requests
  /\ m.read # "no_mount" /\ d \notin mounted
  /\ \E dead \in Nodes \cup {None} :
       /\ RemoveDevice(d, dead)
       /\ current_config_ptr' = Freed(current_config_ptr, dead)
       /\ tmp_bconf' = Freed(tmp_bconf, dead)
  /\ mounted' = mounted \cup {d}
  /\ adding' = <<d, m>>
  /\ pc' = "mounted"
  /\ UNCHANGED <<selected_device, selected_config, auto, disable_autoboot,
                 f_edit, f_quit, request>>

\* ... reads its configuration, ...
ReadNothing ==
  /\ pc = "mounted"
  /\ adding[2].read = "no_config"
  /\ mounted' = mounted \ {adding[1]}
  /\ adding' = <<None, Nothing>>
  /\ UNCHANGED <<list, auto, disable_autoboot, f_quit, request>>
  /\ Handled(None)

\* Mutant: bootdevice_default_config without its first test.
StartDefaultAnyway ==
  /\ pc = "mounted"
  /\ adding[2].read = "ok"
  /\ adding[2].auto
  /\ default_timeout' = adding[2].timeout
  /\ pc' = "default"
  /\ UNCHANGED <<adding, list, view, default, disable_autoboot, edit, f_quit,
                 mounted, request>>

\* bootdevice_default_config: only when no countdown is under way; it sets the
\* timeout first ...
StartDefault ==
  /\ pc = "mounted"
  /\ adding[2].read = "ok"
  /\ adding[2].auto /\ default_timeout < 0
  /\ default_timeout' = adding[2].timeout
  /\ pc' = "default"
  /\ UNCHANGED <<adding, list, view, default, disable_autoboot, edit, f_quit,
                 mounted, request>>

\* Mutants: one of the strings is forgotten.
SetDefaultNoInitrd ==
  /\ pc = "default"
  /\ default' = [BootOf(adding[1], adding[2], adding[2].shown) EXCEPT
                   !.initrd = default.initrd]
  /\ pc' = "link"
  /\ UNCHANGED <<adding, list, view, default_timeout, disable_autoboot, edit,
                 f_quit, mounted, request>>

SetDefaultNoDevname ==
  /\ pc = "default"
  /\ default' = [BootOf(adding[1], adding[2], adding[2].shown) EXCEPT
                   !.devname = default.devname]
  /\ pc' = "link"
  /\ UNCHANGED <<adding, list, view, default_timeout, disable_autoboot, edit,
                 f_quit, mounted, request>>

\* ... and then the rest, leaving alone what the new entry does not define.
SetDefault ==
  /\ pc = "default"
  /\ LET b == BootOf(adding[1], adding[2], adding[2].shown) IN
     default' = [f \in DOMAIN b |-> IF b[f] # None THEN b[f] ELSE default[f]]
  /\ pc' = "link"
  /\ UNCHANGED <<adding, list, view, default_timeout, disable_autoboot, edit,
                 f_quit, mounted, request>>

NoDefault ==
  /\ pc = "mounted"
  /\ adding[2].read = "ok"
  /\ ~ adding[2].auto \/ default_timeout >= 0
  /\ pc' = "link"
  /\ UNCHANGED <<adding, list, view, auto, disable_autoboot, edit, f_quit,
                 mounted, request>>

\* ... and puts the device at the end of the list.
Link ==
  /\ pc = "link"
  /\ \E n \in Nodes : AppendNode(adding[1], adding[2], n)
  /\ mounted' = mounted \ {adding[1]}
  /\ adding' = <<None, Nothing>>
  /\ Handled(None)
  /\ UNCHANGED <<auto, disable_autoboot, f_quit, request>>

----------------------------------------------------------------------------
(* Events.  A key reaches the menu only while no entry is edited; the      *)
(* buttons of a joystick always do.                                        *)

\* Any event but the edit of an entry stops the countdown for good and draws
\* the list again.
Select(sd, sc) ==
  /\ pc = "events"
  /\ pc' = "top"
  /\ disable_autoboot' = TRUE
  /\ UNCHANGED <<adding, list, auto, edit, f_quit, mounted, request>>
  /\ Redraw(sd, sc, current_config_ptr)

\* The clamps of bootdevice_select_prev and so on: lower first, upper last.
AtLeast0(x)   == IF x < 0 THEN 0 ELSE x
AtMost(x, hi) == IF x > hi THEN hi ELSE x

EntryCount(sd) ==
  IF sd + 1 \in DOMAIN devices THEN heap[devices[sd + 1]].conf.n ELSE 0

\* Mutant: no clamp.
ConfigNextFree == Select(selected_device, selected_config + 1)

SelectPrev == Select(AtLeast0(selected_device - 1), -1)
SelectNext == Select(AtMost(selected_device + 1, Len(devices) - 1), -1)
ConfigPrev == Select(selected_device, AtLeast0(selected_config - 1))
ConfigNext ==
  Select(selected_device,
         AtMost(selected_config + 1, EntryCount(selected_device) - 1))
OtherKey   == Select(selected_device, selected_config)

NoEvent ==
  /\ pc = "events"
  /\ pc' = "top"
  /\ UNCHANGED <<adding, list, view, auto, disable_autoboot, edit, f_quit,
                 mounted, request>>

\* The entry bootdevice_boot executes: 0 when the place is empty, holds one of
\* the built-in devices, or has no entry of that number.
Target ==
  IF selected_config + 1 \in 1 .. EntryCount(selected_device)
  THEN selected_config + 1 ELSE 0

\* RETURN, or the cross button.  (gameos and poweroff call a program and
\* return; they change nothing here, as OtherKey.)
Boot ==
  /\ pc = "events"
  /\ Target # 0
  /\ LET i == selected_device + 1 IN
     Execute(BootOf(Dev(i), heap[devices[i]].conf, Target), "top")
  /\ disable_autoboot' = TRUE
  /\ UNCHANGED <<adding, list, auto, edit>>
  /\ Redraw(selected_device, selected_config, current_config_ptr)

Escape ==
  /\ pc = "events" /\ ~ f_edit
  /\ pc' = "top"
  /\ f_quit' = TRUE
  /\ disable_autoboot' = TRUE
  /\ UNCHANGED <<adding, list, auto, edit, mounted, request>>
  /\ Redraw(selected_device, selected_config, current_config_ptr)

QuitEvent ==
  /\ pc = "events"
  /\ pc' = "end"
  /\ UNCHANGED <<adding, list, view, auto, disable_autoboot, edit, f_quit,
                 mounted, request>>

\* SPACE edits the command line of the entry highlighted last, if it has one.
\* (Through a stale pointer it may read anything.)
StartEdit ==
  /\ pc = "events" /\ ~ f_edit
  /\ current_config_ptr # None
  /\ current_config_ptr # Stale => heap[current_config_ptr[1]].conf.cmdline
  /\ pc' = "top"
  /\ f_edit' = TRUE
  /\ tmp_bconf' = current_config_ptr
  /\ UNCHANGED <<adding, list, view, auto, disable_autoboot, f_quit, mounted,
                 request>>

\* RETURN writes the text back through tmp_bconf.  (Other keys change the
\* text only, like NoEvent.)
CommitEdit ==
  /\ pc = "events" /\ f_edit
  /\ pc' = "top"
  /\ f_edit' = FALSE
  /\ UNCHANGED <<adding, list, auto, disable_autoboot, tmp_bconf, f_quit,
                 mounted, request>>
  /\ Redraw(selected_device, selected_config, current_config_ptr)

----------------------------------------------------------------------------
(* timer_handler, every fourth time: bootdevice_autoboot_timer.  The timer *)
(* counts the time the process computes, so it does not expire while       *)
(* system() waits for mount, umount or kexec.                              *)

CountDown ==
  /\ pc # "gone"
  /\ ~ disable_autoboot
  /\ default_timeout >= 0
  /\ default_timeout' = default_timeout - 1
  /\ IF default_timeout = 1
     THEN Execute(default, pc)
     ELSE UNCHANGED <<pc, mounted, request, f_quit>>
  /\ UNCHANGED <<adding, list, view, default, disable_autoboot, edit>>

----------------------------------------------------------------------------
Serve ==
  \/ NoRequest
  \/ \E d \in Disks : RequestRemove(d)
  \/ \E d \in Disks, m \in Media : AddFails(d, m) \/ AddMounts(d, m)
  \/ ReadNothing \/ StartDefault \/ SetDefault \/ NoDefault \/ Link

HandleEvent ==
  \/ SelectPrev \/ SelectNext \/ ConfigPrev \/ ConfigNext \/ OtherKey
  \/ NoEvent \/ Boot \/ Escape \/ QuitEvent \/ StartEdit \/ CommitEdit

Next == TestQuit \/ Serve \/ HandleEvent \/ CountDown

Spec == Init /\ [][Next]_vars

\* The main loop spins: it never waits for a request or an event.  It thereby
\* uses the processor, so the timer keeps expiring.
FairSpec == Spec /\ WF_vars(TestQuit \/ Serve \/ HandleEvent) /\ WF_vars(CountDown)

----------------------------------------------------------------------------
(* Properties                                                              *)

Live(ptr) ==
  \/ ptr \in {None, Stale}
  \/ /\ ptr[1] \in Nodes /\ heap[ptr[1]] # None
     /\ ptr[2] \in 1 .. heap[ptr[1]].conf.n

TypeOK ==
  /\ pc \in Phases
  /\ adding[1] \in Disks \cup {None} /\ adding[2] \in Media \cup {Nothing}
  /\ \A n \in Nodes :
       heap[n] # None => /\ heap[n].device \in Disks \cup Names
                         /\ heap[n].conf \in Media \cup {Nothing}
  /\ devices \in [1 .. Len(devices) -> Nodes]
  /\ cur_device \in Nodes
  /\ selected_device \in Nat
  /\ selected_config \in -1 .. MaxEntries
  /\ Live(current_config_ptr) /\ Live(tmp_bconf)
  /\ default_timeout \in -1 .. MaxTimeout
  /\ default \in [DOMAIN NoBoot -> Entries \cup {None}]
  /\ disable_autoboot \in BOOLEAN /\ f_edit \in BOOLEAN /\ f_quit \in BOOLEAN
  /\ mounted \subseteq Disks
  /\ request # None => request \in [DOMAIN NoBoot -> Entries \cup {None}]

\* The tail pointer is the last node of the list, and the nodes in use are
\* exactly those of the list: whatever is added and removed in whatever order,
\* the append loses no device and writes into none that has been freed.
TailIsLast ==
  /\ devices # <<>>
  /\ cur_device = devices[Len(devices)]
  /\ {n \in Nodes : heap[n] # None} = {devices[i] : i \in DOMAIN devices}

\* Inductive, and stronger than TailIsLast: no node and no name is listed
\* twice, the head is a built-in device (no request names one, so the head is
\* never removed), and a disk that is being added is not listed.
ListOK ==
  /\ heap \in [Nodes -> [device : Disks \cup Names, conf : Media \cup {Nothing}]
                         \cup {None}]
  /\ devices \in Seq(Nodes) /\ Len(devices) > 0
  /\ cur_device = devices[Len(devices)]
  /\ \A n \in Nodes : heap[n] # None <=> \E i \in 1 .. Len(devices) : devices[i] = n
  /\ \A i, j \in 1 .. Len(devices) : devices[i] = devices[j] => i = j
  /\ \A i, j \in 1 .. Len(devices) : Dev(i) = Dev(j) => i = j
  /\ Dev(1) \in Names

AddingOK ==
  pc \in {"mounted", "default", "link"} =>
    /\ adding \in Disks \X Media
    /\ \A i \in 1 .. Len(devices) : Dev(i) # adding[1]

\* What RETURN boots is what is highlighted, each time an event is handled:
\* the list may have changed under the selection meanwhile.
BootsHighlighted ==
  pc = "events" /\ selected_device + 1 \in DOMAIN devices =>
    IF Target = 0 THEN current_config_ptr = None
    ELSE current_config_ptr = <<devices[selected_device + 1], Target>>

\* The text that is being edited belongs to an entry of the list: the request
\* that frees an entry ends the edit (main.c:169), and main tests the pointer
\* it is given before an edit (main.c:275).
EditsListedEntry ==
  pc = "events" /\ f_edit => tmp_bconf # Stale

\* Between two requests nothing is mounted, unless ps3boot is about to quit and
\* leave a disk to the script that runs next.
MountsUndone ==
  /\ pc \in {"top", "serv", "events"} /\ ~ f_quit => mounted = {}
  /\ pc \in {"mounted", "default", "link"} => adding[1] \in mounted

\* What is executed is one entry of one disk: its kernel, its initrd and its
\* command line, with none of an entry met before.
BootsOneEntry ==
  request # None =>
    \E e \in Entries, m \in Media : request = BootOf(e[1], m, e[2])

\* While a countdown runs no other begins, and nothing changes the entry that
\* it will boot: the first disk with a default wins (devices.c:48).
DefaultStands ==
  [][default_timeout > 0 /\ pc # "default" =>
       default' = default /\ default_timeout' <= default_timeout]_vars

\* A countdown ends with its entry being executed, unless the user stops it or
\* ps3boot quits, or it ends just while a disk is being added: the disk may be
\* the one to boot, which is mounted already, or the one whose default entry
\* has a timeout so far and nothing else.
AutobootFires ==
  default_timeout > 0 ~>
    \/ request # None \/ disable_autoboot \/ pc \in {"end", "gone"}
    \/ default_timeout = 0 /\ pc \in {"mounted", "default", "link"}

\* The list keeps the order of BootOrder.
Order == INSTANCE BootOrder WITH
           order <- [i \in DOMAIN devices |-> Dev(i)]

OrderSpec == Order!Spec
=============================================================================
