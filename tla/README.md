# pdaXrom-ng: specifications, model checking and proofs

This directory models the programs of the pdaXrom repository in TLA+: the
shell engine that builds root file systems, and the small daemons and tools
that run on the built system.  TLC checks the models on small instances; TLAPS
proves the central invariants for every size of instance.  Everything is
translated from the code; line numbers are in `PROJECT.json` under `map`.

    tlc -config engine_clones.cfg MCBuildEngine.tla     # one run
    tlapm BootMenuProofs.tla                            # one proof module

## 1. The system

| Part | Where | State it keeps | Operations | Model |
|---|---|---|---|---|
| Build engine | `pdaXrom-ng/rules/core.sh`, `rules/template`, ~640 rules of that shape, `build.sh`, `clone-working-dir.sh` | sources (shared by clones), trees, stamps, root file system | download, extract, apply_patches, compile, install_fakeroot_finish, clean, restart | `BuildEngine`, `BuildContract` |
| Source fetchers | `core.sh` download_git/svn, `rules/template-git` | checkouts below SRC_DIR | clone, checkout, copy, patch, build again | `Checkout` |
| ps3boot menu | `ps3boot/main.c`, `devices.c` | device list, selection, edit, default entry, countdown, mounts | requests, keys, boot, countdown | `BootMenu`, `BootOrder` |
| ps3boot configuration readers | `ps3boot/parse-config.c` | entries, default, timeout of a disk | read kboot, yaboot, ps3boot, syslinux, grub files | `BootConfig` |
| ps3boot hotplug | `ps3boot-udev.c`, `server.c`, `utils/ps3boot`, `99-ps3boot.rules` | socket, backlog, helper processes | poll a drive, tell, accept, kill, restart | `BootHotplug` |
| sixaxisd | `sixaxisd/` | table of 7 controllers, descriptors, repeated events | accept, data, error, exit | `Sixaxis` |
| dancesplash | `dancesplash/main.c`, `generic/etc/init.d/functions`, `rcS` | a message in shared memory and a semaphore | update, draw, quit | `Splash` |
| minimount | `minimount/` | mounts below /media, helpers | add, remove, poll | `Minimount` |
| netconfig | `netconfig/` | /etc/network/interfaces, the window | read, select, type, rewrite, apply | `NetConfig`, `NetSettings` |
| pppconfig | `minidesk-utils/pppconfig` | the peer, pap-secrets, chap-secrets | apply | `PppSecrets` |
| sn-monitor | `sn-monitor/` | the root cursor | startup events | `Cursor` |
| sms-pdu | `sms-util/` | nothing between calls, but the serial line and the modem keep theirs | encode and send, list, delete | `Phone` |
| Initramfs | `pdaXrom-ng/generic/init.initramfs` | mounts, a copy of the root image, swap | try a disk, copy, mount, boot | `Initramfs` |
| Drawing, fonts, settings | `ps3boot/ui-*`, `image*`, `dancesplash/libdance` | pixels | | not modelled: pure output |
| Other root file system scripts | `pdaXrom-ng/generic` | | boot scripts | not modelled: glue of external programs |
| Board packages | `pdaXrom-ng-bsp` | | | not modelled: vendor code and rules of the shape of the template |

How they interact.  The engine puts the daemons into an image and meets them no
more.  On the target, udev starts `ps3boot-udev` (or `minimount-udev`) for each
uevent of a block device; the helpers talk to `ps3boot` over a Unix socket;
`ps3boot` mounts disks, reads their boot configurations, shows them and starts
kernels, by hand or by a timer; the script `utils/ps3boot` runs it in a loop.
`sixaxisd` runs beside it and makes its keys out of Bluetooth controllers.

What is hard about them:

* *Engine*: a build is a sequence of commands that can each fail or be killed,
  and the next run trusts the files it left.  `error` does not stop everything
  it looks like it stops (pipes and subshells), clones share one download
  directory without a lock, and extraction stamps can collide.
* *Menu*: a linked list with a tail pointer, an index into it, pointers to its
  entries kept across requests, and a signal handler that mounts, boots and
  unmounts between any two steps of the main loop.
* *Hotplug*: messages lost between `bind` and `listen`, a `trigger` that makes a
  second poller for every drive, pollers that outlive their drive or a
  `killall`, `udev` waiting for a helper that waits for `ps3boot`.
* *Readers*: nested loops over one file, of which the inner one reads the line that
  belongs to the outer one.
* *sixaxisd*: descriptors that are closed and given out again while the table and
  the results of poll still name them; *dancesplash*: a buffer tested outside its
  lock; *netconfig* and *pppconfig*: files rewritten by line matching, in several
  steps.
* *minimount*: several processes per drive, each a sequence of mkdir, mount, umount
  and rmdir on names that two media may share; *sms-pdu*: what a read returns is
  taken for the answer to the last command; *sn-monitor*: no count of what starts.
* *Fetchers and rules*: whether a tree is fetched, copied and patched is decided by
  what an earlier, perhaps interrupted run left; *initramfs*: what one disk left
  behind is there when the next is tried.

`PROJECT.json` lists every such hazard at its line, with the property that
catches it or the reason why none does.

## 2. Plan

1. `BuildContract`, `BuildEngine` (done, proved): refinement of the contract,
   safety under failure, kill, clean and clones, completion.
2. `BootOrder`, `BootMenu` (done, proved).
3. `BootHotplug` (done, proved).
4. `Splash` (done, proved): the daemon and any number of updaters on one buffer.
5. `Sixaxis` (done, proved): the controller table and the descriptors of the
   process, while controllers come and go.
6. `BootConfig` (done, proved): the readers of boot
   configurations, line by line.
7. `NetConfig` with its abstract specification `NetSettings`, `PppSecrets`
   (done, proved): configuration files rewritten line by line.
8. `Minimount` (done, proved): mount points by label, duplicate triggers, removals.
9. `Checkout` (done, proved): download_git and download_svn with the rules that copy,
   patch and build, over runs that are cut off.
10. `Phone`, `Cursor` (done, proved): byte counts at width 8 and answers
    out of step; pending startup sequences.
11. `Initramfs` (done, proved): disks tried one after another.
12. `MCPrograms` (done): one run for `Splash` and everything from 7 to 11.

Abstract specifications worth stating: a build promises `BuildContract`; the
list promises `BootOrder`; a rewritten configuration file promises a table of
settings by interface, `NetSettings`.  Every invariant and action property that a
run checks has its theorem; what is left is liveness (section 10).

## 3. The build engine

`BuildEngine.tla`: one process per working directory.  `pc[w]` is the command
its script is at; a rule runs `rule -> fetch -> wget/mirror -> extract -> untar
-> stamp_x -> base -> vendor -> stamp_p -> compile -> finish -> stamp_i`.  Each
command that takes time is two steps, so that it can be cut off or met by another
clone in the middle.  A file or tree is abstracted to whether it is absent,
partial or whole, and a tree to how many patches of each series it carries; what
is copied into the root file system remembers whether it came from a half
unpacked or unpatched tree.  Five kinds of events (`Env`) happen up to
`MaxEvents` times: a tested command fails, a patch is rejected, the first tar of
a pipe fails, everything is killed, the user cleans.  Ctrl-C is `fail`: core.sh
traps SIGINT, so only the child dies.  During `clean` it is `kill`: clean runs
before the trap is set.

Abstracted: names, versions, the choice among BSP patch directories (only the
two series remain), the number of configure and make commands (`Compile` is all
of them), 7z/zip branches (as tar), `rm -rf` in any order.

| Run | Instance | Shows |
|---|---|---|
| `engine_clones` | 2 clones, 3 rules, two with one stem, 2 events of fail, patch, kill | `InstalledIsWhole`, `NoHalfTree`: sharing SRC_DIR never puts a half unpacked tree into an image |
| `engine_clean` | 1 directory, 3 rules, 4 events of fail, patch, kill, clean | the engine implements `BuildContract`, which promises `InstalledIsWhole` too |
| `engine_single` | 1 directory, 3 rules, 2 patches, 4 events of fail, clean, pipe | `BuiltPatched`; `BuildCompletes` under fairness |
| `engine_patch` | 1 rule, a patch is rejected | violated: `\|\| error "patching"` inside a piped loop ends the loop only |

`tar c | tar x || error` (core.sh:422) hides a failure in the same way as
`engine_patch` shows: with `Env = {"pipe"}`, `InstalledIsWhole` is violated, and its
theorem excludes that event.

Two clones, two versions on one stem with a rule between them, and as many
events as commands that can interact are enough for the races: a third clone
could only repeat what one of the two does to the shared file.  Fairness: weak
fairness of the running script (the shell goes on) and of `Run` (the user starts
the build again as long as it is incomplete); none for failures or kills.

Proved in `BuildEngineProofs`, for any number of clones, rules, patches and events:

* `TypeCorrect`: `TypeOK`, inductive as it stands.
* `InstalledSafe`: without unnoticed pipe failures,
  `InstalledIsWhole`.  The invariant alone is not inductive: `ImageAt` adds that
  a script about to stamp has a whole package and that `clean` reaches the root
  file system only when no stamp is left, and `OrderAt` that a script at a rule
  works on a package without a stamp.
* `NoHalfTreeSafe`: without clean and copied sources, `NoHalfTree`.  `TreeAt`
  says that the only half unpacked tree is that of the first package without a
  stamp, which is unpacked again before it is used.
* `BuiltPatchedSafe`: where every patch applies and nothing is killed,
  `BuiltPatched`.  Both exceptions are needed (`engine_patch`, and a script killed
  between two patches, core.sh:260).  `PatchAt` says that a marked tree carries both
  series and is not unpacked again as long as it is marked, because its stem is
  stamped; that an unmarked one carries nothing but what the loops have got to; and
  that only marked trees get past `compile`.
* `Implements`: `Spec => Contract!Spec` from `OrderAt` and `ImageAt`, each action
  being a `Work`, `Stamp`, `Unstamp` or stutter of the contract.

## 4. The ps3boot menu

`BootMenu.tla`: the main loop with `pc` at the points between which the
SIGVTALRM handler is distinguishable (test of f_quit, request, the phases of
bootdevice_add, event), and `CountDown`, enabled at all of them.  The list is
kept as memory (`heap`) plus the sequence of its nodes plus the tail pointer
`cur_device`, so that appending through a wrong pointer would show.
`current_config_ptr` and `tmp_bconf` are pointers into nodes and become `Stale`
when the node is freed.  A disk is a member of `Media`: unmountable, without
configuration, or with entries, a default and a timeout: what the readers
(`BootConfig`, section 8) leave in dev->conf, dev->def and dev->timeout.  The
handler is one step: it runs to its end before the main loop goes on.  The timer
is ITIMER_VIRTUAL, so it does not expire while system() waits for mount, kexec or
umount; a mount and what follows it in one function is one step for that reason.

| Run | Instance | Shows |
|---|---|---|
| `menu_list` | 2 disks added and removed in any order, 3 nodes, good and bad contents, defaults of kernels and of scripts | `TypeOK`, `TailIsLast`, `BootsHighlighted`, `MountsUndone`, `DefaultStands`, refinement of `BootOrder` |
| `menu_boot` | 2 disks added and added again, none taken out; fair main loop and timer | `EditsListedEntry`, `BootsOneEntry`, `AutobootFires` |
| `menu_stale` | 1 disk, taken out while selected and last | violated: SPACE edits freed memory, past the test in main.c:276 |

Two disks (three list places with poweroff) give head, middle and tail; two
entries give a first and a last; timeouts up to 2 give "more than one tick
left".  `menu_boot` leaves removals out because with them `EditsListedEntry`
fails as `menu_stale` shows and `AutobootFires` may lose its disk.  Fairness:
the main loop polls its socket and its input without waiting, so it always goes
on, and as it thereby consumes processor time the virtual timer goes on too.
`CHECK_DEADLOCK FALSE` because the program ends (kexec, or quit).

Proved in `BootMenuProofs`, for any disks, nodes, contents and timeouts:

* `TailSafe`: `TailIsLast`, from the inductive `ListOK` (no node and no name is
  listed twice, the nodes in use are those of the list, the head is built in and
  no request names it) and `AddingOK` (a disk being added is not listed).
* `KeepsTheOrder`: `Spec => Order!Spec`; removals and `Link` map to `Remove` and
  `Add`, everything else stutters.
* `MountsSafe`: `MountsUndone`, from `MountsOK` (while a disk is being added it
  is the only one mounted, unless ps3boot is about to quit).

* `MenuTypes`, `HighlightSafe`, `DefaultSafe`: `TypeOK`, `BootsHighlighted` and
  `DefaultStands`, from `MenuOK`.  To the list facts it adds where the two pointers may
  point (`Alive`: null, stale, or into a node in use), that built-in devices have no
  entries, that the phase of the default is reached with such a medium only, and, as
  `ShownOK`, that `current_config_ptr` is the highlighted entry wherever the main loop
  waits.  The last one is what a freed node would break: bootdevice_remove takes the
  entries along, and only the redraw that follows sets the pointer anew.
* `EditSafe`: `EditsListedEntry`, if no disk leaves for good (`DisksStay`: no remove,
  every medium mounts and reads, an auto entry has a kernel or an initrd).  Then the
  list never stays shorter than the selection.  `menu_stale` shows what happens without.
* `OneEntrySafe`: `BootsOneEntry`, if the default entries of all media define the same
  strings (`DefaultsAlike`).  bootdevice_default_config copies a string only where the
  entry has one, so a second default with fewer strings would boot with one of the
  first.

The constants of `menu_boot` satisfy both hypotheses.  `AutobootFires` is liveness and
stays with TLC.

## 5. ps3boot hotplug

`BootHotplug.tla`: kernel and udevd (external: uevents of a device in order, one
at a time, udevd waits for the process it started), helper processes (`start`,
`plug`, `connect`, `write`, `unplug`; `forked` once udev no longer waits), the
socket with its backlog, ps3boot's server side (`bound`, `listening`, `loop`,
`read`), and the script around it (killall, run, killall, ps3boot.inc or end).
`listed` is what ps3boot made of the messages; an add of a disk that is gone
again cannot be mounted and lists nothing.

| Run | Instance | Shows |
|---|---|---|
| `hotplug` | machines with 1 drive and 3 events, or with 1 disk, 1 drive and 1 event; backlog 1, 6 helpers; fair processes | `TypeOK`, `QuietIsRight`, `Converges`, `UdevGoesOn` |

A machine is chosen at first, so that one run covers both.  A backlog of one (the
code has five) makes it full with two helpers.  The helpers are never all in use,
so that their number is no bound: with more of them the run has the same states.
(With fewer, `udev` would seem to hang: each restart of the menu can leave a poller
that escaped its `killall`.)  Assumed of users: a medium is out for longer than one
poll (guard of `Insert`).  Fairness: every process runs; the environment and `Quit`
are not fair.

*What the trigger asks for.*  server.c:35 calls `udevadm trigger` without `--action`.
An old udev (145, which rules/udev-145.sh still builds) then sends adds.  The udev 164
of the ps3boot image (platforms/ps3/build-ps3boot.sh:23, rules/udev.sh:12) sends
changes, and ps3boot-udev answers those with "Unknown action" (293-294).  `Trigger` takes
either (`TriggerActions`).  After changes, a disk that was there before the trigger is
never listed until something happens to it that a helper tells of: `untold` is the set of
these disks, `QuietIsRight` and `Converges` except exactly them, and with
`TriggerActions = {"add"}` the set is empty.  So on the image as the repository builds it
ps3boot lists only what is plugged in later, and a medium that a surviving poller sees.

Proved in `BootHotplugProofs`, for any devices, helpers, events and backlog:
`TypeCorrect` and `QuietSafe` (`QuietIsRight`).  The property speaks of a quiet moment
only, so the invariant `HotplugInv` says for every moment what is still to come.  For
each disk, `SpokenOK`: if the last message on its way is wrong, then an add or another
message is due (an uevent, a helper that has not written yet, a poller that will see the
change); `ListedOK`: the same of the list when nothing is on its way, and a drive that is
plugged in is watched, unless the disk is one of the `untold`.  The remaining parts say which helpers can be where
(`HelpersOK`), that a connection belongs to a helper that has written or will
(`ConnsOK`), that the last uevent of a device tells whether it is there (`UeventsOK`), and
that a helper which tells what its uevent said and goes is right or will be followed by
one that is (`OneShotsOK`).  The guard of `Insert` is needed: if
a medium could be exchanged between two polls, none of the pollers would tell.
`Converges` and `UdevGoesOn` are liveness and stay with TLC.

## 6. dancesplash

`Splash.tla`: the daemon (`open` shared_open, `init` sem_init, `clear`, `ui`,
`loop`, `wait`, `read`, `wipe`, `post`, `close`) and the scripts of the boot, each
of which runs one `dancesplashfb -u` at a time (`open`, `test` the buffer, `wait`
for the semaphore, `copy`, `post`).  Segments are numbered by the start of the
daemon that made them, as a removed segment lives on while somebody has it
attached; `current` is the one shmget finds.  A program that waits while
sem_init is called may sleep for ever (`asleep`).  A message is its sender and
whether it is QUIT.

| Run | Instance | Shows |
|---|---|---|
| `programs` (section 9) | 2 scripts, 4 messages, 2 starts of the daemon | `OneInside`, `OwnMessageGone`; `Returns` under fairness |

Two scripts are the fewest that race for the buffer; four messages let one of
them send again while the other is inside; the second start meets what a failed
or ended first one left behind.  Fairness: the daemon's loop polls and goes on,
and so does each program; nobody has to send, start, or press Escape.

Two scripts can both see an empty buffer and one message overwrites the other
(main.c:130 tests outside the semaphore), so "no message is lost" is not a
property of this code.  `OwnMessageGone` is what remains.  `Returns` is promised
only while the daemon stays in its loop: QUIT, Escape and a failed start leave
scripts waiting, and nothing in the repository says what they should do then.

Proved in `ProgramsProofs`, for any scripts, messages and starts: `SplashTypesSafe`;
`OneInsideSafe`, because on a segment that was initialised at most once the
semaphore is 0 while somebody is inside (`LockOK`); `OwnMessageSafe`, because a script sends one message at
a time and only the daemon empties the buffer.

## 7. sixaxisd

`Sixaxis.tla`: the main loop (`poll`, accept on `ctrl`, accept on `data`, `check`;
`init` while initialize_sixaxis talks to a controller) and the controllers, which
connect their control and their data channel and vanish at any moment, also
between poll and accept or between poll and the check.  `client` is the table;
`file` says what each descriptor of the process is open on, and the lowest free
number is given out next, so that a descriptor that is noted too long would show
as one that belongs to somebody else.  A report only matters by waking poll.

The model keeps what looks wrong in the code: the device is noted in the first
place whichever controller came (sixsrv.c:165), `out` of the other places stays 0,
a full table accepts and forgets the socket (155), recv takes a pending error
along so that poll does not report it (379), accept blocks when its connection has
vanished (350), and a place is emptied by an error that is older than what is
noted there (357-375).

| Run | Instance | Shows |
|---|---|---|
| `sixaxis` | 3 controllers, 2 places, 5 descriptors, 3 connects | `OwnSockets`, `FirstHasDevice`; `Initialized` under fairness |

Three controllers fill two places; five descriptors are used up by two
controllers and a device, so that each number comes again; three connects let a
controller come back twice.  Fairness: the loop runs (a controller that is
connected answers initialize_sixaxis); controllers need not come, stay or go.
`Initialized` exempts what the code leaves out: no descriptor, a socket forgotten
by a full table, an accept that waits.  `CHECK_DEADLOCK FALSE` because nothing
happens any more once all controllers have come and gone.

Proved in `SixaxisProofs`, for any number of controllers, places and descriptors:
`TypeCorrect`, `OwnSocketsSafe`, `FirstDeviceSafe`.  They are inductive only
together.  Closing a client must not close what another place notes: two places
have different controllers, a controller has one socket per channel in the
table, and only the first place notes a device (`DeviceKept`).

## 8. Boot configuration readers

`BootConfig.tla`: one file, read by one of five readers; a line is what it sets
(or that it is blank, or a comment) and its number, and an entry is its label and
the numbers of the lines it was taken from.  `outer` is the loop over the file,
`section` the inner loop of one section, `again` the while (1) in which syslinux
looks at a line once more when it ended a section.  The line that ended a section
of any other reader is gone.  The file is made up while it is read, so a run
covers every file up to `MaxLines`.

| Run | Instance | Shows |
|---|---|---|
| `bootconfig` | 5 readers, 2 labels, files of up to 6 lines | `Complete`, `OwnLines`, `DefaultBoots`; `Ends` under fairness |

Six lines are enough for default, timeout, two sections with a blank line between
them and a line of their own.  `Complete` speaks of sections separated by a blank
line (`Separated`), as in the samples of `ps3boot/test`: without one yaboot and
ps3boot lose the second section, and grub runs the two together.  `DefaultBoots`
speaks of files whose timeout and default come first, as those lines count from
where they stand.  `Ends` exempts three kinds of syslinux files (`Endless`), on which
the reader hangs: with a comment, with a display that names no file, and with a
header as the last line.  Nothing in the repository promises an end for them.
It also says where a reader stops before the end.  get_str_val returns NULL for a line
without a value, and a message of yaboot and ps3boot (parse-config.c:219-221, 322-324),
an append, root, ramdisk, initrd-size or exec within a section (246-265, 345-347,
441-442) is used unseen: `Crash` ends the program, with the line read and nothing
listed of it.  `Ends` allows that for the first line of this sort only (`Valueless`), at a
place which it finds anew from the file as a whole; kboot and grub, which check, and the
settings, for which NULL is no default, go on.  A crashed reader is never `done`, so
`Complete` and `DefaultBoots` say nothing of its file; `OwnLines` does.
Fairness: the reader goes on.

Proved in `BootConfigProofs`, for any labels and lines and files of any length:

* `TypeCorrect` and `OwnLinesSafe`.  The latter needs `OwnSection`: while a section is
  read it has only its own lines, and its header is the last one of the file so far.
* `CompleteSafe` (`Complete`).  `Complete` says what a whole file means; `ReadOK` says it
  of the part that has been read.  The sections but the `Open` one are `Closed`: a line
  after them ended them, so that later lines say nothing of them any more (`ClosedOK`), and
  they are what is listed (`ListedOK`); what was taken of the open one so far is what the
  file says of it so far (`SectionOK`).  `Stuck` exempts the file on which the reader of
  syslinux hangs, and a crash leaves the section unlisted.
* `DefaultSafe` (`DefaultBoots`), from `SettingsOK`: the timeout and the default are the
  last ones of the file, grub's less the entries that were listed since, and what is
  noted is the first entry that the default names.

The assumption on `Lines` says which lines a reader knows: syslinux has no timeout and no
default (parse-config.c:402-407), and only yaboot takes the label from a line of its own.

## 9. The small programs

`MCPrograms.tla` runs eight programs in one run: a behaviour is one of one of them,
`program` says which, and the variables of the others stay as they begin.  They share
no state, so the states of the run are the sum of those of its parts, and nothing is
gained by interleaving them.  Each module can be checked alone with its constants from
`programs.cfg`.  `CHECK_DEADLOCK FALSE` because each of them ends, or waits for a user
who does nothing more.  Only dancesplash has fairness (section 6); the others promise
nothing that must happen.

| Program, module | Instance | Shows |
|---|---|---|
| dancesplash, `Splash` | section 6 | `OneInside`, `OwnMessageGone`, `Returns` |
| netconfig, `NetConfig` | 2 interfaces, one wireless, 4 files, 3 edits, 2 applies | `ReadsRow`, `ApplyIsIdle`; the program implements `NetSettings` (`NetTable`) |
| pppconfig, `PppSecrets` | 3 logins, one the beginning of another, 2 passwords, 2 applies | `Dialable`, `SecretsKept` |
| sms-pdu, `Phone` | 2 runs, a number with and without `+`, texts of 20 and 300 octets, 3 cuts | `SentAsAsked`, `AnswersTrusted` |
| sn-monitor, `Cursor` | 2 sequences, 5 events | `WatchWhileStarting` |
| minimount, `Minimount` | a stick and a drive, 2 labels, 4 processes, 4 moves of the user | `QuietIsMounted` |
| fetchers and rules, `Checkout` | 2 clones, 6 ways to fetch and copy, 2 retries each | `InstalledAsAsked` |
| /init, `Initramfs` | 2 disks of every kind, with and without union and video memory | `FirstWholeIsRoot`, `DiskAsNeeded` |
| netconfig, run `net_shipped` | the file of the image, 3 interfaces | violated: `OthersKept` |

*netconfig*.  A file is a sequence of lines (`Line`), the window the values of its
entries.  `CopyLine` and `ReadLine` are the bodies of the two loops, `Copying` and
`Reading` the loops after so many lines of the file; `ApplyWrite` writes the copy, `ApplyRename` renames it, `ApplyUp` runs ifdown and
ifup, and the program may be killed between them.  Stanza and row are defined for the
properties anew, from heads and empty lines, so that the loops are compared with
something else than themselves.  Two interfaces are the one that is rewritten and one
that must survive it; the four files have stanzas of each kind first, last, with one
and two blank lines between them, and with the autos in front.  The run assumes that
stanzas are separated by empty lines, because `net_shipped` shows what happens
otherwise: the file that every image ships (`generic/etc/network/interfaces:13-16`) has
no such lines, and the first Apply for eth0 deletes the stanzas of all others.  The
mode of a radio is written but never read; `ApplyIsIdle` leaves it out.  It is
about the values of the settings; to an interface without a stanza Apply gives one.

*pppconfig*.  apply_ppp opens the peer, rewrites two secret files and closes the peer,
which is written when its buffer is flushed; a file that cannot be opened is noted in
`refused`.  update_secret removes every line that *begins* with the login; which login
begins with which is a constant, so that the proof holds for any.

*sms-pdu*.  Each of the three jobs is a sequence of commands; after each the program
reads once and judges by the end of what it read.  The modem is external and answers in
its own time, in up to two parts (`cuts`), and a run may be killed (`cuts` too), so that
what is read may belong to an earlier command or run.  Octets are counted at width 8:
300 is more than the field holds.  The number is whatever send is called with: eleven
characters of it are packed in pairs, whether they are digits or not (`Packed`: what of
a character minus 48 exceeds four bits runs into its neighbour).  The run sends to a
number of eleven digits and to one with a `+`, the form that the usage text of the program
shows (sms-pdu.c:337).  `SentAsAsked` says of the former that the message goes to it.  The
latter goes to another number or to none: `PlusGoesAstray`, below.
Texts above 496 octets are not modelled: the digits of the PDU overrun their buffer.

*sn-monitor*.  libsn turns messages into events, handled later in order.  The cursor
follows the last event; `overlapped` marks when that is not enough.

*minimount*.  A process is started by udev for each uevent, forks when it polls, and
runs the script step by step: `Add` decides the name, then `Mkdir` and `Mount`;
`FindMount`, `Umount`, `Rmdir`.  Scripts of several processes interleave.  `QuietIsMounted`
exempts two kinds of confusion, each with its reason in the code: two media with one
label share a directory (minimount:55), and a poller keeps the label of the medium of
its uevent in its environment while another one asks anew (minimount-udev.c:225).  As in
section 5 the user's hand is slower than a poll.  `muddled` records the second kind when
udevd starts a poller; a process that only removes never asks for a name.

*Fetchers and rules*.  `WaysOfRules` lists the six ways in which the rules of the
repository fetch and copy.  Mishaps (a failed or killed fetch, copy, patch or build, and
two clones fetching at once, `race`) happen anywhere, the rule is run again, and
`InstalledAsAsked` says that what gets installed is right unless one of the mishaps that
`Harm` names for this way has happened: the table is the result.  It is exact in this
sense: leaving out an entry makes TLC find a wrong package.

*/init*.  The disks are tried in the order of /sys/block.  `CopyImage` may go wrong
without being noticed (init.initramfs:140, 149), `SwapOut` is the kernel writing to the
swap that /init put 128 MB into the video memory (137), and ENABLE_UNMOUNT is never set
back to yes.  A squashfs that is cut off is assumed not to be mountable (its tables are
at its end).  `big` stands for the size that matters on the machine: more than 128 MB
with video memory, more than half of the memory without.  Two disks are one that fails
and one that comes after it.

Proved in `ProgramsProofs`:

* `SecretsKeptSafe`, inductive as it stands; `DialableSafe`, from `DialInv`: while
  apply_ppp runs the peer on disk is empty, and each secret it has passed is the one the
  peer will ask for.  For any logins and any relation `Begins` that is reflexive and holds
  of the empty login.
* `WatchSafe`: the cursor after the events that are waiting is the one for what starts.
* `SentSafe`, `AnswersSafe` of sms-pdu (`SentAsAsked`, `AnswersTrusted`), for any numbers
  and any texts up to 496 octets.  `NumberArrives`: eleven digits are exchanged in pairs
  and back again, which is arithmetic on an odd number of them.  `PlusGoesAstray` is the
  other half of it: a number with a `+`, as in the usage text, is never the one that is
  dialled, however many digits it has.  `PromptOK`: for each prompt of the modem there is
  one token at most, the prompt on its way to the program or the PDU on its way back.  So
  no PDU is taken for a command, however many runs were killed or answers cut.  `TurnOK`:
  while none was, program and modem take turns.
* `FirstWholeSafe`, `DiskNeededSafe`, for any number of disks: from
  `InitramfsInv`, which says what is known of the disk that is tried and of its copy
  (`TriedAt`), of those before it (`PassedOver`), and why unmounting is disabled
  (`DisabledAt`).
* `InstalledAsAskedSafe`, for any clones, ways and mishaps.  `CheckoutInv` relates the
  checkout, the tree and the place in the rule: without a mishap of `Harm` the sources
  are whole or will be fetched again (`SourceAt`), and a tree is either absent, or what
  the rule will start afresh from, or right as far as it has got (`TreeAt`).

Proved in `NetConfigProofs`, for any interfaces, values and files, any number of edits,
applies and kills:

* `NetTableSafe`, `ReadsRowSafe`, of files whose stanzas are apart (`FilesApart`: no
  interface named twice, an empty line between two stanzas), which `net_shipped` shows to
  be needed; and `ApplyIdleSafe`, of files that besides set nothing which the window
  would not write (`FilesFit`: no address under dhcp, no radio of a wired interface).
  `MCPrograms` assumes both of its four files, and TLC evaluates that assumption.
* What a loop computes is not proved by induction over the file, which is out of reach,
  but about its prefixes: the first line after which the loop's state is not what the
  lines so far say would be one that a single round gets wrong.  `CopyOK` is what the
  copying loop keeps up: the copy is apart, has every line of the others and none of the
  selected interface, and while a stanza is open in it the loop knows that an empty line
  is due (`text`).  `ReadOK` is that of the reading loop.  Each is proved round by round
  (`CopyRound`, `ReadRound`), from how one more line changes heads, bodies and open
  stanzas (`HeadsMore`, `BodyMore`, `OpenMore`).
* The invariant `NetInv` is that the file is `Proper`, that is apart, of well-formed
  lines, and that the copy which waits to be renamed is the rewriting of *this* file with
  what the window still shows (`Pending`); so a kill between writing and renaming leaves
  the table as it was, and the rename is one `Apply` of it.  `IdleInv` adds that
  what apply_iface would take from an untouched window is what the file says.

Proved in `MinimountProofs`, for any sticks, drives and labels and any number of
processes and moves: `MountedSafe` (`QuietIsMounted`).  The property speaks of a quiet
moment only; the invariant `MountInv` says why everything will be right by then:

* `Givens`, of all devices at once: what is mounted has a directory, and every mount and
  every directory bears a name that was given to its device.
* `Kinds` and `Plugged`, of each device: what a process may be at its place, that all
  processes of a device but one are pollers that have forked (udevd waits for one
  before it starts the next), and that a drive which is there is polled or will be.
* `InOrder`, of each device that is not `Confused`: it is mounted once at most
  (`MountedOnce`); while a medium is in, its processes have one name for it, and the
  mount bears that name (`OneEnv`, `OneName`); an empty directory has a process that
  mounts it or removes it (`Tended`); a mount whose medium has gone has a process or a
  uevent that will find it (`Found`); and a medium that is not mounted one that will
  mount it (`Awaited`).

The argument is by device.  What one device does leaves another in order, unless the two
are confused after it (`Spared`, `Elsewhere`); each move of the user, udevd and each
action of a process keep their own device in order (`PlugInKeeps` to `UmountKeeps`).
The steps that touch no mount (`StepOrder`, `MediaStay`) are treated as one, so that only
`Mount` and `Umount` need an argument of their own.  `MaxMoves` is not used: the bound
on the user is TLC's.

## 10. What is not proved or not modelled

Liveness is beyond the prover and checked by TLC only (`BuildCompletes`,
`AutobootFires`, `Converges`, `UdevGoesOn`, `Returns`, `Initialized`, `Ends`).
The other way round, the type invariants of the engine, dancesplash, sixaxisd and the
readers are proved and not run.

Not modelled, by component:

* *Engine*: extract_host (a copy of extract); the sysroot installers (sed over .la, .pc
  and *-config files, which keep nothing); rules, sets and platforms, which are
  instances of the template.
* *Fetchers*: git pull, which no rule of the repository reaches; a later revision of an
  svn repository, which a tree that is there never sees.
* *ps3boot*: how the readers put a command line together, drawing, video modes, the
  settings file.
* *dancesplash*: what is drawn, and SUCCESS, which is appended to an uninitialised buffer.
* *sixaxisd*: the contents of reports, the events repeated with -mouse, exitfunc.
* *netconfig*: hostname and resolv.conf, rewritten from three entries; options the window
  does not know, which Apply drops; the copy in `minidesk-utils`, which writes wpa lines
  besides.
* *pppconfig*: device, speed and telephone of the peer.  *logout*: one D-Bus call.
* *sms-pdu*: the conversion to UCS-2 but for its length, what is printed.
* *minimount*: labels with blanks, unknown file systems, what tells a removable medium.
* *Scripts of the root file system*: init.d, udev rules, mount.sh (minimount's script
  without its polls): sequences of external programs.
* *Board packages* (`pdaXrom-ng-bsp`): kernel modules, boot loaders and tools of the
  vendors, checked in as they came.  They are more than nine tenths of the lines of C of the
  repository and no part of the program that it is about, so the share of all lines
  that `map` covers is small and stays so.

Two behaviours are in the models without a property because nothing in the repository
says what they should be: a default with timeout 0, and a countdown that goes on while
the user edits.
