----------------------------- MODULE Initramfs -----------------------------
(***************************************************************************)
(* /init of the initramfs: it tries one disk after another until the root  *)
(* image of one can be mounted, from a copy in memory (on the PS3: in the  *)
(* video memory, behind which it puts the swap) or, if it is too big for   *)
(* that, from the disk itself, and switches to it.  What one disk leaves   *)
(* behind is there when the next one is tried.                             *)
(***************************************************************************)
EXTENDS Integers

CONSTANTS
  NumDisks,  \* disks and partitions, in the order of /sys/block
  NoImage    \* nothing mounted or copied

ASSUME InitramfsAssumption ==
  NumDisks \in Nat /\ NoImage \notin [of : 1 .. NumDisks, whole : BOOLEAN]

Numbered == 1 .. NumDisks

\* candidate: it can be mounted and has an image and the uuid of this initramfs.
\* whole: the image is not cut off.  big: it does not fit into memory twice; into
\* video memory: it reaches beyond 128 MB, where the swap begins.
Disk == [candidate : BOOLEAN, whole : BOOLEAN, big : BOOLEAN,
         writable : {"none", "good", "bad"}]

VARIABLES
  bootDisks,   \* the disks
  machine,     \* [aufs, vram]: whether there is /aufs2 and /dev/ps3vram
  initPc,      \* "scan", "copy", "mount", "boot", "unmount", "init", "shell"
  disk,        \* the one that is tried
  enableUnmount,
  bootMnt,     \* where the disk is: "none", "/mnt", "bootdisk" (below the new root)
  copied,      \* [of, whole]: what is in memory or video memory, or NoImage
  swapping,    \* the swap behind it is in use
  root,        \* "none", "disk", "copy": what /rootfs is mounted from
  dynamic,     \* "none", "tmpfs", "disk": what is mounted on /dynamic
  disturbed    \* (history) the disks whose image could not be copied

initramfsVars == <<bootDisks, machine, initPc, disk, enableUnmount, bootMnt, copied,
                   swapping, root, dynamic, disturbed>>

InitramfsInit ==
  /\ bootDisks \in [Numbered -> Disk]
  /\ machine \in [aufs : BOOLEAN, vram : BOOLEAN]
  /\ initPc = "scan" /\ disk = 1 /\ enableUnmount = TRUE
  /\ bootMnt = "none" /\ copied = NoImage /\ swapping = FALSE
  /\ root = "none" /\ dynamic = "none" /\ disturbed = {}

Tried == bootDisks[disk]

-----------------------------------------------------------------------------

\* The loops over /sys/block, and check_rootfs up to cmp.
Detect ==
  /\ initPc = "scan" /\ disk <= NumDisks
  /\ IF Tried.candidate
     THEN initPc' = "copy" /\ bootMnt' = "/mnt" /\ UNCHANGED disk
     ELSE disk' = disk + 1 /\ UNCHANGED <<initPc, bootMnt>>
  /\ UNCHANGED <<bootDisks, machine, enableUnmount, copied, swapping, root, dynamic,
                 disturbed>>

NoRootfs ==
  /\ initPc = "scan" /\ disk > NumDisks
  /\ initPc' = "shell"
  /\ UNCHANGED <<bootDisks, machine, disk, enableUnmount, bootMnt, copied, swapping,
                 root, dynamic, disturbed>>

\* Mutant: what has been copied is not copied again.
CopyOnce ==
  /\ initPc = "copy" /\ (machine.vram \/ ~ Tried.big)
  /\ initPc' = "mount"
  /\ swapping' \in IF machine.vram THEN {swapping, TRUE} ELSE {swapping}
  /\ IF copied # NoImage THEN UNCHANGED <<copied, disturbed>>
     ELSE \/ copied' = [of |-> disk, whole |-> Tried.whole] /\ UNCHANGED disturbed
          \/ /\ copied' = [of |-> disk, whole |-> FALSE]
             /\ disturbed' = disturbed \cup {disk}
  /\ UNCHANGED <<bootDisks, machine, disk, enableUnmount, bootMnt, root, dynamic>>

\* dd to the video memory, or cp.  Whether it succeeds decides what is printed.
CopyImage ==
  /\ initPc = "copy" /\ (machine.vram \/ ~ Tried.big)
  /\ initPc' = "mount"
  /\ swapping' \in IF machine.vram THEN {swapping, TRUE} ELSE {swapping}
  /\ \/ copied' = [of |-> disk, whole |-> Tried.whole] /\ UNCHANGED disturbed
     \/ copied' = [of |-> disk, whole |-> FALSE] /\ disturbed' = disturbed \cup {disk}
  /\ UNCHANGED <<bootDisks, machine, disk, enableUnmount, bootMnt, root, dynamic>>

\* A squashfs has its tables at the end: one that is cut off is not mounted.
MountImage(whole, from) ==
  /\ initPc' = IF whole THEN "boot" ELSE "unmount"
  /\ root' = IF whole THEN from ELSE "none"
  /\ UNCHANGED <<bootDisks, machine, disk, bootMnt, copied, swapping, dynamic, disturbed>>

MountLocally ==
  /\ initPc = "copy" /\ ~ machine.vram /\ Tried.big
  /\ enableUnmount' = FALSE
  /\ MountImage(Tried.whole, "disk")

MountCopy ==
  /\ initPc = "mount"
  /\ MountImage(copied.whole, "copy")
  /\ UNCHANGED enableUnmount

UnmountDisk ==
  /\ initPc = "unmount"
  /\ initPc' = "scan" /\ disk' = disk + 1 /\ bootMnt' = "none"
  /\ UNCHANGED <<bootDisks, machine, enableUnmount, copied, swapping, root, dynamic,
                 disturbed>>

\* What boot_aufs2 mounts on /dynamic, if there is a union at all.
Writable ==
  IF ~ machine.aufs \/ Tried.writable = "bad" THEN "none"
  ELSE IF Tried.writable = "good" THEN "disk" ELSE "tmpfs"

\* Mutant: the disk is in use only if its image is.
BootForgetsWritable ==
  /\ initPc = "boot"
  /\ initPc' = "init"
  /\ dynamic' = Writable
  /\ bootMnt' = IF machine.aufs /\ ~ enableUnmount THEN "bootdisk"
                ELSE IF enableUnmount /\ "disk" \notin {root, Writable} THEN "none"
                ELSE "/mnt"
  /\ UNCHANGED <<bootDisks, machine, disk, enableUnmount, copied, swapping, root, disturbed>>

\* boot_rootfs with boot_aufs2, up to switch_root.  What is in use cannot be
\* unmounted.
BootRootfs ==
  /\ initPc = "boot"
  /\ initPc' = "init"
  /\ dynamic' = Writable
  /\ enableUnmount' = (enableUnmount /\ ~ (machine.aufs /\ Tried.writable # "none"))
  /\ bootMnt' = IF machine.aufs /\ ~ enableUnmount' THEN "bootdisk"
                ELSE IF enableUnmount' /\ "disk" \notin {root, Writable} THEN "none"
                ELSE "/mnt"
  /\ UNCHANGED <<bootDisks, machine, disk, copied, swapping, root, disturbed>>

\* The kernel swaps: the swap begins 128 MB into the video memory.
SwapOut ==
  /\ swapping /\ copied # NoImage /\ copied.whole /\ bootDisks[copied.of].big
  /\ copied' = [copied EXCEPT !.whole = FALSE]
  /\ UNCHANGED <<bootDisks, machine, initPc, disk, enableUnmount, bootMnt, swapping,
                 root, dynamic, disturbed>>

InitramfsNext ==
  \/ Detect \/ CopyImage \/ MountLocally \/ MountCopy \/ UnmountDisk \/ BootRootfs
  \/ NoRootfs \/ SwapOut

InitramfsSpec == InitramfsInit /\ [][InitramfsNext]_initramfsVars

-----------------------------------------------------------------------------
(* Properties                                                              *)

\* The system runs from a whole image of a disk that carries the uuid of this
\* kernel, whatever was tried and failed before; on the PS3 unless the image
\* reaches into the swap that /init put behind it.
RootIsWhole ==
  initPc = "init" /\ ~ (machine.vram /\ Tried.big) =>
    /\ Tried.candidate /\ Tried.whole
    /\ root = "copy" => copied = [of |-> disk, whole |-> TRUE]

\* The first disk that can be booted from is: one is passed over, and a shell
\* started at the end, only if its image is cut off or could not be copied, or was
\* swapped over.
FirstIsBooted ==
  \A d \in Numbered :
    /\ initPc = "shell" \/ (initPc = "init" /\ d < disk)
    /\ bootDisks[d].candidate /\ bootDisks[d].whole
    => d \in disturbed \/ (machine.vram /\ bootDisks[d].big)

\* What is booted is the first disk that can be.
FirstWholeIsRoot == RootIsWhole /\ FirstIsBooted

\* An image of an earlier disk was to be mounted locally, and was not.
Tainted ==
  ~ machine.vram /\ \E d \in Numbered : d < disk /\ bootDisks[d].candidate /\ bootDisks[d].big

\* What disables unmounting though nobody needs the disk.
Stale == Tainted \/ (machine.aufs /\ Tried.writable = "bad")

\* The new system finds the disk it lives on below /media/bootdisk, if it is a
\* union; and a disk it does not need any more can be pulled out.
DiskAsNeeded ==
  initPc = "init" =>
    IF "disk" \in {root, dynamic}
    THEN bootMnt = IF machine.aufs THEN "bootdisk" ELSE "/mnt"
    ELSE bootMnt = "none" \/ Stale
=============================================================================
