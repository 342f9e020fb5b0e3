--------------------------- MODULE ProgramsProofs ---------------------------
(***************************************************************************)
(* What pppconfig keeps up, for any logins, whatever begins with what, any *)
(* passwords and any number of applies and kills; what sn-monitor shows,   *)
(* for any sequences and events; what /init boots, for any disks; what     *)
(* sms-pdu sends, for any numbers, texts and runs; what the source         *)
(* fetchers install, for any number of working directories, ways of        *)
(* copying among those of the rules, and attempts; and that dancesplash    *)
(* has one user of a buffer at a time and no script overwrites a message   *)
(* of its own, for any number of scripts, messages and starts.             *)
(***************************************************************************)
EXTENDS PppSecrets, Cursor, Initramfs, Phone, Checkout, Splash, SequenceTheorems, TLAPS

-----------------------------------------------------------------------------
(* pppconfig                                                               *)

\* What is dialled is a login and a password, or none.
DialType == dial \in [login : Login, passwd : Passwords \cup {NoPassword}]

\* Why Dialable holds: while apply_ppp runs, its peer is empty; and each secret
\* it has passed, if there is one to write, is what the peer will ask for.
Has2(file) == Has(file, dial.login, dial.passwd)

Ready ==
  /\ pppPc # "form" => peers = NoPeers
  /\ pppPc \in {"pap", "chap"} => dial.passwd \in Passwords
  /\ pppPc = "chap" /\ ~ refused => Has2(pap)
  /\ pppPc = "close" /\ ~ refused /\ dial.passwd # NoPassword => Has2(pap) /\ Has2(chap)

DialInv == DialType /\ Ready /\ Dialable

\* A rewritten file names the login with the new password, and with no other.
LEMMA Rewritten ==
  ASSUME DialType, NEW file PROVE Has2(Kept(file, dial.login) \cup {dial})
<1>1. dial = [login |-> dial.login, passwd |-> dial.passwd] /\ dial.login \in Login
  BY DEF DialType
<1>2. <<dial.login, dial.login>> \in Begins
  BY <1>1, PppAssumption
<1>3. ASSUME NEW s \in Kept(file, dial.login) \cup {dial}, s.login = dial.login
      PROVE  s.passwd = dial.passwd
  BY <1>2, <1>3 DEF Kept
<1> QED BY <1>1, <1>3 DEF Has, Has2

\* SecretsKept: a line goes only when a login is applied that it begins with, and
\* that login is noted in the same step (update_secret).
THEOREM SecretsKeptSafe == PppSpec => []SecretsKept
<1>1. PppInit => SecretsKept
  BY DEF PppInit, SecretsKept
<1>2. SecretsKept /\ [PppNext]_pppVars => SecretsKept'
  <2> SUFFICES ASSUME SecretsKept, [PppNext]_pppVars PROVE SecretsKept'
    OBVIOUS
  <2>1. ASSUME NEW l, NEW w, ApplyPpp(l, w) PROVE SecretsKept'
    BY <2>1 DEF ApplyPpp, SecretsKept
  <2>2. CASE UpdatePap
    BY <2>2 DEF UpdatePap, SecretsKept, Kept
  <2>3. CASE UpdateChap
    BY <2>3 DEF UpdateChap, SecretsKept, Kept
  <2>4. CASE ClosePeers
    BY <2>4 DEF ClosePeers, SecretsKept
  <2>5. CASE KillPpp
    BY <2>5 DEF KillPpp, SecretsKept
  <2>6. CASE UNCHANGED pppVars
    BY <2>6 DEF pppVars, SecretsKept
  <2> QED BY <2>1, <2>2, <2>3, <2>4, <2>5, <2>6 DEF PppNext
<1> QED BY <1>1, <1>2, PTL DEF PppSpec

\* Dialable: wherever pppconfig was killed, the peer that pppd reads has its
\* password in both files (apply_ppp: the peer's buffer is written last).
THEOREM DialableSafe == PppSpec => []Dialable
<1>1. PppInit => DialInv
  BY DEF PppInit, DialInv, DialType, Ready, Dialable, NoPeers, Login
<1>2. DialInv /\ [PppNext]_pppVars => DialInv'
  <2> SUFFICES ASSUME DialInv, [PppNext]_pppVars PROVE DialInv'
    OBVIOUS
  <2> USE DEF DialInv
  <2>1. ASSUME NEW l \in Login, NEW w \in Passwords \cup {NoPassword}, ApplyPpp(l, w)
        PROVE  DialInv'
    <3>1. DialType' BY <2>1 DEF ApplyPpp, DialType
    <3>2. Ready' BY <2>1 DEF ApplyPpp, Ready
    <3>3. Dialable' BY <2>1 DEF ApplyPpp, Dialable, NoPeers
    <3> QED BY <3>1, <3>2, <3>3
  <2>2. CASE UpdatePap
    <3>1. DialType' BY <2>2 DEF UpdatePap, DialType
    <3>2. peers' = NoPeers /\ Dialable'
      BY <2>2 DEF UpdatePap, Ready, Dialable, NoPeers
    <3>3. ~ refused' => Has2(pap)'
      BY <2>2, Rewritten DEF UpdatePap, Has, Has2
    <3>4. Ready' BY <2>2, <3>2, <3>3 DEF UpdatePap, Ready
    <3> QED BY <3>1, <3>2, <3>4
  <2>3. CASE UpdateChap
    <3>1. DialType' BY <2>3 DEF UpdateChap, DialType
    <3>2. peers' = NoPeers /\ Dialable'
      BY <2>3 DEF UpdateChap, Ready, Dialable, NoPeers
    <3>3. ~ refused' => Has2(chap)'
      BY <2>3, Rewritten DEF UpdateChap, Has, Has2
    <3>4. ~ refused' => Has2(pap)'
      BY <2>3 DEF UpdateChap, Ready, Has, Has2
    <3>5. Ready' BY <2>3, <3>2, <3>3, <3>4 DEF UpdateChap, Ready
    <3> QED BY <3>1, <3>2, <3>5
  <2>4. CASE ClosePeers
    <3>1. DialType' BY <2>4 DEF ClosePeers, DialType
    <3>2. Ready' BY <2>4 DEF ClosePeers, Ready
    <3>3. Dialable'
      BY <2>4 DEF ClosePeers, Ready, Dialable, Has, Has2
    <3> QED BY <3>1, <3>2, <3>3
  <2>5. CASE KillPpp
    BY <2>5 DEF KillPpp, DialType, Ready, Dialable, NoPeers, Has
  <2>6. CASE UNCHANGED pppVars
    BY <2>6 DEF pppVars, DialType, Ready, Dialable, Has, Has2
  <2> QED BY <2>1, <2>2, <2>3, <2>4, <2>5, <2>6 DEF PppNext
<1>3. DialInv => Dialable
  BY DEF DialInv
<1> QED BY <1>1, <1>2, <1>3, PTL DEF PppSpec

-----------------------------------------------------------------------------
(* sn-monitor                                                              *)

Announced == {"initiated", "changed", "completed", "canceled"}

\* The cursor there will be when all events are handled.
Eventually ==
  IF snEvents = <<>> THEN cursor ELSE CursorOf(snEvents[Len(snEvents)])

\* While sequences come one at a time, the last event that is under way tells
\* whether one has begun.
CursorInv ==
  /\ snEvents \in Seq(Announced)
  /\ overlapped \in BOOLEAN
  /\ ~ overlapped => \A x, y \in starting : x = y
  /\ ~ overlapped => (Eventually = "busy" <=> starting # {})

LEMMA Appended ==
  ASSUME NEW type \in Announced, CursorInv, SnEvent(type)
  PROVE  snEvents' \in Seq(Announced) /\ Eventually' = CursorOf(type)
<1>1. snEvents \in Seq(Announced) /\ snEvents' = Append(snEvents, type)
  BY DEF CursorInv, SnEvent
<1>2. /\ snEvents' \in Seq(Announced) /\ snEvents' # <<>>
      /\ snEvents'[Len(snEvents')] = type
  BY <1>1
<1> QED BY <1>2 DEF Eventually, CursorOf

LEMMA LastOfTail ==
  ASSUME NEW S, NEW q \in Seq(S), q # <<>>, Len(q) # 1
  PROVE  /\ Tail(q) \in Seq(S) /\ Tail(q) # <<>>
         /\ Tail(q)[Len(Tail(q))] = q[Len(q)]
<1>1. Len(q) \in Nat \ {0}
  BY EmptySeq
<1>2. /\ Tail(q) \in Seq(S)
      /\ Len(Tail(q)) = Len(q) - 1
      /\ \A i \in 1 .. Len(Tail(q)) : Tail(q)[i] = q[i + 1]
  BY HeadTailProperties
<1>3. Len(Tail(q)) >= 1 /\ Len(Tail(q)) \in Nat
  BY <1>1, <1>2
<1>4. Tail(q) # <<>>
  <2>1. Len(<<>>) = 0
    BY EmptySeq
  <2>2. Tail(q) = <<>> => Len(Tail(q)) = 0
    BY <2>1, Zenon
  <2> QED BY <1>3, <2>2
<1>5. Tail(q)[Len(Tail(q))] = q[Len(q)]
  BY <1>1, <1>2, <1>3
<1> QED BY <1>2, <1>4, <1>5

\* WatchWhileStarting: with all events handled the cursor is a watch exactly if
\* something starts, unless two sequences overlapped (screen_set_root_cursor looks
\* at the last event only).
THEOREM WatchSafe == CursorSpec => []WatchWhileStarting
<1>1. CursorInit => CursorInv
  <2> SUFFICES ASSUME CursorInit PROVE CursorInv
    OBVIOUS
  <2>1. snEvents \in Seq(Announced)
    BY DEF CursorInit
  <2>2. Eventually = "normal" /\ starting = {} /\ overlapped = FALSE
    BY DEF CursorInit, Eventually
  <2> QED BY <2>1, <2>2 DEF CursorInv
<1>2. CursorInv /\ [CursorNext]_cursorVars => CursorInv'
  <2> SUFFICES ASSUME CursorInv, [CursorNext]_cursorVars PROVE CursorInv'
    OBVIOUS
  <2>1. ASSUME NEW s, Initiate(s) PROVE CursorInv'
    <3>1. SnEvent("initiated") BY <2>1 DEF Initiate
    <3>2. snEvents' \in Seq(Announced) /\ Eventually' = "busy"
      BY <3>1, Appended DEF Announced, CursorOf
    <3>3. starting' = starting \cup {s} /\ overlapped' = (overlapped \/ starting # {})
      BY <2>1 DEF Initiate
    <3> QED BY <3>2, <3>3 DEF CursorInv
  <2>2. ASSUME NEW s, Change(s) PROVE CursorInv'
    <3>1. SnEvent("changed") BY <2>2 DEF Change
    <3>2. snEvents' \in Seq(Announced) /\ Eventually' = "busy"
      BY <3>1, Appended DEF Announced, CursorOf
    <3>3. s \in starting /\ starting' = starting /\ overlapped' = overlapped
      BY <2>2 DEF Change
    <3> QED BY <3>2, <3>3 DEF CursorInv
  <2>3. ASSUME NEW s, EndSequence(s) PROVE CursorInv'
    <3>1. SnEvent("completed") \/ SnEvent("canceled") BY <2>3 DEF EndSequence
    <3>2. snEvents' \in Seq(Announced) /\ Eventually' = "normal"
      BY <3>1, Appended DEF Announced, CursorOf
    <3>3. /\ s \in starting /\ starting' = starting \ {s}
          /\ overlapped' = (overlapped /\ starting' # {})
      BY <2>3 DEF EndSequence
    <3>4. ~ overlapped' => starting' = {}
      BY <3>3 DEF CursorInv
    <3> QED BY <3>2, <3>3, <3>4 DEF CursorInv
  <2>4. CASE MonitorEvent
    <3>1. /\ snEvents # <<>> /\ snEvents \in Seq(Announced)
          /\ snEvents' = Tail(snEvents) /\ cursor' = CursorOf(Head(snEvents))
      BY <2>4 DEF MonitorEvent, CursorInv
    <3>2. snEvents' \in Seq(Announced) /\ Eventually' = Eventually
      <4>1. CASE Len(snEvents) = 1
        <5>1. snEvents' = <<>> /\ Head(snEvents) = snEvents[Len(snEvents)]
          BY <3>1, <4>1
        <5> QED BY <3>1, <5>1 DEF Eventually
      <4>2. CASE Len(snEvents) # 1
        <5>1. /\ snEvents' \in Seq(Announced) /\ snEvents' # <<>>
              /\ snEvents'[Len(snEvents')] = snEvents[Len(snEvents)]
          BY <3>1, <4>2, LastOfTail
        <5> QED BY <3>1, <5>1 DEF Eventually, CursorOf
      <4> QED BY <4>1, <4>2
    <3>3. UNCHANGED <<starting, overlapped>>
      BY <2>4 DEF MonitorEvent
    <3> QED BY <3>2, <3>3 DEF CursorInv
  <2>5. CASE UNCHANGED cursorVars
    BY <2>5 DEF cursorVars, CursorInv, Eventually
  <2> QED BY <2>1, <2>2, <2>3, <2>4, <2>5 DEF CursorNext
<1>3. CursorInv => WatchWhileStarting
  BY DEF CursorInv, Eventually, WatchWhileStarting
<1> QED BY <1>1, <1>2, <1>3, PTL DEF CursorSpec

-----------------------------------------------------------------------------
(* /init                                                                   *)

\* Why a disk may be passed over.
Excused(d) == d \in disturbed \/ (machine.vram /\ bootDisks[d].big)

InitramfsTypes ==
  /\ bootDisks \in [Numbered -> Disk] /\ machine \in [aufs : BOOLEAN, vram : BOOLEAN]
  /\ disk \in Nat \ {0} /\ enableUnmount \in BOOLEAN /\ swapping \in BOOLEAN
  /\ copied \in [of : Numbered, whole : BOOLEAN] \cup {NoImage}
  /\ swapping => machine.vram

\* What is known of the disk that is tried, of its copy and of its mount.
TriedAt ==
  /\ initPc \in {"scan", "shell"} => bootMnt = "none"
  /\ initPc \notin {"scan", "shell"} => disk \in Numbered /\ Tried.candidate
  /\ initPc \in {"copy", "mount", "boot", "unmount"} => bootMnt = "/mnt"
  /\ initPc = "mount" =>
       /\ copied # NoImage /\ copied.of = disk
       /\ copied.whole => Tried.whole
       /\ Tried.whole => copied.whole \/ Excused(disk)
  /\ initPc = "unmount" /\ Tried.whole => Excused(disk)
  /\ initPc \in {"boot", "init"} => Tried.whole
  /\ initPc \in {"boot", "init"} /\ root # "disk" =>
       /\ root = "copy" /\ copied # NoImage /\ copied.of = disk
       /\ copied.whole \/ (machine.vram /\ Tried.big)

\* What is known of the disks before it.
PassedOver ==
  /\ \A d \in Numbered : d < disk /\ bootDisks[d].candidate /\ bootDisks[d].whole => Excused(d)
  /\ initPc = "shell" => disk > NumDisks

\* Why unmounting is disabled.
DisabledAt ==
  /\ initPc = "boot" /\ root = "disk" => ~ enableUnmount
  /\ ~ enableUnmount /\ initPc # "init" =>
       \/ Tainted
       \/ initPc = "unmount" /\ ~ machine.vram /\ Tried.big
       \/ initPc = "boot" /\ root = "disk"

InitramfsInv == InitramfsTypes /\ TriedAt /\ PassedOver /\ DisabledAt /\ DiskAsNeeded

\* What the three theorems rest on: what check_rootfs knows of the disk it tries and
\* leaves of the disks before it.
THEOREM InitramfsInvHolds == InitramfsSpec => []InitramfsInv
<1> USE InitramfsAssumption DEF Numbered, Tried
<1>1. InitramfsInit => InitramfsInv
  <2> SUFFICES ASSUME InitramfsInit PROVE InitramfsInv
    OBVIOUS
  <2>1. InitramfsTypes
    <3>1. enableUnmount \in BOOLEAN /\ swapping \in BOOLEAN /\ (swapping => machine.vram)
      BY Zenon DEF InitramfsInit
    <3> QED BY <3>1 DEF InitramfsInit, InitramfsTypes
  <2>2. TriedAt
    BY DEF InitramfsInit, TriedAt
  <2>3. PassedOver /\ DisabledAt /\ DiskAsNeeded
    BY DEF InitramfsInit, PassedOver, DisabledAt, DiskAsNeeded
  <2> QED BY <2>1, <2>2, <2>3 DEF InitramfsInv
<1>2. InitramfsInv /\ [InitramfsNext]_initramfsVars => InitramfsInv'
  <2> SUFFICES ASSUME InitramfsInv, [InitramfsNext]_initramfsVars PROVE InitramfsInv'
    OBVIOUS
  <2>1. InitramfsTypes /\ TriedAt /\ PassedOver /\ DisabledAt /\ DiskAsNeeded
    BY DEF InitramfsInv
  <2> USE DEF InitramfsInv
  <2>2. CASE Detect
    BY <2>1, <2>2 DEF Detect, InitramfsTypes, TriedAt, PassedOver, DisabledAt, DiskAsNeeded,
                      Excused, Tainted, Stale
  <2>3. CASE NoRootfs
    BY <2>1, <2>3 DEF NoRootfs, InitramfsTypes, TriedAt, PassedOver, DisabledAt,
                      DiskAsNeeded, Excused, Tainted, Stale
  <2>4. CASE CopyImage
    <3>1. swapping' \in BOOLEAN /\ (swapping' => machine'.vram)
      <4>1. swapping \in BOOLEAN /\ (swapping => machine.vram) /\ machine' = machine
        BY <2>1, <2>4 DEF CopyImage, InitramfsTypes
      <4>2. CASE machine.vram
        BY <4>1, <4>2, <2>4, Zenon DEF CopyImage
      <4>3. CASE ~ machine.vram
        BY <4>1, <4>3, <2>4, Zenon DEF CopyImage
      <4> QED BY <4>2, <4>3
    <3>2. disk \in Numbered
      BY <2>1, <2>4 DEF CopyImage, TriedAt
    <3>3. /\ copied' \in [of : Numbered, whole : BOOLEAN] /\ copied'.of = disk
          /\ copied'.whole => Tried.whole
          /\ Tried.whole => copied'.whole \/ disk \in disturbed'
      <4>1. Tried.whole \in BOOLEAN
        BY <2>1, <3>2 DEF InitramfsTypes, Disk
      <4>2. CASE copied' = [of |-> disk, whole |-> Tried.whole]
        BY <3>2, <4>1, <4>2
      <4>3. CASE copied' = [of |-> disk, whole |-> FALSE] /\ disturbed' = disturbed \cup {disk}
        BY <3>2, <4>3
      <4> QED BY <2>4, <4>2, <4>3 DEF CopyImage
    <3>4. InitramfsTypes'
      <4>1. /\ bootDisks' \in [Numbered -> Disk] /\ disk' \in Nat \ {0}
            /\ machine' \in [aufs : BOOLEAN, vram : BOOLEAN] /\ enableUnmount' \in BOOLEAN
        BY <2>1, <2>4 DEF CopyImage, InitramfsTypes
      <4> QED BY <4>1, <3>1, <3>3 DEF InitramfsTypes
    <3>5. TriedAt'
      <4>1. copied' # NoImage
        BY <3>3, InitramfsAssumption
      <4>2. bootMnt = "/mnt" /\ Tried.candidate /\ initPc' = "mount"
        BY <2>1, <2>4 DEF CopyImage, TriedAt
      <4>3. disk' = disk /\ bootDisks' = bootDisks /\ bootMnt' = bootMnt
        BY <2>4 DEF CopyImage
      <4> QED BY <4>1, <4>2, <4>3, <3>2, <3>3 DEF TriedAt, Excused
    <3>6. PassedOver'
      BY <2>1, <2>4 DEF CopyImage, InitramfsTypes, TriedAt, PassedOver, Excused
    <3>7. DisabledAt'
      BY <2>1, <2>4 DEF CopyImage, InitramfsTypes, TriedAt, DisabledAt, Tainted
    <3>8. DiskAsNeeded'
      BY <2>1, <2>4 DEF CopyImage, InitramfsTypes, TriedAt, DisabledAt, DiskAsNeeded, Tainted, Stale
    <3> QED BY <3>4, <3>5, <3>6, <3>7, <3>8
  <2>5. CASE MountLocally
    BY <2>1, <2>5 DEF MountLocally, MountImage, InitramfsTypes, TriedAt, PassedOver, DisabledAt,
                      DiskAsNeeded, Excused, Tainted, Stale
  <2>6. CASE MountCopy
    BY <2>1, <2>6 DEF MountCopy, MountImage, InitramfsTypes, TriedAt, PassedOver, DisabledAt,
                      DiskAsNeeded, Excused, Tainted, Stale
  <2>7. CASE UnmountDisk
    BY <2>1, <2>7 DEF UnmountDisk, InitramfsTypes, TriedAt, PassedOver, DisabledAt,
                      DiskAsNeeded, Excused, Tainted, Stale
  <2>8. CASE BootRootfs
    <3>1. InitramfsTypes'
      BY <2>1, <2>8 DEF BootRootfs, Writable, InitramfsTypes, TriedAt
    <3>2. TriedAt'
      BY <2>1, <2>8 DEF BootRootfs, Writable, InitramfsTypes, TriedAt, PassedOver, Excused
    <3>3. PassedOver'
      BY <2>1, <2>8 DEF BootRootfs, Writable, InitramfsTypes, TriedAt, PassedOver, Excused
    <3>4. DisabledAt'
      BY <2>1, <2>8 DEF BootRootfs, Writable, InitramfsTypes, TriedAt, DisabledAt, Tainted
    <3>5. DiskAsNeeded'
      <4>1. Tried.writable \in {"none", "good", "bad"} /\ root \in {"disk", "copy"}
        BY <2>1, <2>8 DEF BootRootfs, InitramfsTypes, TriedAt, Disk
      <4>2. CASE ~ machine.aufs
        BY <2>1, <2>8, <4>1, <4>2
           DEF BootRootfs, Writable, DisabledAt, DiskAsNeeded, Tainted, Stale
      <4>3. CASE machine.aufs
        BY <2>1, <2>8, <4>1, <4>3
           DEF BootRootfs, Writable, DisabledAt, DiskAsNeeded, Tainted, Stale
      <4> QED BY <4>2, <4>3
    <3> QED BY <3>1, <3>2, <3>3, <3>4, <3>5
  <2>9. CASE SwapOut
    <3>1. /\ copied' # NoImage /\ copied'.of = copied.of /\ ~ copied'.whole
          /\ machine.vram /\ bootDisks[copied.of].big
      BY <2>1, <2>9 DEF SwapOut, InitramfsTypes
    <3>2. InitramfsTypes'
      BY <2>1, <2>9 DEF SwapOut, InitramfsTypes, TriedAt
    <3>3. TriedAt'
      BY <2>1, <2>9, <3>1 DEF SwapOut, TriedAt, Excused
    <3>4. PassedOver'
      BY <2>1, <2>9 DEF SwapOut, InitramfsTypes, TriedAt, PassedOver, Excused
    <3>5. DisabledAt'
      BY <2>1, <2>9 DEF SwapOut, InitramfsTypes, TriedAt, DisabledAt, Tainted
    <3>6. DiskAsNeeded'
      BY <2>1, <2>9 DEF SwapOut, InitramfsTypes, TriedAt, DisabledAt, DiskAsNeeded, Tainted, Stale
    <3> QED BY <3>2, <3>3, <3>4, <3>5, <3>6
  <2>10. CASE UNCHANGED initramfsVars
    BY <2>1, <2>10 DEF initramfsVars, InitramfsTypes, TriedAt, PassedOver, DisabledAt,
                       DiskAsNeeded, Excused, Tainted, Stale
  <2> QED
    BY <2>2, <2>3, <2>4, <2>5, <2>6, <2>7, <2>8, <2>9, <2>10 DEF InitramfsNext
<1> QED BY <1>1, <1>2, PTL DEF InitramfsSpec

\* FirstWholeIsRoot: the mount that follows a copy fails unless the copy is whole, and
\* it is always that of the disk that is tried (check_rootfs); a disk whose image is
\* whole is left (umount /mnt) only if its copy was not.
THEOREM FirstWholeSafe == InitramfsSpec => []FirstWholeIsRoot
<1>1. InitramfsInv => RootIsWhole
  BY DEF InitramfsInv, InitramfsTypes, TriedAt, RootIsWhole
<1>2. InitramfsInv => FirstIsBooted
  BY InitramfsAssumption
     DEF InitramfsInv, InitramfsTypes, PassedOver, FirstIsBooted, Excused, Numbered
<1>3. InitramfsInv => FirstWholeIsRoot
  BY <1>1, <1>2 DEF FirstWholeIsRoot
<1> QED BY <1>3, InitramfsInvHolds, PTL

\* DiskAsNeeded: boot_aufs2 and boot_rootfs keep the disk exactly if the root or its
\* writable layer is on it, unless unmounting was disabled before.
THEOREM DiskNeededSafe == InitramfsSpec => []DiskAsNeeded
<1>1. InitramfsInv => DiskAsNeeded
  BY DEF InitramfsInv
<1> QED BY <1>1, InitramfsInvHolds, PTL

-----------------------------------------------------------------------------
(* sms-pdu                                                                 *)

Asked   == {"cmgf", "cmgs", "pdu", "cscs", "cmgl", "cmgd"}
Answers == {"ok", "error", "prompt"}

\* What may be under way to the modem: a command, or the end of an answer.
Msgs ==
  {m \in [cmd : Asked \cup Answers, run : Nat, job : Jobs, pdu : {Pdu(j) : j \in Jobs}] :
     m.pdu = Pdu(m.job) /\ (m.cmd = "pdu" => m.job.cmd = "send")}

PhoneTypes ==
  /\ step \in 0 .. 3 /\ (step > 0 => job \in Jobs)
  /\ wire \in Seq(Msgs) /\ line \in Seq(Answers \cup {"part"})
  /\ runs \in Nat /\ cuts \in Nat

\* What makes the program send a PDU, or is one.
Token(m)    == m.cmd \in {"prompt", "pdu"}
NoToken(q)  == \A i \in 1 .. Len(q) : ~ Token(q[i])
OneToken(q) == \A i, j \in 1 .. Len(q) : Token(q[i]) /\ Token(q[j]) => i = j
NoPrompt(q) == \A i \in 1 .. Len(q) : q[i] # "prompt"

\* For each prompt of the modem there is one of them, at the most: the prompt on
\* its way to the program, or the PDU on its way back.
PromptOK ==
  /\ prompt = 0 => NoToken(wire) /\ NoPrompt(line)
  /\ OneToken(wire)
  /\ NoToken(wire) \/ NoPrompt(line)

\* Program and modem take turns while no run is killed and no answer is cut.
TurnOK ==
  cuts = 0 =>
    /\ Len(wire) + Len(line) <= 1
    /\ step = 0 => Len(wire) = 0 /\ Len(line) = 0
    /\ Len(wire) = 1 =>
         wire[1].cmd = Commands(job.cmd)[step] /\ wire[1].run = runs
    /\ Len(line) = 1 /\ line[1] = "ok" /\ Commands(job.cmd)[step] = "cmgd" =>
         runs \in deleted

PhoneInv == PhoneTypes /\ SentAsAsked /\ PromptOK /\ TurnOK /\ DeleteDeletes

LEMMA JobFacts ==
  ASSUME NEW j \in Jobs
  PROVE  /\ j.cmd \in {"send", "list", "delete"}
         /\ j.data \in 0 .. 496 /\ j.data \in {j.len, 0}
         /\ j.cmd = "send" => j.num \in Seq(Octet) /\ Len(j.num) > Digits
<1>0. \A num \in Numbers : num \in Seq(Octet) /\ Len(num) > Digits
  BY PhoneAssumption
<1>1. Lengths \subseteq 0 .. 496
  BY PhoneAssumption
<1>2. CASE \E c \in {"list", "delete"} :
             j = [cmd |-> c, num |-> CHOOSE n \in Numbers : TRUE, len |-> 0, data |-> 0]
  <2>1. j.cmd \in {"list", "delete"} /\ j.len = 0 /\ j.data = 0
    BY <1>2
  <2> QED
    BY <2>1
<1>3. CASE /\ j \in [cmd : {"send"}, num : Numbers, len : Lengths,
                     data : Lengths \cup {0}]
           /\ j.data \in {j.len, 0}
  <2>1. /\ j.cmd = "send" /\ j.num \in Numbers
        /\ j.len \in Lengths /\ j.data \in Lengths \cup {0}
    BY <1>3
  <2>2. j.data \in 0 .. 496
    <3>1. 0 \in 0 .. 496
      OBVIOUS
    <3> QED
      BY <1>1, <2>1, <3>1
  <2>3. j.num \in Seq(Octet) /\ Len(j.num) > Digits
    BY <1>0, <2>1
  <2> QED
    BY <1>3, <2>1, <2>2, <2>3
<1> QED
  BY <1>2, <1>3 DEF Jobs

LEMMA CommandFacts ==
  ASSUME NEW c \in {"send", "list", "delete"}, NEW s \in 1 .. 3
  PROVE  /\ Commands(c)[s] \in Asked
         /\ Commands(c)[s] = "pdu" <=> c = "send" /\ s = 3
         /\ Commands(c)[s] = "cmgs" <=> c = "send" /\ s = 2
         /\ Commands(c)[s] = "cmgd" <=> c = "delete" /\ s = 3
<1>1. s = 1 \/ s = 2 \/ s = 3
  OBVIOUS
<1>2. Commands("send") = <<"cmgf", "cmgs", "pdu">>
  BY DEF Commands
<1>3. Commands("list") = <<"cmgf", "cscs", "cmgl">>
  BY DEF Commands
<1>4. Commands("delete") = <<"cmgf", "cscs", "cmgd">>
  BY DEF Commands
<1> QED
  BY <1>1, <1>2, <1>3, <1>4 DEF Asked

\* The argument ends with its first terminator.
LEMMA EndIs ==
  ASSUME NEW num \in Seq(Octet), NEW e \in 1 .. Len(num), num[e] = Nul,
         \A i \in 1 .. e - 1 : num[i] # Nul
  PROVE  End(num) = e
<1> DEFINE Ends(k) == num[k] = Nul /\ \A i \in 1 .. k - 1 : num[i] # Nul
<1>1. Ends(e)
  OBVIOUS
<1>2. ASSUME NEW k \in 1 .. Len(num), Ends(k)
      PROVE  k = e
  <2>1. k \in Nat /\ e \in Nat /\ k >= 1 /\ e >= 1
    OBVIOUS
  <2>2. ~ (k < e)
    <3>1. k < e => k \in 1 .. e - 1
      BY <2>1
    <3> QED
      BY <1>2, <3>1
  <2>3. ~ (e < k)
    <3>1. e < k => e \in 1 .. k - 1
      BY <2>1
    <3> QED
      BY <1>2, <3>1
  <2> QED
    BY <2>1, <2>2, <2>3
<1>3. End(num) = CHOOSE k \in 1 .. Len(num) : Ends(k)
  BY DEF End
<1> HIDE DEF Ends
<1> QED
  BY <1>1, <1>2, <1>3

\* Digits leave each other alone in an octet.
LEMMA PackedDigits ==
  ASSUME NEW a \in 0 .. 15, NEW b \in 0 .. 9
  PROVE  Packed(a, b) % 16 = b /\ Packed(a, b) \div 16 = a
<1>1. b \div 16 = 0 /\ b % 16 = b /\ a % 16 = a
  OBVIOUS
<1>2. Or4(a, 0) = a
  <2>1. \A k \in {1, 2, 4, 8} : (0 \div k) % 2 = 0
    OBVIOUS
  <2>2. \A k \in {1, 2, 4, 8} : OrBit(a, 0, k) = IF (a \div k) % 2 = 1 THEN k ELSE 0
    BY <2>1 DEF OrBit
  <2>3. \/ a = 0 \/ a = 1 \/ a = 2 \/ a = 3 \/ a = 4 \/ a = 5 \/ a = 6 \/ a = 7
        \/ a = 8 \/ a = 9 \/ a = 10 \/ a = 11 \/ a = 12 \/ a = 13 \/ a = 14 \/ a = 15
    OBVIOUS
  <2> QED
    BY <2>2, <2>3 DEF Or4
<1>3. Packed(a, b) = 16 * a + b
  BY <1>1, <1>2 DEF Packed
<1>4. (16 * a + b) % 16 = b /\ (16 * a + b) \div 16 = a
  OBVIOUS
<1> QED
  BY <1>3, <1>4

\* The low half of an octet is that of its first character.
LEMMA PackedLow ==
  ASSUME NEW a \in Octet, NEW b \in Octet
  PROVE  Packed(a, b) % 16 = b % 16
<1>1. PICK x \in 0 .. 15 : x = b % 16
  BY DEF Octet
<1>2. PICK y \in Nat : y = Or4(a % 16, b \div 16)
  <2>1. \A k \in {1, 2, 4, 8} : OrBit(a % 16, b \div 16, k) \in {k, 0}
    BY DEF OrBit
  <2>2. Or4(a % 16, b \div 16) \in Nat
    BY <2>1 DEF Or4
  <2> QED
    BY <2>2
<1>3. (16 * y + x) % 16 = x
  OBVIOUS
<1> QED
  BY <1>1, <1>2, <1>3 DEF Packed

\* Eleven digits arrive: the modem reads what pdu_prepare_send_header has put two
\* to an octet, the last one beside a filler.
THEOREM NumberArrives ==
  ASSUME NEW num \in Seq(Octet), Len(num) > Digits, Eleven(num)
  PROVE  Dialled(Nibbles(num)) = Meant(num)
<1>1. \A i \in 1 .. 11 : num[i] \in 0 .. 9
  BY DEF Eleven, Digits
<1>0. \A i \in 1 .. 11 : num[i] \in Octet /\ num[i] # Nul /\ num[i] # Plus
  <2>1. \A d \in 0 .. 9 : d \in Octet /\ d # Nul /\ d # Plus
    BY DEF Octet, Nul, Plus
  <2> QED
    BY <1>1, <2>1
<1>2. Meant(num) = SubSeq(num, 1, 11)
  <2>1. End(num) = 12
    <3>1. 12 \in 1 .. Len(num) /\ num[12] = Nul
      BY DEF Eleven, Digits
    <3>2. \A i \in 1 .. 12 - 1 : num[i] # Nul
      <4>1. 12 - 1 = 11
        OBVIOUS
      <4> QED
        BY <1>0, <4>1
    <3> QED
      BY <3>1, <3>2, EndIs
  <2>2. num[1] # Plus
    BY <1>0
  <2>3. 12 - 1 = 11
    OBVIOUS
  <2> QED
    BY <2>1, <2>2, <2>3 DEF Meant
<1>3. /\ SubSeq(num, 1, 11) \in Seq(Octet) /\ Len(SubSeq(num, 1, 11)) = 11
      /\ \A i \in 1 .. 11 : SubSeq(num, 1, 11)[i] = num[i]
  <2>1. \A i \in 1 .. 11 : num[i] \in Octet
    BY <1>0
  <2> QED
    BY <2>1, SubSeqProperties
<1>4. SubSeq(num, 1, 11) = [i \in 1 .. 11 |-> num[i]]
  BY <1>3
<1>5. ASSUME NEW i \in 1 .. 11
      PROVE  Dialled(Nibbles(num))[i] = num[i]
  <2>1. CASE i % 2 = 1
    <3>1. (i + 1) \div 2 \in 1 .. 6 /\ 2 * ((i + 1) \div 2) - 1 = i
      BY <2>1
    <3>2. PICK k \in 1 .. 6 : k = (i + 1) \div 2 /\ 2 * k - 1 = i
      BY <3>1
    <3>3. PICK a \in 0 .. 15 : a = IF k < 6 THEN num[2 * k] ELSE 15
      <4>1. CASE k = 6
        BY <4>1
      <4>2. CASE k # 6
        <5>1. k < 6 /\ 2 * k \in 1 .. 11
          BY <4>2
        <5>2. PICK m \in 1 .. 11 : m = 2 * k
          BY <5>1
        <5>3. num[m] \in 0 .. 9
          BY <1>1
        <5>4. num[m] \in 0 .. 15
          BY <5>3
        <5> QED
          BY <5>1, <5>2, <5>4
      <4> QED
        BY <4>1, <4>2
    <3>4. Nibbles(num)[k] = Packed(a, num[i])
      BY <3>2, <3>3 DEF Nibbles
    <3>5. Dialled(Nibbles(num))[i] = Nibbles(num)[k] % 16
      BY <2>1, <3>2 DEF Dialled, Digits
    <3>6. num[i] \in 0 .. 9
      BY <1>1
    <3> QED
      BY <3>4, <3>5, <3>6, PackedDigits
  <2>2. CASE i % 2 # 1
    <3>1. i \div 2 \in 1 .. 5 /\ 2 * (i \div 2) = i
      BY <2>2
    <3>2. PICK k \in 1 .. 5 : k = i \div 2 /\ 2 * k = i
      BY <3>1
    <3>3. Nibbles(num)[k] = Packed(num[i], num[2 * k - 1])
      BY <3>2 DEF Nibbles
    <3>4. num[2 * k - 1] \in 0 .. 9 /\ num[i] \in 0 .. 15
      <4>1. PICK m \in 1 .. 11 : m = 2 * k - 1
        OBVIOUS
      <4>2. num[i] \in 0 .. 9 /\ num[m] \in 0 .. 9
        BY <1>1
      <4>3. num[i] \in 0 .. 15
        BY <4>2
      <4> QED
        BY <4>1, <4>2, <4>3
    <3>5. Dialled(Nibbles(num))[i] = Nibbles(num)[k] \div 16
      BY <2>2, <3>2 DEF Dialled, Digits
    <3> QED
      BY <3>3, <3>4, <3>5, PackedDigits
  <2> QED
    BY <2>1, <2>2
<1>6. Dialled(Nibbles(num)) = [i \in 1 .. 11 |-> Dialled(Nibbles(num))[i]]
  BY DEF Dialled, Digits
<1> QED
  BY <1>2, <1>4, <1>5, <1>6

\* The + of the international form is encoded as if it were the first digit:
\* however many digits follow, the number that is dialled is another one.
THEOREM PlusGoesAstray ==
  ASSUME NEW num \in Seq(Octet), Len(num) > Digits, num[1] = Plus,
         NEW e \in 3 .. Len(num), num[e] = Nul,
         \A i \in 2 .. e - 1 : num[i] \in 0 .. 9
  PROVE  Dialled(Nibbles(num)) # Meant(num)
<1>1. Meant(num) = SubSeq(num, 2, e - 1)
  <2>1. \A i \in 1 .. e - 1 : i = 1 \/ i \in 2 .. e - 1
    OBVIOUS
  <2>2. \A i \in 1 .. e - 1 : num[i] # Nul
    BY <2>1 DEF Nul, Plus
  <2>3. End(num) = e
    BY <2>2, EndIs
  <2> QED
    BY <2>3 DEF Meant
<1>2. Meant(num)[1] \in 0 .. 9
  <2>1. \A i \in 2 .. e - 1 : num[i] \in 0 .. 9
    OBVIOUS
  <2>2. SubSeq(num, 2, e - 1)[1] = num[2]
    <3>1. \A i \in 1 .. (e - 1) - 2 + 1 : SubSeq(num, 2, e - 1)[i] = num[2 + i - 1]
      BY <2>1, SubSeqProperties
    <3>2. 1 \in 1 .. (e - 1) - 2 + 1 /\ 2 + 1 - 1 = 2
      OBVIOUS
    <3> QED
      BY <3>1, <3>2
  <2> QED
    BY <1>1, <2>1, <2>2
<1>3. Dialled(Nibbles(num))[1] = 11
  <2>1. num[1] \in Octet /\ num[2] \in Octet
    <3>1. 1 \in 1 .. Len(num) /\ 2 \in 1 .. Len(num)
      OBVIOUS
    <3> QED
      BY <3>1
  <2>2. Nibbles(num)[1] = Packed(num[2], num[1])
    BY DEF Nibbles
  <2>3. Dialled(Nibbles(num))[1] = Nibbles(num)[1] % 16
    BY DEF Dialled, Digits
  <2>4. Plus % 16 = 11
    BY DEF Plus
  <2> QED
    BY <2>1, <2>2, <2>3, <2>4, PackedLow
<1> QED
  BY <1>2, <1>3

-----------------------------------------------------------------------------
(* What the steps do to the wire.                                          *)

LEMMA SayExtends ==
  ASSUME PhoneTypes, NEW j \in Jobs, NEW s \in 1 .. 3, NEW r \in Nat, Say(j, s, r)
  PROVE  /\ wire' \in Seq(Msgs) /\ Len(wire') = Len(wire) + 1
         /\ \A i \in 1 .. Len(wire) : wire'[i] = wire[i]
         /\ wire'[Len(wire) + 1].cmd = Commands(j.cmd)[s]
         /\ wire'[Len(wire) + 1].run = r
<1> DEFINE m == [cmd |-> Commands(j.cmd)[s], run |-> r, job |-> j, pdu |-> Pdu(j)]
<1>1. /\ Commands(j.cmd)[s] \in Asked
      /\ Commands(j.cmd)[s] = "pdu" => j.cmd = "send"
  BY JobFacts, CommandFacts
<1>2. m \in Msgs /\ m.cmd = Commands(j.cmd)[s] /\ m.run = r
  BY <1>1 DEF Msgs
<1>3. wire \in Seq(Msgs) /\ wire' = Append(wire, m)
  BY DEF Say, PhoneTypes
<1> HIDE DEF m
<1> QED
  BY <1>2, <1>3, AppendProperties

\* The modem has done with the first message, or has left its end (cmd a) there.
Tailed == wire' = Tail(wire)
Headed(a) == wire' = <<[Head(wire) EXCEPT !.cmd = a]>> \o Tail(wire)

LEMMA TailedWire ==
  ASSUME PhoneTypes, wire # <<>>, Tailed
  PROVE  /\ wire' \in Seq(Msgs) /\ Len(wire') = Len(wire) - 1
         /\ \A i \in 1 .. Len(wire') : wire'[i] = wire[i + 1]
BY HeadTailProperties DEF PhoneTypes, Tailed

LEMMA HeadedWire ==
  ASSUME PhoneTypes, wire # <<>>, NEW a \in Answers, Headed(a)
  PROVE  /\ wire' \in Seq(Msgs) /\ Len(wire') = Len(wire)
         /\ wire'[1].cmd = a
         /\ \A i \in 2 .. Len(wire) : wire'[i] = wire[i]
<1> DEFINE h == [Head(wire) EXCEPT !.cmd = a]
<1>1. /\ wire \in Seq(Msgs) /\ Head(wire) \in Msgs /\ Tail(wire) \in Seq(Msgs)
      /\ Len(Tail(wire)) = Len(wire) - 1
      /\ \A i \in 1 .. Len(Tail(wire)) : Tail(wire)[i] = wire[i + 1]
  BY HeadTailProperties DEF PhoneTypes
<1>2. h \in Msgs /\ h.cmd = a
  BY <1>1 DEF Msgs, Answers
<1>3. Len(wire) \in Nat \ {0}
  BY <1>1, EmptySeq
<1> HIDE DEF h
<1>4. <<h>> \in Seq(Msgs) /\ Len(<<h>>) = 1 /\ <<h>>[1] = h
  BY <1>2
<1>5. wire' = <<h>> \o Tail(wire)
  BY DEF Headed, h
<1>6. /\ wire' \in Seq(Msgs) /\ Len(wire') = Len(wire)
      /\ \A i \in 1 .. Len(wire) :
           wire'[i] = IF i <= 1 THEN <<h>>[i] ELSE Tail(wire)[i - 1]
  BY <1>1, <1>3, <1>4, <1>5, ConcatProperties
<1> QED
  BY <1>1, <1>2, <1>3, <1>4, <1>6

LEMMA LineGrows ==
  ASSUME PhoneTypes, NEW a \in Answers \cup {"part"}, line' = Append(line, a)
  PROVE  /\ line' \in Seq(Answers \cup {"part"}) /\ Len(line') = Len(line) + 1
         /\ \A i \in 1 .. Len(line) : line'[i] = line[i]
         /\ line'[Len(line) + 1] = a
BY AppendProperties DEF PhoneTypes

\* An answer: it is read from the line, and its end may come later.
LEMMA AnswerKinds ==
  ASSUME PhoneTypes, wire # <<>>, NEW a \in Answers, Answer(a)
  PROVE  /\ wire' \in Seq(Msgs) /\ line' \in Seq(Answers \cup {"part"}) /\ cuts' \in Nat
         /\ \/ Tailed /\ line' = Append(line, a) /\ cuts' = cuts
            \/ Headed(a) /\ line' = Append(line, "part") /\ cuts' = cuts + 1
<1>1. CASE Tailed /\ line' = Append(line, a) /\ cuts' = cuts
  BY <1>1, TailedWire, LineGrows DEF PhoneTypes
<1>2. CASE Headed(a) /\ line' = Append(line, "part") /\ cuts' = cuts + 1
  BY <1>2, HeadedWire, LineGrows DEF PhoneTypes
<1> QED
  BY <1>1, <1>2 DEF Answer, Tailed, Headed

\* What Read has read last.
LEMMA LastRead ==
  ASSUME PhoneTypes, line # <<>>
  PROVE  /\ Len(line) \in Nat \ {0} /\ Last(line) = line[Len(line)]
         /\ NoPrompt(line) => Last(line) # "prompt"
<1>1. line \in Seq(Answers \cup {"part"}) /\ Len(line) \in Nat \ {0}
  BY EmptySeq DEF PhoneTypes
<1>2. Last(line) = line[Len(line)]
  BY DEF Last
<1> QED
  BY <1>1, <1>2 DEF NoPrompt

-----------------------------------------------------------------------------
(* The steps.                                                              *)

\* What Read does: it goes on to the next command, or ends the run.
ReadsOn ==
  /\ step < 3 /\ step' = step + 1 /\ job' = job /\ ended' = ended
  /\ Say(job, step + 1, runs)
  /\ Commands(job.cmd)[step] = "cmgs" => Last(line) = "prompt"

ReadsEnd ==
  /\ step' = 0 /\ wire' = wire
  /\ ended'.run = runs /\ ended'.cmd = job.cmd
  /\ ended'.ok /\ job.cmd = "delete" =>
       step = 3 /\ Matches(Commands(job.cmd)[step], Last(line))

LEMMA ReadKinds ==
  ASSUME PhoneTypes, Read
  PROVE  /\ step \in 1 .. 3 /\ job \in Jobs /\ line # <<>> /\ line' = <<>>
         /\ UNCHANGED <<prompt, deleted, sent, runs, cuts>>
         /\ ReadsOn \/ ReadsEnd
<1> DEFINE cmd  == Commands(job.cmd)[step]
           good == Matches(cmd, Last(line))
<1>1. /\ step \in 1 .. 3 /\ job \in Jobs /\ line # <<>> /\ line' = <<>>
      /\ UNCHANGED <<prompt, deleted, sent, runs, cuts>>
  BY DEF Read, PhoneTypes
<1>2. CASE good /\ step < 3
  <2>1. step' = step + 1 /\ Say(job, step + 1, runs) /\ job' = job /\ ended' = ended
    BY <1>2 DEF Read
  <2>2. cmd = "cmgs" => Last(line) = "prompt"
    BY <1>2 DEF Matches
  <2> QED
    BY <1>1, <1>2, <2>1, <2>2 DEF ReadsOn
<1>3. CASE ~ (good /\ step < 3)
  <2>1. /\ step' = 0 /\ wire' = wire
        /\ ended' = [run |-> runs, cmd |-> job.cmd,
                     ok |-> good \/ (job.cmd = "send" /\ step > 1)]
    BY <1>3 DEF Read
  <2>2. ended'.ok => good \/ job.cmd = "send"
    BY <2>1
  <2>3. ended'.run = runs /\ ended'.cmd = job.cmd
    BY <2>1
  <2>4. good => step = 3
    BY <1>1, <1>3
  <2> QED
    BY <1>1, <2>1, <2>2, <2>3, <2>4 DEF ReadsEnd
<1> QED
  BY <1>1, <1>2, <1>3

LEMMA StepPhoneTypes ==
  ASSUME PhoneTypes, [PhoneNext]_phoneVars
  PROVE  PhoneTypes'
<1>1. ASSUME NEW j \in Jobs, Begin(j)
      PROVE  PhoneTypes'
  <2>1. runs' \in Nat /\ Say(j, 1, runs')
    BY <1>1 DEF Begin, PhoneTypes
  <2>2. wire' \in Seq(Msgs)
    BY <2>1, SayExtends
  <2> QED
    BY <1>1, <2>1, <2>2 DEF Begin, PhoneTypes
<1>2. CASE Read
  <2>1. /\ step \in 1 .. 3 /\ job \in Jobs /\ line' = <<>>
        /\ UNCHANGED <<runs, cuts>>
        /\ ReadsOn \/ ReadsEnd
    BY <1>2, ReadKinds
  <2>2. CASE ReadsOn
    <3>1. wire' \in Seq(Msgs)
      BY <2>1, <2>2, SayExtends DEF ReadsOn, PhoneTypes
    <3> QED
      BY <2>1, <2>2, <3>1 DEF ReadsOn, PhoneTypes
  <2>3. CASE ReadsEnd
    BY <2>1, <2>3 DEF ReadsEnd, PhoneTypes
  <2> QED
    BY <2>1, <2>2, <2>3
<1>3. CASE KillPhone
  BY <1>3 DEF KillPhone, PhoneTypes
<1>4. CASE ModemGoesOn
  <2>1. /\ wire # <<>> /\ Tailed /\ Head(wire).cmd \in Answers
        /\ line' = Append(line, Head(wire).cmd)
    BY <1>4 DEF ModemGoesOn, Tailed, Answers
  <2>2. wire' \in Seq(Msgs) /\ line' \in Seq(Answers \cup {"part"})
    BY <2>1, TailedWire, LineGrows
  <2> QED
    BY <1>4, <2>2 DEF ModemGoesOn, PhoneTypes
<1>5. CASE ModemSwallows
  <2>1. wire' \in Seq(Msgs)
    BY <1>5, TailedWire DEF ModemSwallows, Tailed
  <2> QED
    BY <1>5, <2>1 DEF ModemSwallows, PhoneTypes
<1>6. CASE wire # <<>> /\ (\E a \in Answers : Answer(a))
           /\ UNCHANGED <<job, step, runs>>
  BY <1>6, AnswerKinds DEF PhoneTypes
<1>7. CASE ModemObeys
  BY <1>6, <1>7 DEF ModemObeys, Answers
<1>8. CASE ModemSends
  BY <1>6, <1>8 DEF ModemSends, Answers
<1>9. CASE UNCHANGED phoneVars
  BY <1>9 DEF phoneVars, PhoneTypes
<1> QED
  BY <1>1, <1>2, <1>3, <1>4, <1>5, <1>7, <1>8, <1>9 DEF PhoneNext, Modem

\* At the head of the wire is its first message.
LEMMA HeadOfWire ==
  ASSUME PhoneTypes, wire # <<>>
  PROVE  /\ Len(wire) \in Nat \ {0} /\ Head(wire) = wire[1] /\ wire[1] \in Msgs
BY EmptySeq DEF PhoneTypes

LEMMA PduFacts ==
  ASSUME NEW m \in Msgs
  PROVE  /\ m.pdu.number = Nibbles(m.job.num)
         /\ m.pdu.data_len = m.job.data % 256
         /\ m.pdu.octets = Header + m.job.data
         /\ m.job.data \in 0 .. 496 /\ m.job.data \in {m.job.len, 0}
         /\ m.job \in Jobs
BY JobFacts DEF Msgs, Pdu

LEMMA ExtendedTokens ==
  ASSUME NEW p, NEW q, Len(p) \in Nat, Len(q) = Len(p) + 1,
         \A i \in 1 .. Len(p) : q[i] = p[i]
  PROVE  /\ ~ Token(q[Len(p) + 1]) /\ NoToken(p) => NoToken(q)
         /\ ~ Token(q[Len(p) + 1]) /\ OneToken(p) => OneToken(q)
         /\ NoToken(p) => OneToken(q)
<1>1. \A i \in 1 .. Len(q) : i = Len(p) + 1 \/ (i \in 1 .. Len(p) /\ q[i] = p[i])
  OBVIOUS
<1>2. ASSUME ~ Token(q[Len(p) + 1]), NoToken(p)
      PROVE  NoToken(q)
  BY <1>1, <1>2 DEF NoToken
<1>3. ASSUME ~ Token(q[Len(p) + 1]), OneToken(p)
      PROVE  OneToken(q)
  BY <1>1, <1>3 DEF OneToken
<1>4. ASSUME NoToken(p)
      PROVE  OneToken(q)
  BY <1>1, <1>4 DEF OneToken, NoToken
<1> QED
  BY <1>2, <1>3, <1>4

LEMMA ShortenedTokens ==
  ASSUME NEW p, NEW q, Len(p) \in Nat \ {0}, Len(q) = Len(p) - 1,
         \A i \in 1 .. Len(q) : q[i] = p[i + 1]
  PROVE  /\ NoToken(p) => NoToken(q)
         /\ OneToken(p) => OneToken(q)
         /\ OneToken(p) /\ Token(p[1]) => NoToken(q)
<1>1. \A i \in 1 .. Len(q) : i + 1 \in 2 .. Len(p) /\ q[i] = p[i + 1]
  OBVIOUS
<1>2. ASSUME NoToken(p)
      PROVE  NoToken(q)
  BY <1>1, <1>2 DEF NoToken
<1>3. ASSUME OneToken(p)
      PROVE  OneToken(q)
  <2> SUFFICES ASSUME NEW i \in 1 .. Len(q), NEW j \in 1 .. Len(q),
                      Token(q[i]), Token(q[j])
               PROVE  i = j
    BY DEF OneToken
  <2>1. PICK a \in 1 .. Len(p), b \in 1 .. Len(p) : a = i + 1 /\ b = j + 1
    BY <1>1
  <2>2. Token(p[a]) /\ Token(p[b])
    BY <2>1
  <2>3. a = b
    BY <1>3, <2>2 DEF OneToken
  <2> QED
    BY <2>1, <2>3
<1>4. ASSUME OneToken(p), Token(p[1])
      PROVE  NoToken(q)
  <2>1. 1 \in 1 .. Len(p) /\ \A i \in 1 .. Len(q) : i + 1 # 1
    OBVIOUS
  <2> QED
    BY <1>1, <1>4, <2>1 DEF OneToken, NoToken
<1> QED
  BY <1>2, <1>3, <1>4

LEMMA StepPrompt ==
  ASSUME PhoneTypes, PhoneTypes', PromptOK, [PhoneNext]_phoneVars
  PROVE  PromptOK'
<1>0. Len(wire) \in Nat /\ Len(line) \in Nat
  BY DEF PhoneTypes
<1>1. ASSUME NEW j \in Jobs, Begin(j)
      PROVE  PromptOK'
  <2>1. runs' \in Nat /\ Say(j, 1, runs') /\ UNCHANGED <<line, prompt>>
    BY <1>1 DEF Begin, PhoneTypes
  <2>2. /\ Len(wire') = Len(wire) + 1
        /\ \A i \in 1 .. Len(wire) : wire'[i] = wire[i]
        /\ wire'[Len(wire) + 1].cmd = Commands(j.cmd)[1]
    BY <2>1, SayExtends
  <2>3. ~ Token(wire'[Len(wire) + 1])
    BY <2>2, JobFacts, CommandFacts DEF Token, Asked
  <2>4. (NoToken(wire) => NoToken(wire')) /\ (OneToken(wire) => OneToken(wire'))
    BY <1>0, <2>2, <2>3, ExtendedTokens
  <2> QED
    BY <2>1, <2>4 DEF PromptOK
<1>2. CASE Read
  <2>1. /\ step \in 1 .. 3 /\ job \in Jobs /\ line # <<>> /\ line' = <<>>
        /\ prompt' = prompt
        /\ ReadsOn \/ ReadsEnd
    BY <1>2, ReadKinds
  <2>2. NoPrompt(line')
    BY <2>1 DEF NoPrompt
  <2>3. CASE ReadsEnd
    BY <1>0, <2>1, <2>2, <2>3 DEF ReadsEnd, PromptOK
  <2>4. CASE ReadsOn
    <3>1. step \in 1 .. 2 /\ step + 1 \in 1 .. 3 /\ Say(job, step + 1, runs)
      BY <2>1, <2>4 DEF ReadsOn
    <3>2. /\ Len(wire') = Len(wire) + 1
          /\ \A i \in 1 .. Len(wire) : wire'[i] = wire[i]
          /\ wire'[Len(wire) + 1].cmd = Commands(job.cmd)[step + 1]
      BY <2>1, <3>1, SayExtends DEF PhoneTypes
    <3>3. CASE Commands(job.cmd)[step + 1] = "pdu"
      <4>1. Commands(job.cmd)[step] = "cmgs"
        BY <2>1, <3>1, <3>3, JobFacts, CommandFacts
      <4>2. ~ NoPrompt(line)
        BY <2>1, <2>4, <4>1, LastRead DEF ReadsOn
      <4>3. NoToken(wire) /\ prompt # 0
        BY <4>2 DEF PromptOK
      <4>4. OneToken(wire')
        BY <1>0, <3>2, <4>3, ExtendedTokens
      <4> QED
        BY <2>1, <2>2, <4>3, <4>4 DEF PromptOK
    <3>4. CASE Commands(job.cmd)[step + 1] # "pdu"
      <4>1. ~ Token(wire'[Len(wire) + 1])
        BY <2>1, <3>1, <3>2, <3>4, JobFacts, CommandFacts DEF Token, Asked
      <4>2. (NoToken(wire) => NoToken(wire')) /\ (OneToken(wire) => OneToken(wire'))
        BY <1>0, <3>2, <4>1, ExtendedTokens
      <4> QED
        BY <2>1, <2>2, <4>2 DEF PromptOK
    <3> QED
      BY <3>3, <3>4
  <2> QED
    BY <2>1, <2>3, <2>4
<1>3. CASE KillPhone
  BY <1>3 DEF KillPhone, PromptOK
<1>4. CASE ModemGoesOn
  <2> DEFINE a == wire[1].cmd
  <2>1. /\ wire # <<>> /\ Tailed /\ a \in Answers /\ prompt' = prompt
        /\ line' = Append(line, a)
    BY <1>4, HeadOfWire DEF ModemGoesOn, Tailed, Answers
  <2>2. /\ Len(wire') = Len(wire) - 1 /\ Len(wire) >= 1
        /\ \A i \in 1 .. Len(wire') : wire'[i] = wire[i + 1]
    BY <2>1, TailedWire, HeadOfWire
  <2>3. /\ Len(line') = Len(line) + 1
        /\ \A i \in 1 .. Len(line) : line'[i] = line[i]
        /\ line'[Len(line) + 1] = a
    BY <2>1, LineGrows
  <2>4. CASE Token(wire[1])
    <3>1. 1 \in 1 .. Len(wire)
      BY <1>0, <2>2
    <3>2. ~ NoToken(wire) /\ prompt # 0
      BY <2>4, <3>1 DEF NoToken, PromptOK
    <3>3. NoToken(wire') /\ OneToken(wire')
      BY <1>0, <2>2, <2>4, ShortenedTokens DEF PromptOK
    <3> QED
      BY <2>1, <3>2, <3>3 DEF PromptOK
  <2>5. CASE ~ Token(wire[1])
    <3>1. a # "prompt"
      BY <2>5 DEF Token
    <3>2. NoPrompt(line) => NoPrompt(line')
      BY <1>0, <2>3, <3>1 DEF NoPrompt
    <3>3. (NoToken(wire) => NoToken(wire')) /\ (OneToken(wire) => OneToken(wire'))
      BY <1>0, <2>2, ShortenedTokens
    <3> QED
      BY <2>1, <3>2, <3>3 DEF PromptOK
  <2> QED
    BY <2>4, <2>5
<1>5. CASE ModemSwallows
  <2>1. wire # <<>> /\ Tailed /\ UNCHANGED <<line, prompt>>
    BY <1>5 DEF ModemSwallows, Tailed
  <2>2. /\ Len(wire') = Len(wire) - 1 /\ Len(wire) >= 1
        /\ \A i \in 1 .. Len(wire') : wire'[i] = wire[i + 1]
    BY <2>1, TailedWire, HeadOfWire
  <2>3. (NoToken(wire) => NoToken(wire')) /\ (OneToken(wire) => OneToken(wire'))
    BY <1>0, <2>2, ShortenedTokens
  <2> QED
    BY <2>1, <2>3 DEF PromptOK
<1>6. ASSUME wire # <<>>, NEW a \in Answers, Answer(a), NoPrompt(line),
             \A i \in 2 .. Len(wire) : ~ Token(wire[i]),
             IF a = "prompt" THEN prompt' # 0 ELSE TRUE
      PROVE  PromptOK'
  <2>1. Len(wire) >= 1
    BY <1>6, HeadOfWire
  <2>2. CASE Tailed /\ line' = Append(line, a)
    <3>1. /\ Len(wire') = Len(wire) - 1
          /\ \A i \in 1 .. Len(wire') : wire'[i] = wire[i + 1]
      BY <1>6, <2>2, TailedWire
    <3>2. /\ Len(line') = Len(line) + 1
          /\ \A i \in 1 .. Len(line) : line'[i] = line[i]
          /\ line'[Len(line) + 1] = a
      BY <1>6, <2>2, LineGrows
    <3>3. NoToken(wire') /\ OneToken(wire')
      <4>1. \A i \in 1 .. Len(wire') : i + 1 \in 2 .. Len(wire)
        BY <1>0, <2>1, <3>1
      <4>2. \A i \in 1 .. Len(wire') : ~ Token(wire'[i])
        BY <1>6, <3>1, <4>1
      <4> QED
        BY <4>2 DEF NoToken, OneToken
    <3>4. prompt' = 0 => NoPrompt(line')
      BY <1>0, <1>6, <3>2 DEF NoPrompt
    <3> QED
      BY <3>3, <3>4 DEF PromptOK
  <2>3. CASE Headed(a) /\ line' = Append(line, "part")
    <3>1. /\ Len(wire') = Len(wire) /\ wire'[1].cmd = a
          /\ \A i \in 2 .. Len(wire) : wire'[i] = wire[i]
      BY <1>6, <2>3, HeadedWire
    <3>2. /\ Len(line') = Len(line) + 1
          /\ \A i \in 1 .. Len(line) : line'[i] = line[i]
          /\ line'[Len(line) + 1] = "part"
      BY <1>6, <2>3, LineGrows
    <3>3. NoPrompt(line')
      BY <1>0, <1>6, <3>2 DEF NoPrompt
    <3>4. \A i \in 2 .. Len(wire') : ~ Token(wire'[i])
      BY <1>0, <1>6, <3>1 DEF Token
    <3>5. a # "prompt" => ~ Token(wire'[1])
      BY <1>6, <3>1 DEF Token, Answers
    <3>6. OneToken(wire') /\ (prompt' = 0 => NoToken(wire'))
      BY <1>0, <1>6, <3>1, <3>4, <3>5 DEF NoToken, OneToken
    <3> QED
      BY <3>3, <3>6 DEF PromptOK
  <2> QED
    BY <1>6, <2>2, <2>3, AnswerKinds
<1>7. CASE ModemObeys
  <2>1. wire # <<>> /\ prompt = 0 /\ NoPrompt(line)
    BY <1>7 DEF ModemObeys, PromptOK
  <2>2. \A i \in 2 .. Len(wire) : ~ Token(wire[i])
    BY <1>0, <2>1 DEF PromptOK, NoToken
  <2>3. wire[1] = Head(wire) /\ wire[1].pdu.octets \in Nat /\ wire[1].pdu.octets - 1 # 0
    <3>1. wire[1] = Head(wire) /\ wire[1] \in Msgs
      BY <2>1, HeadOfWire
    <3>2. /\ wire[1].pdu.octets = 15 + wire[1].job.data
          /\ wire[1].job.data \in 0 .. 496
      BY <3>1, PduFacts DEF Header
    <3>3. PICK k \in 0 .. 496 : k = wire[1].job.data
      BY <3>2
    <3>4. wire[1].pdu.octets = 15 + k
      BY <3>2, <3>3
    <3>5. 15 + k \in Nat /\ (15 + k) - 1 # 0
      OBVIOUS
    <3> QED
      BY <3>1, <3>4, <3>5
  <2>4. CASE Answer("error")
    BY <1>6, <2>1, <2>2, <2>4 DEF Answers
  <2>5. CASE /\ Answer(IF Head(wire).cmd = "cmgs" THEN "prompt" ELSE "ok")
             /\ prompt' = IF Head(wire).cmd = "cmgs" THEN wire[1].pdu.octets - 1 ELSE 0
    BY <1>6, <2>1, <2>2, <2>3, <2>5 DEF Answers
  <2> QED
    BY <1>7, <2>3, <2>4, <2>5 DEF ModemObeys
<1>8. CASE ModemSends
  <2>1. wire # <<>> /\ wire[1].cmd = "pdu" /\ Token(wire[1]) /\ Len(wire) >= 1
    BY <1>8, HeadOfWire DEF ModemSends, Token
  <2>2. NoPrompt(line) /\ \A i \in 2 .. Len(wire) : ~ Token(wire[i])
    <3>1. 1 \in 1 .. Len(wire) /\ \A i \in 2 .. Len(wire) : i \in 1 .. Len(wire) /\ i # 1
      BY <1>0, <2>1
    <3> QED
      BY <2>1, <3>1 DEF PromptOK, NoToken, OneToken
  <2>3. Answer("ok") \/ Answer("error")
    BY <1>8 DEF ModemSends
  <2> QED
    BY <1>6, <2>1, <2>2, <2>3 DEF Answers
<1>9. CASE UNCHANGED phoneVars
  BY <1>9 DEF phoneVars, PromptOK
<1> QED
  BY <1>1, <1>2, <1>3, <1>4, <1>5, <1>7, <1>8, <1>9 DEF PhoneNext, Modem

LEMMA StepTurn ==
  ASSUME PhoneTypes, PhoneTypes', TurnOK, DeleteDeletes, [PhoneNext]_phoneVars
  PROVE  TurnOK' /\ DeleteDeletes'
<1>0. /\ cuts \in Nat /\ runs \in Nat
      /\ Len(wire) \in Nat /\ Len(line) \in Nat
  BY DEF PhoneTypes
<1>1. ASSUME NEW j \in Jobs, Begin(j)
      PROVE  TurnOK' /\ DeleteDeletes'
  <2>1. /\ step = 0 /\ step' = 1 /\ job' = j /\ runs' \in Nat /\ Say(j, 1, runs')
        /\ UNCHANGED <<line, deleted, ended, cuts>>
    BY <1>1 DEF Begin, PhoneTypes
  <2>2. /\ Len(wire') = Len(wire) + 1
        /\ wire'[Len(wire) + 1].cmd = Commands(j.cmd)[1]
        /\ wire'[Len(wire) + 1].run = runs'
    BY <2>1, SayExtends
  <2>3. cuts = 0 => Len(wire) = 0 /\ Len(line) = 0
    BY <2>1 DEF TurnOK
  <2> QED
    BY <1>0, <2>1, <2>2, <2>3 DEF TurnOK, DeleteDeletes
<1>2. CASE Read
  <2>1. /\ step \in 1 .. 3 /\ job \in Jobs /\ line # <<>> /\ line' = <<>>
        /\ UNCHANGED <<deleted, runs, cuts>>
        /\ ReadsOn \/ ReadsEnd
    BY <1>2, ReadKinds
  <2>2. Len(line') = 0 /\ Len(line) >= 1 /\ Last(line) = line[Len(line)]
    BY <2>1, LastRead
  <2>3. cuts = 0 => Len(wire) = 0 /\ Len(line) = 1 /\ Last(line) = line[1]
    <3>1. cuts = 0 => Len(wire) + Len(line) <= 1
      BY DEF TurnOK
    <3>2. cuts = 0 => Len(wire) = 0 /\ Len(line) = 1
      BY <1>0, <2>2, <3>1
    <3> QED
      BY <2>2, <3>2
  <2>4. CASE ReadsOn
    <3>1. step + 1 \in 1 .. 3 /\ Say(job, step + 1, runs)
      BY <2>1, <2>4 DEF ReadsOn
    <3>2. /\ Len(wire') = Len(wire) + 1
          /\ wire'[Len(wire) + 1].cmd = Commands(job.cmd)[step + 1]
          /\ wire'[Len(wire) + 1].run = runs
      BY <2>1, <3>1, SayExtends DEF PhoneTypes
    <3>3. job' = job /\ step' = step + 1 /\ step' # 0 /\ ended' = ended
      BY <2>1, <2>4 DEF ReadsOn
    <3> QED
      BY <1>0, <2>1, <2>2, <2>3, <3>2, <3>3 DEF TurnOK, DeleteDeletes
  <2>5. CASE ReadsEnd
    <3>1. TurnOK'
      BY <2>1, <2>2, <2>3, <2>5 DEF TurnOK, ReadsEnd
    <3>2. ASSUME cuts = 0, job.cmd = "delete", ended'.ok
          PROVE  runs \in deleted
      <4>1. Commands(job.cmd)[step] = "cmgd" /\ Last(line) = "ok"
        <5>1. step = 3 /\ Matches(Commands(job.cmd)[step], Last(line))
          BY <2>5, <3>2 DEF ReadsEnd
        <5>2. Commands(job.cmd)[step] = "cmgd"
          BY <3>2, <5>1, CommandFacts
        <5> QED
          BY <5>1, <5>2 DEF Matches
      <4> QED
        BY <2>3, <3>2, <4>1 DEF TurnOK
    <3> QED
      BY <2>1, <2>5, <3>1, <3>2 DEF ReadsEnd, DeleteDeletes
  <2> QED
    BY <2>1, <2>4, <2>5
<1>3. CASE KillPhone
  BY <1>0, <1>3 DEF KillPhone, TurnOK, DeleteDeletes
<1>4. CASE ModemGoesOn
  <2>1. /\ wire # <<>> /\ wire' = Tail(wire) /\ Head(wire).cmd \in Answers
        /\ line' = Append(line, Head(wire).cmd)
        /\ UNCHANGED <<job, step, deleted, ended, runs, cuts>>
    BY <1>4 DEF ModemGoesOn, Answers
  <2>2. /\ Len(wire') = Len(wire) - 1 /\ Len(wire) >= 1 /\ Head(wire) = wire[1]
    BY <2>1, TailedWire, HeadOfWire DEF Tailed
  <2>3. Len(line') = Len(line) + 1
    BY <2>1, LineGrows
  <2>4. cuts = 0 => /\ Len(wire) = 1 /\ Len(line) = 0 /\ step \in 1 .. 3
                    /\ wire[1].cmd = Commands(job.cmd)[step]
    BY <1>0, <2>2 DEF TurnOK, PhoneTypes
  <2>5. cuts = 0 => FALSE
    BY <2>1, <2>2, <2>4, JobFacts, CommandFacts DEF PhoneTypes, Asked, Answers
  <2> QED
    BY <2>1, <2>5 DEF TurnOK, DeleteDeletes
<1>5. CASE ModemSwallows
  <2>1. wire # <<>> /\ Tailed /\ UNCHANGED <<job, step, line, deleted, ended, runs, cuts>>
    BY <1>5 DEF ModemSwallows, Tailed
  <2>2. Len(wire') = Len(wire) - 1 /\ Len(wire) >= 1
    BY <2>1, TailedWire, HeadOfWire
  <2> QED
    BY <1>0, <2>1, <2>2 DEF TurnOK, DeleteDeletes
\* The modem answers a message.
<1>6. ASSUME wire # <<>>, NEW a \in Answers, Answer(a),
             UNCHANGED <<job, step, ended, runs>>, deleted \subseteq deleted',
             a = "ok" /\ wire[1].cmd = "cmgd" => wire[1].run \in deleted'
      PROVE  TurnOK' /\ DeleteDeletes'
  <2>1. Len(wire) >= 1
    BY <1>6, HeadOfWire
  <2>2. CASE Tailed /\ line' = Append(line, a) /\ cuts' = cuts
    <3>1. Len(wire') = Len(wire) - 1
      BY <1>6, <2>2, TailedWire
    <3>2. /\ Len(line') = Len(line) + 1 /\ line'[Len(line) + 1] = a
      BY <1>6, <2>2, LineGrows
    <3>3. cuts = 0 => /\ Len(wire) = 1 /\ Len(line) = 0 /\ step # 0
                      /\ wire[1].cmd = Commands(job.cmd)[step] /\ wire[1].run = runs
      <4>1. cuts = 0 => Len(wire) + Len(line) <= 1
        BY DEF TurnOK
      <4>2. cuts = 0 => Len(wire) = 1 /\ Len(line) = 0
        <5>1. PICK p \in Nat, q \in Nat : p = Len(wire) /\ q = Len(line)
          BY <1>0
        <5>2. p >= 1 /\ p + q <= 1 => p = 1 /\ q = 0
          OBVIOUS
        <5> QED
          BY <2>1, <4>1, <5>1, <5>2
      <4> QED
        BY <4>2 DEF TurnOK
    <3>4. TurnOK'
      BY <1>0, <1>6, <2>2, <3>1, <3>2, <3>3 DEF TurnOK
    <3> QED
      BY <1>6, <2>2, <3>4 DEF DeleteDeletes
  <2>3. CASE cuts' = cuts + 1
    BY <1>0, <2>3 DEF TurnOK, DeleteDeletes
  <2> QED
    BY <1>6, <2>2, <2>3, AnswerKinds
<1>7. CASE ModemObeys
  <2>1. wire # <<>> /\ Head(wire) = wire[1] /\ UNCHANGED <<job, step, ended, runs>>
    BY <1>7, HeadOfWire DEF ModemObeys
  <2>2. CASE Answer("error") /\ deleted' = deleted
    BY <1>6, <2>1, <2>2 DEF Answers
  <2>3. CASE /\ Answer(IF Head(wire).cmd = "cmgs" THEN "prompt" ELSE "ok")
             /\ deleted' = IF Head(wire).cmd = "cmgd" THEN deleted \cup {Head(wire).run}
                           ELSE deleted
    BY <1>6, <2>1, <2>3 DEF Answers
  <2> QED
    BY <1>7, <2>2, <2>3 DEF ModemObeys
<1>8. CASE ModemSends
  <2>1. /\ wire # <<>> /\ wire[1].cmd = "pdu"
        /\ UNCHANGED <<job, step, ended, runs, deleted>>
    BY <1>8, HeadOfWire DEF ModemSends
  <2>2. Answer("ok") \/ Answer("error")
    BY <1>8 DEF ModemSends
  <2> QED
    BY <1>6, <2>1, <2>2 DEF Answers
<1>9. CASE UNCHANGED phoneVars
  BY <1>9 DEF phoneVars, TurnOK, DeleteDeletes
<1> QED
  BY <1>1, <1>2, <1>3, <1>4, <1>5, <1>7, <1>8, <1>9 DEF PhoneNext, Modem

LEMMA StepSent ==
  ASSUME PhoneTypes, SentAsAsked, [PhoneNext]_phoneVars
  PROVE  SentAsAsked'
<1>1. CASE UNCHANGED sent
  BY <1>1 DEF SentAsAsked
<1>2. CASE ModemSends
  <2> DEFINE c == wire[1]
             m == [job |-> c.job, num |-> Dialled(c.pdu.number), len |-> c.pdu.data_len]
  <2>1. wire # <<>> /\ c = Head(wire) /\ c \in Msgs /\ c.cmd = "pdu"
    BY <1>2, HeadOfWire DEF ModemSends
  <2>2. CASE UNCHANGED sent
    BY <1>1, <2>2
  <2>3. CASE /\ c.pdu.data_len = c.pdu.octets - Header
             /\ sent' = sent \cup {m}
    <3>1. /\ c.pdu.number = Nibbles(c.job.num)
          /\ c.job.num \in Seq(Octet) /\ Len(c.job.num) > Digits
      BY <2>1, PduFacts, JobFacts DEF Msgs
    <3>2. Eleven(m.job.num) => m.num = Meant(m.job.num)
      BY <3>1, NumberArrives
    <3>3. /\ c.pdu.octets = Header + c.job.data
          /\ c.job.data \in 0 .. 496 /\ c.job.data \in {c.job.len, 0}
      BY <2>1, PduFacts
    <3>4. c.pdu.data_len = c.job.data
      <4>1. PICK k \in 0 .. 496 : k = c.job.data /\ c.pdu.octets = 15 + k
        BY <3>3 DEF Header
      <4>2. (15 + k) - 15 = k
        OBVIOUS
      <4> QED
        BY <2>3, <4>1, <4>2 DEF Header
    <3>5. m.len \in {m.job.len, 0}
      BY <3>3, <3>4
    <3> HIDE DEF m
    <3> QED
      BY <2>3, <3>2, <3>5 DEF SentAsAsked
  <2> QED
    BY <1>2, <2>1, <2>2, <2>3 DEF ModemSends
<1>3. CASE \E j \in Jobs : Begin(j)
  BY <1>1, <1>3 DEF Begin
<1>4. CASE Read \/ KillPhone
  BY <1>1, <1>4 DEF Read, KillPhone
<1>5. CASE ModemGoesOn \/ ModemSwallows \/ ModemObeys
  BY <1>1, <1>5 DEF ModemGoesOn, ModemSwallows, ModemObeys
<1>6. CASE UNCHANGED phoneVars
  BY <1>1, <1>6 DEF phoneVars
<1> QED
  BY <1>2, <1>3, <1>4, <1>5, <1>6 DEF PhoneNext, Modem

THEOREM PhoneInvHolds == PhoneSpec => []PhoneInv
<1>1. PhoneInit => PhoneInv
  <2> SUFFICES ASSUME PhoneInit PROVE PhoneInv
    OBVIOUS
  <2>1. Len(wire) = 0 /\ Len(line) = 0
    BY EmptySeq DEF PhoneInit
  <2>2. PhoneTypes
    BY DEF PhoneInit, PhoneTypes
  <2>3. PromptOK
    BY <2>1 DEF PromptOK, NoToken, OneToken, NoPrompt
  <2>4. TurnOK
    BY <2>1 DEF TurnOK
  <2>5. SentAsAsked /\ DeleteDeletes
    BY DEF PhoneInit, SentAsAsked, DeleteDeletes
  <2> QED
    BY <2>2, <2>3, <2>4, <2>5 DEF PhoneInv
<1>2. PhoneInv /\ [PhoneNext]_phoneVars => PhoneInv'
  BY StepPhoneTypes, StepPrompt, StepTurn, StepSent DEF PhoneInv
<1> QED
  BY <1>1, <1>2, PTL DEF PhoneSpec

\* A message to a number given as eleven digits goes there, digit by digit, and
\* any message is the whole text or empty, though the length of its data is stored
\* in eight bits: for any number arguments, and any texts up to 496 octets.
THEOREM SentSafe == PhoneSpec => []SentAsAsked
<1>1. PhoneInv => SentAsAsked
  BY DEF PhoneInv
<1> QED
  BY <1>1, PhoneInvHolds, PTL

\* However many runs are killed or leave answers unread, a PDU reaches the modem
\* only at its prompt; and while none is, a delete that succeeds has deleted.
THEOREM AnswersSafe == PhoneSpec => []AnswersTrusted
<1>1. PhoneInv => AnswersTrusted
  <2> SUFFICES ASSUME PhoneInv PROVE AnswersTrusted
    OBVIOUS
  <2>1. ASSUME wire # <<>>, Head(wire).cmd = "pdu"
        PROVE  prompt # 0
    <3>1. 1 \in 1 .. Len(wire) /\ Token(wire[1])
      BY <2>1, HeadOfWire DEF PhoneInv, Token
    <3> QED
      BY <3>1 DEF PhoneInv, PromptOK, NoToken
  <2> QED
    BY <2>1 DEF PhoneInv, AnswersTrusted, PduAtPrompt
<1> QED
  BY <1>1, PhoneInvHolds, PTL
-----------------------------------------------------------------------------
(* Source fetchers                                                         *)

Hows   == {"plain", "extract", "guarded", "into", "fresh"}
Places == {"idle", "fetch", "fetching", "checkout", "copy", "patch", "compile",
           "installed"}

TreeType == [is : Contents, patched : {"no", "part", "yes"}, stamp : BOOLEAN,
             extracted : BOOLEAN]

CheckoutTypes ==
  /\ Git \in BOOLEAN /\ How \in Hows
  /\ checkout \in Contents
  /\ ruleAt \in [Dirs -> Places]
  /\ tree \in [Dirs -> TreeType]

\* Nothing has gone wrong that the rule does not survive.
Sound == mishaps \cap Harm = {}

\* One directory fetches: the one that fetching names.
FetchAt ==
  /\ fetching # Nobody => fetching \in Dirs /\ checkout # "none"
  /\ \A w \in Dirs : ruleAt[w] \in {"fetching", "checkout"} => fetching = w
  /\ \A w \in Dirs : fetching = w => ruleAt[w] \in {"fetching", "checkout"}
  /\ \A w \in Dirs : ruleAt[w] = "checkout" => Git

\* The checkout is whole whenever nobody fetches, and whoever is about to copy
\* has one.
SourceAt ==
  /\ fetching = Nobody => checkout \in {"none", "asked"}
  /\ \A w \in Dirs : ruleAt[w] = "copy" =>
       checkout # "none" /\ (Git => fetching = Nobody)

Unpatched(w) == tree[w].is = "asked" /\ tree[w].patched = "no" /\ ~ tree[w].stamp
Finished(w)  == tree[w].is = "asked" /\ tree[w].patched = "yes" /\ tree[w].stamp

\* What a rule may find when it starts, so that it ends well.
Restartable(w) ==
  /\ How = "plain"   => (tree[w].is = "none" /\ ~ tree[w].stamp) \/ Finished(w)
  /\ How = "guarded" => \/ tree[w].is = "none" /\ ~ tree[w].stamp
                        \/ Finished(w) /\ ruleAt[w] = "idle"
  /\ How = "into"    => ~ tree[w].stamp
  /\ How = "extract" => IF tree[w].extracted THEN Finished(w) ELSE ~ tree[w].stamp

TreeAt(w) ==
  /\ ruleAt[w] \in {"idle", "fetch", "fetching", "checkout", "copy"} => Restartable(w)
  /\ ruleAt[w] = "patch" =>
       Unpatched(w) \/ (How \in {"plain", "extract"} /\ Finished(w))
  /\ ruleAt[w] \in {"compile", "installed"} => Finished(w)
  /\ ruleAt[w] \in {"patch", "compile", "installed"} /\ How = "extract" =>
       tree[w].extracted

CheckoutInv ==
  /\ CheckoutTypes
  /\ FetchAt
  /\ Sound => SourceAt /\ \A w \in Dirs : TreeAt(w)

-----------------------------------------------------------------------------

\* What every step of a rule leaves alone.
LEMMA Stepped ==
  ASSUME CheckoutTypes, NEW w \in Dirs, NEW from, NEW to \in Places,
         RuleStep(w, from, to)
  PROVE  /\ way' = way /\ Git' = Git /\ How' = How /\ Harm' = Harm
         /\ ruleAt[w] = from /\ ruleAt'[w] = to
         /\ ruleAt' \in [Dirs -> Places]
         /\ \A v \in Dirs \ {w} : ruleAt'[v] = ruleAt[v]
<1>1. way' = way
  BY DEF RuleStep
<1>2. Git' = Git /\ How' = How
  BY <1>1 DEF Git, How
<1>3. Harm' = Harm
  BY <1>2 DEF Harm, HarmTo
<1> QED BY <1>1, <1>2, <1>3 DEF RuleStep, CheckoutTypes

\* Mishaps are not forgotten, and one that is harmful is the end of Sound.
LEMMA Recorded ==
  ASSUME Harm' = Harm, NEW k, Mishap(k)
  PROVE  Sound' => Sound /\ k \notin Harm
BY DEF Sound, Mishap

LEMMA AllFine ==
  ASSUME Harm' = Harm, Fine
  PROVE  Sound' => Sound
BY DEF Sound, Fine

LEMMA Harmful ==
  ASSUME How \in Hows
  PROVE  /\ "race" \in Harm /\ "fetch killed" \in Harm
         /\ Git => "revision" \in Harm
         /\ ~ Git => "fetch failed" \in Harm
         /\ How \in {"plain", "guarded", "extract"} => "patch killed" \in Harm
         /\ How \in {"plain", "guarded"} => "copy killed" \in Harm
         /\ How \in {"plain", "guarded", "into", "fresh"} => "copy failed" \in Harm
         /\ How = "into" => "build" \in Harm
<1>1. "race" \in Harm /\ "fetch killed" \in Harm
  BY DEF Harm
<1>2. (Git => "revision" \in Harm) /\ (~ Git => "fetch failed" \in Harm)
  BY DEF Harm
<1>3. CASE How = "plain"
  BY <1>1, <1>2, <1>3 DEF Harm, HarmTo
<1>4. CASE How = "guarded"
  BY <1>1, <1>2, <1>4 DEF Harm, HarmTo
<1>5. CASE How = "into"
  BY <1>1, <1>2, <1>5 DEF Harm, HarmTo
<1>6. CASE How = "fresh"
  BY <1>1, <1>2, <1>6 DEF Harm, HarmTo
<1>7. CASE How = "extract"
  BY <1>1, <1>2, <1>7 DEF Harm, HarmTo
<1> QED BY <1>3, <1>4, <1>5, <1>6, <1>7 DEF Hows

\* The tree of another directory.
LEMMA OtherTree ==
  ASSUME NEW v \in Dirs, TreeAt(v), How' = How, ruleAt'[v] = ruleAt[v],
         tree'[v] = tree[v]
  PROVE  TreeAt(v)'
BY DEF TreeAt, Restartable, Unpatched, Finished

LEMMA CheckoutStarts == CheckoutInit => CheckoutInv
<1> SUFFICES ASSUME CheckoutInit PROVE CheckoutInv
  OBVIOUS
<1>1. Git \in BOOLEAN /\ How \in Hows
  BY CheckoutAssumption DEF CheckoutInit, WaysOfRules, Git, How, Hows
<1>2. CheckoutTypes
  BY <1>1 DEF CheckoutInit, CheckoutTypes, NoTree, TreeType, Contents, Places
<1>3. FetchAt /\ SourceAt
  BY CheckoutAssumption DEF CheckoutInit, FetchAt, SourceAt
<1>4. ASSUME NEW w \in Dirs PROVE TreeAt(w)
  BY DEF CheckoutInit, TreeAt, Restartable, NoTree
<1> QED BY <1>2, <1>3, <1>4 DEF CheckoutInv

-----------------------------------------------------------------------------
(* One lemma per action.                                                   *)

LEMMA StartKeeps ==
  ASSUME CheckoutInv, NEW w \in Dirs, StartRule(w) PROVE CheckoutInv'
<1> DEFINE to == IF How = "guarded" /\ tree[w].is # "none" THEN "compile" ELSE "fetch"
<1> USE DEF CheckoutInv
<1>1. /\ way' = way /\ ruleAt[w] = "idle" /\ ruleAt'[w] = to
      /\ ruleAt' \in [Dirs -> Places]
      /\ \A v \in Dirs \ {w} : ruleAt'[v] = ruleAt[v]
      /\ UNCHANGED <<checkout, fetching, tree, mishaps>>
  BY DEF StartRule, srcVars, CheckoutTypes, Places
<1>2. Git' = Git /\ How' = How
  BY <1>1 DEF Git, How
<1>3. Sound' => Sound
  BY <1>1, <1>2 DEF Sound, Harm, HarmTo
<1>4. CheckoutTypes'
  BY <1>1, <1>2 DEF CheckoutTypes
<1>5. FetchAt'
  BY <1>1, <1>2 DEF FetchAt
<1>6. ASSUME Sound PROVE SourceAt'
  BY <1>1, <1>2, <1>6 DEF SourceAt
<1>7. ASSUME Sound, NEW v \in Dirs PROVE TreeAt(v)'
  <2>1. CASE v # w
    BY <1>1, <1>2, <1>7, <2>1, OtherTree
  <2>2. CASE v = w
    <3>1. Restartable(w)
      BY <1>1, <1>7 DEF TreeAt
    <3>2. How \in Hows
      BY DEF CheckoutTypes
    <3>3. (How = "guarded" /\ tree[w].is # "none") => Finished(w)
      BY <3>1 DEF Restartable
    <3>4. (Finished(w) <=> Finished(w)')
      BY <1>1 DEF Finished
    <3>5. ~ (How = "guarded" /\ tree[w].is # "none") => Restartable(w)'
      BY <1>1, <1>2, <3>1, <3>4 DEF Restartable, Finished
    <3> QED BY <1>1, <1>2, <2>2, <3>3, <3>4, <3>5 DEF TreeAt
  <2> QED BY <2>1, <2>2
<1> QED BY <1>3, <1>4, <1>5, <1>6, <1>7

\* While a rule fetches, no tree changes.
LEMMA TreesStay ==
  ASSUME \A v \in Dirs : TreeAt(v), How \in Hows, How' = How, NEW w \in Dirs,
         ruleAt[w] \in {"fetch", "fetching", "checkout"},
         ruleAt'[w] \in {"idle", "fetching", "checkout", "copy"},
         \A v \in Dirs \ {w} : ruleAt'[v] = ruleAt[v],
         tree' = tree
  PROVE  \A v \in Dirs : TreeAt(v)'
<1>1. ASSUME NEW v \in Dirs, v # w PROVE TreeAt(v)'
  BY <1>1, OtherTree
<1>2. TreeAt(w)'
  <2>1. Restartable(w)
    BY DEF TreeAt
  <2>2. How = "guarded" => tree[w].is = "none" /\ ~ tree[w].stamp
    BY <2>1 DEF Restartable
  <2>3. Restartable(w)'
    BY <2>1, <2>2 DEF Restartable, Finished
  <2> QED BY <2>3 DEF TreeAt
<1> QED BY <1>1, <1>2

LEMMA FetchNothingKeeps ==
  ASSUME CheckoutInv, NEW w \in Dirs, FetchNothing(w) PROVE CheckoutInv'
<1> USE DEF CheckoutInv
<1>1. /\ way' = way /\ Git' = Git /\ How' = How /\ Harm' = Harm
      /\ ruleAt[w] = "fetch" /\ ruleAt'[w] = "copy"
      /\ ruleAt' \in [Dirs -> Places]
      /\ \A v \in Dirs \ {w} : ruleAt'[v] = ruleAt[v]
  <2>1. RuleStep(w, "fetch", "copy") /\ "copy" \in Places
    BY DEF FetchNothing, Places
  <2> QED BY <2>1, Stepped
<1>2. checkout # "none" /\ UNCHANGED <<checkout, fetching, tree>>
  BY DEF FetchNothing, srcVars
<1>3. CheckoutTypes'
  BY <1>1, <1>2 DEF CheckoutTypes
<1>4. FetchAt'
  BY <1>1, <1>2 DEF FetchAt
<1>5. ASSUME Sound' PROVE Sound /\ fetching = Nobody
  <2>1. IF fetching # Nobody THEN Mishap("race") ELSE Fine
    BY DEF FetchNothing
  <2> QED BY <1>1, <1>5, <2>1, Recorded, AllFine, Harmful DEF CheckoutTypes
<1>6. ASSUME Sound' PROVE SourceAt'
  BY <1>1, <1>2, <1>5, <1>6 DEF SourceAt
<1>7. ASSUME Sound' PROVE \A v \in Dirs : TreeAt(v)'
  BY <1>1, <1>2, <1>5, <1>7, TreesStay DEF CheckoutTypes
<1> QED BY <1>3, <1>4, <1>6, <1>7

LEMMA FetchBeginKeeps ==
  ASSUME CheckoutInv, NEW w \in Dirs, FetchBegin(w) PROVE CheckoutInv'
<1> USE DEF CheckoutInv
<1>1. /\ way' = way /\ Git' = Git /\ How' = How /\ Harm' = Harm
      /\ ruleAt[w] = "fetch" /\ ruleAt'[w] = "fetching"
      /\ ruleAt' \in [Dirs -> Places]
      /\ \A v \in Dirs \ {w} : ruleAt'[v] = ruleAt[v]
  <2>1. RuleStep(w, "fetch", "fetching") /\ "fetching" \in Places
    BY DEF FetchBegin, Places
  <2> QED BY <2>1, Stepped
<1>2. /\ fetching = Nobody /\ fetching' = w /\ w # Nobody /\ tree' = tree
      /\ checkout' # "none" /\ (checkout = "none" \/ ~ Git)
  BY CheckoutAssumption DEF FetchBegin
<1>3. CheckoutTypes'
  BY <1>1, <1>2 DEF CheckoutTypes, Contents, FetchBegin
<1>4. FetchAt'
  BY <1>1, <1>2, CheckoutAssumption DEF FetchAt
<1>5. Sound' => Sound
  BY <1>1, AllFine DEF FetchBegin
<1>6. ASSUME Sound' PROVE SourceAt'
  BY <1>1, <1>2, <1>5, <1>6 DEF SourceAt
<1>7. ASSUME Sound' PROVE \A v \in Dirs : TreeAt(v)'
  BY <1>1, <1>2, <1>5, <1>7, TreesStay DEF CheckoutTypes
<1> QED BY <1>3, <1>4, <1>6, <1>7

LEMMA FetchEndKeeps ==
  ASSUME CheckoutInv, NEW w \in Dirs, FetchEnd(w) PROVE CheckoutInv'
<1> USE DEF CheckoutInv
<1>1. /\ way' = way /\ Git' = Git /\ How' = How /\ Harm' = Harm
      /\ ruleAt[w] = "fetching" /\ ruleAt'[w] = IF Git THEN "checkout" ELSE "copy"
      /\ ruleAt' \in [Dirs -> Places]
      /\ \A v \in Dirs \ {w} : ruleAt'[v] = ruleAt[v]
  <2>1. RuleStep(w, "fetching", IF Git THEN "checkout" ELSE "copy")
    BY DEF FetchEnd
  <2>2. (IF Git THEN "checkout" ELSE "copy") \in Places
    BY DEF Places
  <2> QED BY <2>1, <2>2, Stepped
<1>2. /\ fetching = w /\ w # Nobody /\ tree' = tree
      /\ checkout' = IF Git THEN "default" ELSE "asked"
      /\ fetching' = IF Git THEN w ELSE Nobody
  BY <1>1, CheckoutAssumption DEF FetchEnd, FetchAt
<1>3. CheckoutTypes'
  BY <1>1, <1>2 DEF CheckoutTypes, Contents, FetchEnd
<1>4. FetchAt'
  BY <1>1, <1>2, CheckoutAssumption DEF FetchAt
<1>5. Sound' => Sound
  BY <1>1, AllFine DEF FetchEnd
<1>6. ASSUME Sound' PROVE SourceAt'
  BY <1>1, <1>2, <1>5, <1>6 DEF SourceAt
<1>7. ASSUME Sound' PROVE \A v \in Dirs : TreeAt(v)'
  BY <1>1, <1>2, <1>5, <1>7, TreesStay DEF CheckoutTypes
<1> QED BY <1>3, <1>4, <1>6, <1>7

LEMMA CheckoutRevisionKeeps ==
  ASSUME CheckoutInv, NEW w \in Dirs, CheckoutRevision(w) PROVE CheckoutInv'
<1> USE DEF CheckoutInv
<1>1. /\ way' = way /\ Git' = Git /\ How' = How /\ Harm' = Harm
      /\ ruleAt[w] = "checkout" /\ ruleAt'[w] = "copy"
      /\ ruleAt' \in [Dirs -> Places]
      /\ \A v \in Dirs \ {w} : ruleAt'[v] = ruleAt[v]
  <2>1. RuleStep(w, "checkout", "copy") /\ "copy" \in Places
    BY DEF CheckoutRevision, Places
  <2> QED BY <2>1, Stepped
<1>2. fetching = w /\ checkout' = "asked" /\ fetching' = Nobody /\ tree' = tree
  BY <1>1 DEF CheckoutRevision, FetchAt
<1>3. CheckoutTypes'
  BY <1>1, <1>2 DEF CheckoutTypes, Contents, CheckoutRevision
<1>4. FetchAt'
  BY <1>1, <1>2, CheckoutAssumption DEF FetchAt
<1>5. Sound' => Sound
  BY <1>1, AllFine DEF CheckoutRevision
<1>6. SourceAt'
  BY <1>1, <1>2 DEF SourceAt
<1>7. ASSUME Sound' PROVE \A v \in Dirs : TreeAt(v)'
  BY <1>1, <1>2, <1>5, <1>7, TreesStay DEF CheckoutTypes
<1> QED BY <1>3, <1>4, <1>6, <1>7

LEMMA FetchFailsKeeps ==
  ASSUME CheckoutInv, NEW w \in Dirs, FetchFails(w) PROVE CheckoutInv'
<1> USE DEF CheckoutInv
<1>1. /\ way' = way /\ Git' = Git /\ How' = How /\ Harm' = Harm
      /\ ruleAt[w] = "fetching" /\ ruleAt'[w] = IF Git THEN "idle" ELSE "copy"
      /\ ruleAt' \in [Dirs -> Places]
      /\ \A v \in Dirs \ {w} : ruleAt'[v] = ruleAt[v]
  <2>1. RuleStep(w, "fetching", IF Git THEN "idle" ELSE "copy")
    BY DEF FetchFails
  <2>2. (IF Git THEN "idle" ELSE "copy") \in Places
    BY DEF Places
  <2> QED BY <2>1, <2>2, Stepped
<1>2. /\ fetching = w /\ w # Nobody /\ fetching' = Nobody /\ tree' = tree
      /\ Git => checkout' = "none"
  BY <1>1, CheckoutAssumption DEF FetchFails, FetchAt
<1>3. CheckoutTypes'
  BY <1>1, <1>2 DEF CheckoutTypes, Contents, FetchFails
<1>4. FetchAt'
  BY <1>1, <1>2, CheckoutAssumption DEF FetchAt
<1>5. ASSUME Sound' PROVE Sound /\ Git
  BY <1>1, <1>5, Recorded, Harmful DEF FetchFails, CheckoutTypes
<1>6. ASSUME Sound' PROVE SourceAt'
  BY <1>1, <1>2, <1>5, <1>6 DEF SourceAt
<1>7. ASSUME Sound' PROVE \A v \in Dirs : TreeAt(v)'
  BY <1>1, <1>2, <1>5, <1>7, TreesStay DEF CheckoutTypes
<1> QED BY <1>3, <1>4, <1>6, <1>7

LEMMA RevisionFailsKeeps ==
  ASSUME CheckoutInv, NEW w \in Dirs, RevisionFails(w) PROVE CheckoutInv'
<1> USE DEF CheckoutInv
<1>1. /\ way' = way /\ Git' = Git /\ How' = How /\ Harm' = Harm
      /\ ruleAt[w] = "checkout" /\ ruleAt'[w] = "idle"
      /\ ruleAt' \in [Dirs -> Places]
      /\ \A v \in Dirs \ {w} : ruleAt'[v] = ruleAt[v]
  <2>1. RuleStep(w, "checkout", "idle") /\ "idle" \in Places
    BY DEF RevisionFails, Places
  <2> QED BY <2>1, Stepped
<1>2. fetching = w /\ fetching' = Nobody /\ UNCHANGED <<checkout, tree>>
  BY <1>1 DEF RevisionFails, FetchAt
<1>3. CheckoutTypes'
  BY <1>1, <1>2 DEF CheckoutTypes
<1>4. FetchAt'
  BY <1>1, <1>2, CheckoutAssumption DEF FetchAt
<1>5. ~ Sound'
  <2>1. Git
    BY <1>1 DEF FetchAt
  <2> QED BY <1>1, <2>1, Recorded, Harmful DEF RevisionFails, CheckoutTypes
<1> QED BY <1>3, <1>4, <1>5

\* A step of the rule in w that leaves the fetching alone and is sound for w's tree.
LEMMA RestOfRule ==
  ASSUME CheckoutInv, NEW w \in Dirs, NEW from, NEW to \in Places,
         RuleStep(w, from, to), UNCHANGED srcVars,
         {from, to} \cap {"fetching", "checkout"} = {}, to # "copy",
         tree' \in [Dirs -> TreeType],
         \A v \in Dirs \ {w} : tree'[v] = tree[v],
         Sound' => Sound /\ TreeAt(w)'
  PROVE  CheckoutInv'
<1> USE DEF CheckoutInv
<1>1. /\ Git' = Git /\ How' = How
      /\ ruleAt[w] = from /\ ruleAt'[w] = to
      /\ ruleAt' \in [Dirs -> Places]
      /\ \A v \in Dirs \ {w} : ruleAt'[v] = ruleAt[v]
  BY Stepped
<1>2. UNCHANGED <<checkout, fetching>>
  BY DEF srcVars
<1>3. CheckoutTypes'
  BY <1>1, <1>2 DEF CheckoutTypes
<1>4. FetchAt'
  BY <1>1, <1>2 DEF FetchAt
<1>5. ASSUME Sound' PROVE SourceAt'
  BY <1>1, <1>2, <1>5 DEF SourceAt
<1>6. ASSUME Sound', NEW v \in Dirs PROVE TreeAt(v)'
  BY <1>1, <1>6, OtherTree
<1> QED BY <1>3, <1>4, <1>5, <1>6

LEMMA CopiedType ==
  ASSUME CheckoutTypes, NEW w \in Dirs, NEW c \in Contents
  PROVE  /\ Copied(w, c) \in TreeType
         /\ [Copied(w, c) EXCEPT !.extracted = FALSE] \in TreeType
BY DEF CheckoutTypes, Copied, TreeType

LEMMA CopyTreeKeeps ==
  ASSUME CheckoutInv, NEW w \in Dirs, CopyTree(w) PROVE CheckoutInv'
<1> USE DEF CheckoutInv
<1>1. RuleStep(w, "copy", "patch") /\ "patch" \in Places /\ UNCHANGED srcVars
  BY DEF CopyTree, Places
<1>2. Git' = Git /\ How' = How /\ Harm' = Harm /\ ruleAt[w] = "copy" /\ ruleAt'[w] = "patch"
  BY <1>1, Stepped
<1>3. tree' = IF Copies(w) THEN [tree EXCEPT ![w] = Copied(w, checkout)] ELSE tree
  BY DEF CopyTree
<1>4. tree' \in [Dirs -> TreeType] /\ \A v \in Dirs \ {w} : tree'[v] = tree[v]
  BY <1>3, CopiedType DEF CheckoutTypes
<1>5. ASSUME Sound' PROVE Sound /\ fetching = Nobody
  <2>1. IF fetching # Nobody THEN Mishap("race") ELSE Fine
    BY DEF CopyTree
  <2> QED BY <1>2, <1>5, <2>1, Recorded, AllFine, Harmful DEF CheckoutTypes
<1>6. ASSUME Sound' PROVE TreeAt(w)'
  <2>1. checkout = "asked"
    BY <1>2, <1>5, <1>6 DEF SourceAt
  <2>2. Restartable(w)
    BY <1>2, <1>5, <1>6 DEF TreeAt
  <2>3. CASE Copies(w)
    <3>1. tree'[w] = Copied(w, "asked")
      BY <1>3, <2>1, <2>3 DEF CheckoutTypes
    <3>2. How # "fresh" => ~ tree[w].stamp
      BY <2>2, <2>3 DEF Restartable, Copies, Finished, CheckoutTypes, Hows
    <3>3. Unpatched(w)' /\ (How = "extract" => tree'[w].extracted)
      <4>1. /\ tree'[w].is = "asked" /\ tree'[w].patched = "no"
            /\ tree'[w].stamp = (How # "fresh" /\ tree[w].stamp)
            /\ tree'[w].extracted = (How = "extract")
        BY <3>1 DEF Copied
      <4> QED BY <3>2, <4>1 DEF Unpatched
    <3> QED BY <1>2, <3>3 DEF TreeAt
  <2>4. CASE ~ Copies(w)
    <3>1. tree' = tree
      BY <1>3, <2>4
    <3>2. /\ How \in {"plain", "extract"} /\ Finished(w)
          /\ How = "extract" => tree[w].extracted
      BY <1>2, <2>2, <2>4 DEF Restartable, Copies, CheckoutTypes, Hows
    <3> QED BY <1>2, <3>1, <3>2 DEF TreeAt, Finished
  <2> QED BY <2>3, <2>4
<1> QED BY <1>1, <1>4, <1>5, <1>6, RestOfRule

\* A copy that was cut off is made again: by extract, which does not trust it, and
\* by the rules that overwrite it.
LEMMA CutOff ==
  ASSUME CheckoutInv, NEW w \in Dirs, Restartable(w), Copies(w), How' = How,
         ruleAt'[w] = "idle", How \notin {"plain", "guarded"},
         tree' = [tree EXCEPT ![w] = [Copied(w, "short") EXCEPT !.extracted = FALSE]]
  PROVE  TreeAt(w)'
<1>1. /\ tree'[w].stamp = (How # "fresh" /\ tree[w].stamp)
      /\ ~ tree'[w].extracted
  BY DEF CheckoutInv, CheckoutTypes, Copied
<1>2. ~ tree'[w].stamp
  BY <1>1 DEF Restartable, Copies, CheckoutInv, CheckoutTypes, Hows
<1>3. Restartable(w)'
  BY <1>1, <1>2 DEF Restartable
<1> QED BY <1>3 DEF TreeAt

LEMMA CopyFailsKeeps ==
  ASSUME CheckoutInv, NEW w \in Dirs, CopyFails(w) PROVE CheckoutInv'
<1> DEFINE to == IF How = "extract" THEN "idle" ELSE "patch"
<1> USE DEF CheckoutInv
<1>1. /\ RuleStep(w, "copy", to) /\ to \in Places /\ UNCHANGED srcVars
      /\ Copies(w) /\ Mishap("copy failed")
      /\ tree' = [tree EXCEPT ![w] = [Copied(w, "short") EXCEPT !.extracted = FALSE]]
  BY DEF CopyFails, Places
<1>2. How' = How /\ Harm' = Harm /\ ruleAt[w] = "copy" /\ ruleAt'[w] = to
  <2> HIDE DEF to
  <2> QED BY <1>1, Stepped
<1>3. tree' \in [Dirs -> TreeType] /\ \A v \in Dirs \ {w} : tree'[v] = tree[v]
  BY <1>1, CopiedType DEF CheckoutTypes, Contents
<1>4. ASSUME Sound' PROVE Sound /\ How = "extract"
  BY <1>1, <1>2, <1>4, Recorded, Harmful DEF CheckoutTypes, Hows
<1>5. ASSUME Sound' PROVE TreeAt(w)'
  <2>1. Restartable(w)
    BY <1>2, <1>4, <1>5 DEF TreeAt
  <2> QED BY <1>1, <1>2, <1>4, <1>5, <2>1, CutOff
<1> QED BY <1>1, <1>3, <1>4, <1>5, RestOfRule

LEMMA PatchKeeps ==
  ASSUME CheckoutInv, NEW w \in Dirs, Patch(w) PROVE CheckoutInv'
<1> DEFINE new == [tree[w] EXCEPT
                     !.patched = IF tree[w].stamp THEN @
                                 ELSE IF @ = "no" THEN "yes" ELSE "part",
                     !.stamp = TRUE]
<1> USE DEF CheckoutInv
<1>1. /\ RuleStep(w, "patch", "compile") /\ "compile" \in Places /\ UNCHANGED srcVars
      /\ Fine
  BY DEF Patch, Places
<1>2. How' = How /\ Harm' = Harm /\ ruleAt[w] = "patch" /\ ruleAt'[w] = "compile"
  BY <1>1, Stepped
<1>3. new \in TreeType
  BY DEF CheckoutTypes, TreeType
<1>4. tree'[w] = new /\ \A v \in Dirs \ {w} : tree'[v] = tree[v]
  BY DEF Patch, CheckoutTypes, TreeType
<1>5. tree' \in [Dirs -> TreeType]
  <2>1. DOMAIN tree' = Dirs /\ tree' = [v \in Dirs |-> tree'[v]]
    BY DEF Patch, CheckoutTypes
  <2> QED BY <1>3, <1>4, <2>1 DEF CheckoutTypes
<1>6. Sound' => Sound
  BY <1>1, <1>2, AllFine
<1>7. ASSUME Sound' PROVE TreeAt(w)'
  <2>1. Unpatched(w) \/ Finished(w)
    BY <1>2, <1>6, <1>7 DEF TreeAt
  <2>2. Finished(w)'
    BY <1>4, <2>1 DEF Unpatched, Finished, CheckoutTypes, TreeType
  <2>3. How = "extract" => tree'[w].extracted
    BY <1>2, <1>4, <1>6, <1>7 DEF TreeAt, CheckoutTypes, TreeType
  <2> QED BY <1>2, <2>2, <2>3 DEF TreeAt
<1> QED BY <1>1, <1>4, <1>5, <1>6, <1>7, RestOfRule

LEMMA CompileKeeps ==
  ASSUME CheckoutInv, NEW w \in Dirs, Compile(w) PROVE CheckoutInv'
<1> USE DEF CheckoutInv
<1>1. /\ RuleStep(w, "compile", "installed") /\ "installed" \in Places
      /\ UNCHANGED srcVars /\ Fine /\ tree' = tree
  BY DEF Compile, Places
<1>2. How' = How /\ Harm' = Harm /\ ruleAt[w] = "compile" /\ ruleAt'[w] = "installed"
  BY <1>1, Stepped
<1>3. Sound' => Sound
  BY <1>1, <1>2, AllFine
<1>4. ASSUME Sound' PROVE TreeAt(w)'
  BY <1>1, <1>2, <1>3, <1>4 DEF TreeAt, Finished
<1> QED BY <1>1, <1>3, <1>4, RestOfRule DEF CheckoutTypes

\* A build that stops leaves a tree that is as good as new, except to a rule that
\* copies into it.
LEMMA BuildStops ==
  ASSUME CheckoutInv, NEW w \in Dirs, RuleStep(w, "compile", "idle"),
         Mishap("build"), UNCHANGED <<srcVars, tree>>
  PROVE  CheckoutInv'
<1> USE DEF CheckoutInv
<1>1. "idle" \in Places /\ UNCHANGED srcVars /\ tree' = tree
  BY DEF Places
<1>2. How' = How /\ Harm' = Harm /\ ruleAt[w] = "compile" /\ ruleAt'[w] = "idle"
  BY <1>1, Stepped
<1>3. ASSUME Sound' PROVE Sound /\ How # "into"
  BY <1>2, <1>3, Recorded, Harmful DEF CheckoutTypes
<1>4. ASSUME Sound' PROVE TreeAt(w)'
  <2>1. Finished(w) /\ (How = "extract" => tree[w].extracted)
    BY <1>2, <1>3, <1>4 DEF TreeAt
  <2>2. Restartable(w)'
    BY <1>1, <1>2, <1>3, <1>4, <2>1 DEF Restartable, Finished
  <2> QED BY <1>2, <2>2 DEF TreeAt
<1> QED BY <1>1, <1>3, <1>4, RestOfRule DEF CheckoutTypes

\* A fetch that is killed is harmful; so is one that checked nothing out.
LEMMA FetchStops ==
  ASSUME CheckoutInv, NEW w \in Dirs, NEW from \in {"fetching", "checkout"},
         RuleStep(w, from, "idle"), fetching' = Nobody, checkout' \in Contents,
         tree' = tree, Mishap(IF from = "fetching" THEN "fetch killed" ELSE "revision")
  PROVE  CheckoutInv'
<1> USE DEF CheckoutInv
<1>1. "idle" \in Places
  BY DEF Places
<1>2. /\ Git' = Git /\ How' = How /\ Harm' = Harm /\ ruleAt[w] = from /\ ruleAt'[w] = "idle"
      /\ ruleAt' \in [Dirs -> Places]
      /\ \A v \in Dirs \ {w} : ruleAt'[v] = ruleAt[v]
  BY <1>1, Stepped
<1>3. CheckoutTypes'
  BY <1>2 DEF CheckoutTypes
<1>4. FetchAt'
  BY <1>2, CheckoutAssumption DEF FetchAt
<1>5. ~ Sound'
  <2>1. from = "checkout" => Git
    BY <1>2 DEF FetchAt
  <2>2. (IF from = "fetching" THEN "fetch killed" ELSE "revision") \in Harm
    BY <2>1, Harmful DEF CheckoutTypes
  <2> QED BY <1>2, <2>2, Recorded
<1> QED BY <1>3, <1>4, <1>5

LEMMA KillRuleKeeps ==
  ASSUME CheckoutInv, NEW w \in Dirs, KillRule(w) PROVE CheckoutInv'
<1> USE DEF CheckoutInv
<1>1. ASSUME RuleStep(w, "fetching", "idle"), Mishap("fetch killed"), fetching' = Nobody,
             checkout' \in {"short", checkout}, tree' = tree
      PROVE  CheckoutInv'
  <2>1. checkout' \in Contents
    BY <1>1 DEF CheckoutTypes, Contents
  <2> QED BY <1>1, <2>1, FetchStops
<1>2. ASSUME RuleStep(w, "checkout", "idle"), Mishap("revision"), fetching' = Nobody,
             checkout' \in {"short", "default"}, tree' = tree
      PROVE  CheckoutInv'
  <2>1. checkout' \in Contents
    BY <1>2 DEF Contents
  <2> QED BY <1>2, <2>1, FetchStops
<1>3. ASSUME RuleStep(w, "copy", "idle"), Copies(w), Mishap("copy killed"),
             tree' = [tree EXCEPT ![w] = [Copied(w, "short") EXCEPT !.extracted = FALSE]],
             UNCHANGED srcVars
      PROVE  CheckoutInv'
  <2>1. "idle" \in Places
    BY DEF Places
  <2>2. How' = How /\ Harm' = Harm /\ ruleAt[w] = "copy" /\ ruleAt'[w] = "idle"
    BY <1>3, <2>1, Stepped
  <2>3. tree' \in [Dirs -> TreeType] /\ \A v \in Dirs \ {w} : tree'[v] = tree[v]
    BY <1>3, CopiedType DEF CheckoutTypes, Contents
  <2>4. ASSUME Sound' PROVE Sound /\ How \notin {"plain", "guarded"}
    BY <1>3, <2>2, <2>4, Recorded, Harmful DEF CheckoutTypes
  <2>5. ASSUME Sound' PROVE TreeAt(w)'
    <3>1. Restartable(w)
      BY <2>2, <2>4, <2>5 DEF TreeAt
    <3> QED BY <1>3, <2>2, <2>4, <2>5, <3>1, CutOff
  <2> QED BY <1>3, <2>1, <2>3, <2>4, <2>5, RestOfRule
<1>4. ASSUME RuleStep(w, "patch", "idle"), ~ tree[w].stamp, Mishap("patch killed"),
             tree' = [tree EXCEPT ![w].patched = "part"], UNCHANGED srcVars
      PROVE  CheckoutInv'
  <2>1. "idle" \in Places
    BY DEF Places
  <2>2. How' = How /\ Harm' = Harm /\ ruleAt[w] = "patch" /\ ruleAt'[w] = "idle"
    BY <1>4, <2>1, Stepped
  <2>3. /\ tree' \in [Dirs -> TreeType] /\ \A v \in Dirs \ {w} : tree'[v] = tree[v]
        /\ tree'[w].stamp = tree[w].stamp
    BY <1>4 DEF CheckoutTypes, TreeType
  <2>4. ASSUME Sound' PROVE Sound /\ How \in {"into", "fresh"}
    BY <1>4, <2>2, <2>4, Recorded, Harmful DEF CheckoutTypes, Hows
  <2>5. ASSUME Sound' PROVE TreeAt(w)'
    BY <1>4, <2>2, <2>3, <2>4, <2>5 DEF TreeAt, Restartable
  <2> QED BY <1>4, <2>1, <2>3, <2>4, <2>5, RestOfRule
<1>5. ASSUME RuleStep(w, "compile", "idle"), Mishap("build"), UNCHANGED <<srcVars, tree>>
      PROVE  CheckoutInv'
  BY <1>5, BuildStops
<1> QED BY <1>1, <1>2, <1>3, <1>4, <1>5 DEF KillRule

-----------------------------------------------------------------------------

\* InstalledAsAsked: for every way of copying, what the table Harm does not name is
\* survived, however often and in how many clones it happens (download_git,
\* download_svn, apply_patches and the cp of the rules).
THEOREM InstalledAsAskedSafe == CheckoutSpec => []InstalledAsAsked
<1>1. CheckoutInv /\ [CheckoutNext]_checkoutVars => CheckoutInv'
  <2> SUFFICES ASSUME CheckoutInv, [CheckoutNext]_checkoutVars PROVE CheckoutInv'
    OBVIOUS
  <2>1. ASSUME NEW w \in Dirs, CompileFails(w) PROVE CheckoutInv'
    BY <2>1, BuildStops DEF CompileFails
  <2>2. CASE UNCHANGED checkoutVars
    BY <2>2 DEF checkoutVars, srcVars, CheckoutInv, CheckoutTypes, FetchAt, SourceAt,
       Sound, Harm, HarmTo, TreeAt, Restartable, Unpatched, Finished, Git, How
  <2> QED
    BY <2>1, <2>2, StartKeeps, FetchNothingKeeps, FetchBeginKeeps, FetchEndKeeps,
       CheckoutRevisionKeeps, CopyTreeKeeps, PatchKeeps, CompileKeeps, FetchFailsKeeps,
       RevisionFailsKeeps, CopyFailsKeeps, KillRuleKeeps
       DEF CheckoutNext
<1>2. CheckoutInv => InstalledAsAsked
  BY DEF CheckoutInv, Sound, TreeAt, Finished, InstalledAsAsked
<1> QED BY CheckoutStarts, <1>1, <1>2, PTL DEF CheckoutSpec

-----------------------------------------------------------------------------
(* dancesplash: types.                                                     *)

USE SplashAssumption DEF Process, Segs, shm

\* What TypeOK says of the places processes are at.
PlaceOK ==
  /\ pc \in [Process -> Phases \cup DaemonPhases]
  /\ \A s \in Scripts : pc[s] \in Phases
  /\ pc[Daemon] \in DaemonPhases
  /\ at \in [Process -> 0 .. MaxStarts]
  /\ \A s \in Scripts : pc[s] \in Phases \ {"idle", "open"} => at[s] \in Segs
  /\ pc[Daemon] \in DaemonPhases \ {"idle", "open"} => at[Daemon] \in Segs
  /\ pc[Daemon] # "idle" => starts \in Segs

\* What it says of the rest.
DataOK ==
  /\ msg \in [Scripts -> Message]
  /\ current \in 0 .. MaxStarts
  /\ sem \in [Segs -> Nat]
  /\ data \in [Segs -> Message \cup {Empty}]
  /\ inits \in [Segs -> Nat]
  /\ starts \in 0 .. MaxStarts
  /\ calls \in 0 .. MaxCalls

LEMMA TwoParts == TypeOK <=> PlaceOK /\ DataOK
BY DEF TypeOK, PlaceOK, DataOK

LEMMA InitTypes == Init => TypeOK
<1> SUFFICES ASSUME Init PROVE PlaceOK /\ DataOK
  BY TwoParts
<1>1. PlaceOK
  BY DEF Init, PlaceOK, Phases, DaemonPhases
<1>2. \A s \in Scripts : msg[s] \in Message
  BY DEF Init, Message
<1>3. msg \in [Scripts -> Message]
  BY <1>2 DEF Init
<1> QED BY <1>1, <1>3 DEF Init, DataOK

\* A script that goes from one place to the next.
LEMMA ScriptPlace ==
  ASSUME PlaceOK, NEW s \in Scripts, NEW from, NEW to \in Phases, Goto(s, from, to),
         UNCHANGED starts,
         \/ UNCHANGED at /\ (to \in {"idle", "open"} \/ from \in Phases \ {"idle", "open"})
         \/ \E n \in 0 .. MaxStarts : /\ at' = [at EXCEPT ![s] = n]
                                      /\ n = 0 => to = "idle"
  PROVE  PlaceOK'
<1>1. /\ pc' \in [Process -> Phases \cup DaemonPhases]
      /\ pc'[s] = to
      /\ \A p \in Process \ {s} : pc'[p] = pc[p]
  BY DEF PlaceOK, Goto
<1>2. at' \in [Process -> 0 .. MaxStarts] /\ \A p \in Process \ {s} : at'[p] = at[p]
  BY DEF PlaceOK
<1>3. to \in Phases \ {"idle", "open"} => at'[s] \in Segs
  BY DEF PlaceOK, Goto
<1> QED BY <1>1, <1>2, <1>3 DEF PlaceOK

LEMMA ScriptTypes ==
  ASSUME TypeOK, NEW s \in Scripts, Call(s) \/ Update(s) \/ Awake(s)
  PROVE  TypeOK'
<1>0. PlaceOK /\ DataOK
  BY TwoParts
<1> SUFFICES PlaceOK' /\ DataOK'
  BY DEF TypeOK, PlaceOK, DataOK
<1>a. pc[s] \in Phases \ {"idle", "open"} => at[s] \in Segs
  BY <1>0 DEF PlaceOK
<1> USE DEF Phases, DataOK, Stays
<1>1. CASE Call(s)
  <2>1. msg' \in [Scripts -> Message] /\ calls' \in 0 .. MaxCalls
    BY <1>0, <1>1 DEF Call, Message
  <2>2. Goto(s, "idle", "open") /\ UNCHANGED <<at, shm, starts>>
    BY <1>1 DEF Call
  <2>3. PlaceOK'
    BY <1>0, <2>2, ScriptPlace
  <2> QED BY <1>0, <2>1, <2>2, <2>3
<1>2. CASE NoSplash(s)
  <2>1. Goto(s, "open", "idle") /\ UNCHANGED <<at, shm, msg, starts, calls>>
    BY <1>2 DEF NoSplash
  <2>2. PlaceOK'
    BY <1>0, <2>1, ScriptPlace
  <2> QED BY <1>0, <2>1, <2>2
<1>3. CASE OpenShared(s)
  <2>1. /\ Goto(s, "open", "test") /\ UNCHANGED <<shm, msg, starts, calls>>
        /\ at' = [at EXCEPT ![s] = current] /\ current \in 0 .. MaxStarts /\ current # 0
    BY <1>0, <1>3 DEF OpenShared, Attach
  <2>2. PlaceOK'
    BY <1>0, <2>1, ScriptPlace
  <2> QED BY <1>0, <2>1, <2>2
<1>4. CASE SeesEmpty(s)
  <2>1. Goto(s, "test", "wait") /\ UNCHANGED <<at, shm, msg, starts, calls>>
    BY <1>4 DEF SeesEmpty
  <2>2. PlaceOK'
    BY <1>0, <2>1, ScriptPlace
  <2> QED BY <1>0, <2>1, <2>2
<1>5. CASE Wait(s, "copy")
  <2>1. /\ Goto(s, "wait", "copy") /\ UNCHANGED <<at, current, data, inits, msg, starts, calls>>
        /\ sem' \in [Segs -> Nat]
    BY <1>0, <1>5, <1>a DEF Wait, Goto
  <2>2. PlaceOK'
    BY <1>0, <2>1, ScriptPlace
  <2> QED BY <1>0, <2>1, <2>2
<1>6. CASE Copy(s)
  <2>1. /\ Goto(s, "copy", "post") /\ UNCHANGED <<at, current, sem, inits, msg, starts, calls>>
        /\ data' \in [Segs -> Message \cup {Empty}]
    BY <1>0, <1>6 DEF Copy
  <2>2. PlaceOK'
    BY <1>0, <2>1, ScriptPlace
  <2> QED BY <1>0, <2>1, <2>2
<1>7. CASE Return(s)
  <2>1. /\ Goto(s, "post", "idle") /\ UNCHANGED <<current, data, inits, msg, starts, calls>>
        /\ at' = [at EXCEPT ![s] = 0] /\ 0 \in 0 .. MaxStarts
        /\ sem' \in [Segs -> Nat]
    BY <1>0, <1>7, <1>a DEF Return, Post, Attach, Goto
  <2>2. PlaceOK'
    BY <1>0, <2>1, ScriptPlace
  <2> QED BY <1>0, <2>1, <2>2
<1>8. CASE Awake(s)
  <2>1. Goto(s, "asleep", "wait") /\ UNCHANGED <<at, shm, msg, starts, calls>>
    BY <1>8 DEF Awake
  <2>2. PlaceOK'
    BY <1>0, <2>1, ScriptPlace
  <2> QED BY <1>0, <2>1, <2>2
<1> QED BY <1>1, <1>2, <1>3, <1>4, <1>5, <1>6, <1>7, <1>8 DEF Update

\* The daemon, when it goes from one place to the next.
LEMMA DaemonPlace ==
  ASSUME PlaceOK, NEW from, NEW to \in DaemonPhases, Goto(Daemon, from, to),
         from = "idle" => starts' \in Segs,
         from # "idle" => UNCHANGED starts,
         \/ UNCHANGED at /\ (to \in {"idle", "open"} \/ from \in DaemonPhases \ {"idle", "open"})
         \/ \E n \in 0 .. MaxStarts : /\ at' = [at EXCEPT ![Daemon] = n]
                                      /\ n = 0 => to = "idle"
  PROVE  PlaceOK'
<1>1. /\ pc' \in [Process -> Phases \cup DaemonPhases]
      /\ pc'[Daemon] = to
      /\ \A s \in Scripts : pc'[s] = pc[s]
  BY DEF PlaceOK, Goto
<1>2. at' \in [Process -> 0 .. MaxStarts] /\ \A s \in Scripts : at'[s] = at[s]
  BY DEF PlaceOK
<1>3. to \in DaemonPhases \ {"idle", "open"} => at'[Daemon] \in Segs
  BY DEF PlaceOK, Goto
<1>4. to # "idle" => starts' \in Segs
  BY DEF PlaceOK, Goto
<1> QED BY <1>1, <1>2, <1>3, <1>4 DEF PlaceOK

LEMMA ServeTypes ==
  ASSUME TypeOK, Serve \/ Start \/ UiFails \/ Leave
  PROVE  TypeOK'
<1>0. PlaceOK /\ DataOK
  BY TwoParts
<1> SUFFICES PlaceOK' /\ DataOK'
  BY DEF TypeOK, PlaceOK, DataOK
<1>a. pc[Daemon] \in DaemonPhases \ {"idle", "open"} => at[Daemon] \in Segs
  BY <1>0 DEF PlaceOK
<1> USE DEF DaemonPhases, DataOK, Stays
<1>1. CASE CreateShared
  <2>1. Goto(Daemon, "open", "init") /\ UNCHANGED <<sem, data, inits, msg, starts, calls>>
    BY <1>1 DEF CreateShared
  <2>2. starts \in Segs
    BY <1>0, <2>1 DEF PlaceOK, Goto
  <2>3. current' \in Segs /\ at' = [at EXCEPT ![Daemon] = current']
    <3>1. starts \in 1 .. MaxStarts /\ current \in 0 .. MaxStarts
      BY <1>0, <2>2
    <3>2. current' = IF current = 0 THEN starts ELSE current
      BY <1>1 DEF CreateShared
    <3>3. at' = [at EXCEPT ![Daemon] = current']
      BY <1>1 DEF CreateShared, Attach
    <3> QED BY <3>1, <3>2, <3>3
  <2>4. PlaceOK'
    <3>0. current' \in 0 .. MaxStarts /\ current' # 0
      BY <2>3
    <3>1. \E n \in 0 .. MaxStarts :
            at' = [at EXCEPT ![Daemon] = n] /\ (n = 0 => "init" = "idle")
      <4> USE <3>0
      <4> WITNESS current' \in 0 .. MaxStarts
      <4> QED BY <2>3, <3>0
    <3>2. UNCHANGED starts
      BY <2>1
    <3> QED BY <1>0, <2>1, <3>1, <3>2, DaemonPlace
  <2> QED BY <1>0, <2>1, <2>3, <2>4
<1>2. CASE InitSem
  <2>1. /\ pc[Daemon] = "init" /\ at[Daemon] \in Segs
        /\ UNCHANGED <<at, current, data, msg, starts, calls>>
    BY <1>2, <1>a DEF InitSem
  <2>2. sem' \in [Segs -> Nat] /\ inits' \in [Segs -> Nat]
    BY <1>0, <1>2, <2>1 DEF InitSem
  <2>3. PICK lost \in SUBSET {s \in Scripts : pc[s] = "wait" /\ at[s] = at[Daemon]} :
          pc' = [p \in Process |-> IF p = Daemon THEN "clear"
                                   ELSE IF p \in lost THEN "asleep" ELSE pc[p]]
    BY <1>2 DEF InitSem
  <2>4. pc'[Daemon] = "clear"
    BY <2>3
  <2>5. \A r \in Scripts : pc'[r] = pc[r] \/ (pc'[r] = "asleep" /\ pc[r] = "wait")
    BY <2>3
  <2>6. \A r \in Process : pc'[r] \in Phases \cup DaemonPhases
    BY <1>0, <2>4, <2>5 DEF PlaceOK, Phases
  <2>7. pc' \in [Process -> Phases \cup DaemonPhases]
    BY <2>3, <2>6
  <2>8. PlaceOK'
    BY <1>0, <2>1, <2>4, <2>5, <2>7 DEF PlaceOK, Phases
  <2> QED BY <1>0, <2>1, <2>2, <2>8
<1>3. CASE ClearBuffer \/ Wipe
  <2>1. /\ Goto(Daemon, "clear", "ui") \/ Goto(Daemon, "wipe", "post")
        /\ UNCHANGED <<at, current, sem, inits, msg, starts, calls>>
        /\ data' \in [Segs -> Message \cup {Empty}]
    BY <1>0, <1>3 DEF ClearBuffer, Wipe
  <2>2. PlaceOK'
    BY <1>0, <2>1, DaemonPlace
  <2> QED BY <1>0, <2>1, <2>2
<1>4. CASE UiReady
  <2>1. Goto(Daemon, "ui", "loop") /\ UNCHANGED <<at, shm, msg, starts, calls>>
    BY <1>4 DEF UiReady
  <2>2. PlaceOK'
    BY <1>0, <2>1, DaemonPlace
  <2> QED BY <1>0, <2>1, <2>2
<1>5. CASE SeesMessage
  <2>1. Goto(Daemon, "loop", "wait") /\ UNCHANGED <<at, shm, msg, starts, calls>>
    BY <1>5 DEF SeesMessage
  <2>2. PlaceOK'
    BY <1>0, <2>1, DaemonPlace
  <2> QED BY <1>0, <2>1, <2>2
<1>6. CASE Wait(Daemon, "read")
  <2>1. Goto(Daemon, "wait", "read") /\ UNCHANGED <<at, current, data, inits, msg, starts, calls>>
    BY <1>6 DEF Wait
  <2>2. sem' \in [Segs -> Nat]
    BY <1>0, <1>6, <1>a DEF Wait, Goto
  <2>3. PlaceOK'
    BY <1>0, <2>1, DaemonPlace
  <2> QED BY <1>0, <2>1, <2>2, <2>3
<1>7. CASE ReadQuit
  <2>1. Goto(Daemon, "read", "close") /\ UNCHANGED <<at, shm, msg, starts, calls>>
    BY <1>7 DEF ReadQuit
  <2>2. PlaceOK'
    BY <1>0, <2>1, DaemonPlace
  <2> QED BY <1>0, <2>1, <2>2
<1>8. CASE Show
  <2>1. Goto(Daemon, "read", "wipe") /\ UNCHANGED <<at, shm, msg, starts, calls>>
    BY <1>8 DEF Show
  <2>2. PlaceOK'
    BY <1>0, <2>1, DaemonPlace
  <2> QED BY <1>0, <2>1, <2>2
<1>9. CASE Unlock
  <2>1. Goto(Daemon, "post", "loop") /\ UNCHANGED <<at, current, data, inits, msg, starts, calls>>
    BY <1>9 DEF Unlock
  <2>2. sem' \in [Segs -> Nat]
    BY <1>0, <1>9, <1>a DEF Unlock, Post, Goto
  <2>3. PlaceOK'
    BY <1>0, <2>1, DaemonPlace
  <2> QED BY <1>0, <2>1, <2>2, <2>3
<1>10. CASE Close \/ UiFails
  <2>1. /\ Goto(Daemon, "close", "idle") \/ Goto(Daemon, "ui", "idle")
        /\ UNCHANGED <<sem, data, inits, msg, starts, calls>>
        /\ at' = [at EXCEPT ![Daemon] = 0] /\ 0 \in 0 .. MaxStarts
        /\ current' \in {0, current}
    BY <1>10 DEF Close, UiFails, Attach
  <2>2. PlaceOK'
    BY <1>0, <2>1, DaemonPlace
  <2> QED BY <1>0, <2>1, <2>2
<1>11. CASE Start
  <2>1. Goto(Daemon, "idle", "open") /\ UNCHANGED <<at, shm, msg, calls>>
    BY <1>11 DEF Start
  <2>2. starts' \in Segs
    BY <1>0, <1>11 DEF Start
  <2>3. PlaceOK'
    BY <1>0, <2>1, <2>2, DaemonPlace
  <2> QED BY <1>0, <2>1, <2>2, <2>3
<1>12. CASE Leave
  <2>1. Goto(Daemon, "loop", "close") /\ UNCHANGED <<at, shm, msg, starts, calls>>
    BY <1>12 DEF Leave
  <2>2. PlaceOK'
    BY <1>0, <2>1, DaemonPlace
  <2> QED BY <1>0, <2>1, <2>2
<1> QED BY <1>1, <1>2, <1>3, <1>4, <1>5, <1>6, <1>7, <1>8, <1>9, <1>10, <1>11,
            <1>12 DEF Serve

LEMMA StepTypes == TypeOK /\ [Next]_vars => TypeOK'
<1>1. TypeOK /\ Next => TypeOK'
  BY ScriptTypes, ServeTypes DEF Next
<1>2. TypeOK /\ UNCHANGED vars => TypeOK'
  BY DEF TypeOK, vars
<1> QED BY <1>1, <1>2

\* Every variable of dancesplash keeps its type: a program has a segment
\* attached from shmget to shmdt (main.c:126-135).
THEOREM SplashTypesSafe == Spec => []TypeOK
BY InitTypes, StepTypes, PTL DEF Spec

-----------------------------------------------------------------------------
(* One user of a buffer at a time.  The semaphore of a segment that was     *)
(* initialised at most once is 0 or 1, and 0 while somebody is inside; before *)
(* it is initialised it is 0 and nobody gets in.                            *)

Critical == {"copy", "read", "wipe", "post"}

LockOK ==
  \A n \in Segs : inits[n] <= 1 =>
    /\ sem[n] <= 1
    /\ inits[n] = 0 => sem[n] = 0
    /\ \A p \in Process : at[p] = n /\ pc[p] \in Critical =>
         /\ sem[n] = 0
         /\ inits[n] = 1
         /\ \A q \in Process : at[q] = n /\ pc[q] \in Critical => q = p

LEMMA LockSuffices == LockOK => OneInside
BY DEF LockOK, OneInside, Inside, Critical

\* A step on which nobody enters or leaves and no semaphore changes.
LEMMA LockUntouched ==
  ASSUME LockOK, UNCHANGED <<sem, inits>>,
         \A p \in Process : pc'[p] \in Critical => pc[p] \in Critical /\ at'[p] = at[p]
  PROVE  LockOK'
BY DEF LockOK

\* sem_wait: the process that gets in finds nobody.
LEMMA LockTaken ==
  ASSUME TypeOK, LockOK, NEW p \in Process, NEW to \in Critical, Wait(p, to)
  PROVE  LockOK'
<1> DEFINE n == at[p]
<1>1. n \in Segs /\ pc[p] = "wait"
  BY DEF Wait, Goto, TypeOK, Phases, DaemonPhases
<1>2. /\ sem[n] > 0 /\ sem'[n] = sem[n] - 1
      /\ \A m \in Segs \ {n} : sem'[m] = sem[m]
      /\ UNCHANGED <<inits, at>>
  BY <1>1 DEF Wait, TypeOK
<1>3. \A q \in Process \ {p} : pc'[q] = pc[q]
  BY DEF Wait, Goto, TypeOK
<1>4. sem[n] \in Nat /\ inits[n] \in Nat
  BY <1>1 DEF TypeOK
<1>5. \A m \in Segs \ {n} : \A q \in Process : at[q] = m => q # p
  OBVIOUS
<1> SUFFICES ASSUME NEW m \in Segs, inits[m] <= 1
             PROVE  /\ sem'[m] <= 1
                    /\ inits[m] = 0 => sem'[m] = 0
                    /\ \A r \in Process : at[r] = m /\ pc'[r] \in Critical =>
                         /\ sem'[m] = 0
                         /\ inits[m] = 1
                         /\ \A q \in Process : at[q] = m /\ pc'[q] \in Critical => q = r
  BY <1>2 DEF LockOK
<1>6. CASE m # n
  BY <1>2, <1>3, <1>5, <1>6 DEF LockOK
<1>7. CASE m = n
  <2>1. sem[n] = 1 /\ sem'[n] = 0 /\ inits[n] = 1
    BY <1>1, <1>2, <1>4, <1>7 DEF LockOK
  <2>2. \A q \in Process \ {p} : at[q] = n => pc'[q] \notin Critical
    BY <1>1, <1>3, <1>7, <2>1 DEF LockOK
  <2> QED BY <1>7, <2>1, <2>2
<1> QED BY <1>6, <1>7

\* sem_post: the process that leaves was the only one inside.
LEMMA LockGiven ==
  ASSUME TypeOK, LockOK, NEW p \in Process, pc[p] = "post", Post(p),
         pc'[p] \notin Critical, UNCHANGED inits,
         \A q \in Process \ {p} : pc'[q] = pc[q] /\ at'[q] = at[q]
  PROVE  LockOK'
<1> DEFINE n == at[p]
<1>1. n \in Segs
  BY DEF TypeOK, Phases, DaemonPhases
<1>2. /\ sem'[n] = sem[n] + 1
      /\ \A m \in Segs \ {n} : sem'[m] = sem[m]
  BY <1>1 DEF Post, TypeOK
<1> SUFFICES ASSUME NEW m \in Segs, inits[m] <= 1
             PROVE  /\ sem'[m] <= 1
                    /\ inits[m] = 0 => sem'[m] = 0
                    /\ \A r \in Process : at'[r] = m /\ pc'[r] \in Critical =>
                         /\ sem'[m] = 0
                         /\ inits[m] = 1
                         /\ \A q \in Process : at'[q] = m /\ pc'[q] \in Critical => q = r
  BY DEF LockOK
<1>3. CASE m # n
  BY <1>2, <1>3 DEF LockOK
<1>4. CASE m = n
  <2>1. sem[n] = 0 /\ inits[n] = 1
    BY <1>1, <1>4 DEF LockOK, Critical
  <2>2. \A q \in Process \ {p} : at[q] = n => pc[q] \notin Critical
    BY <1>1, <1>4 DEF LockOK, Critical
  <2> QED BY <1>2, <1>4, <2>1, <2>2
<1> QED BY <1>3, <1>4

\* sem_init for the first time: nobody is inside.  After a second time the
\* segment is out of OneInside's reach.
LEMMA LockMade ==
  ASSUME TypeOK, LockOK, InitSem
  PROVE  LockOK'
<1> DEFINE n == at[Daemon]
<1>1. n \in Segs /\ inits[n] \in Nat
  BY DEF TypeOK, InitSem, DaemonPhases
<1>2. /\ sem'[n] = 1 /\ inits'[n] = inits[n] + 1
      /\ \A m \in Segs \ {n} : sem'[m] = sem[m] /\ inits'[m] = inits[m]
      /\ at' = at
  BY <1>1 DEF InitSem, TypeOK
<1>3. \A q \in Process : pc'[q] \in Critical => pc[q] \in Critical
  BY DEF InitSem, Critical
<1> SUFFICES ASSUME NEW m \in Segs, inits'[m] <= 1
             PROVE  /\ sem'[m] <= 1
                    /\ inits'[m] = 0 => sem'[m] = 0
                    /\ \A r \in Process : at[r] = m /\ pc'[r] \in Critical =>
                         /\ sem'[m] = 0
                         /\ inits'[m] = 1
                         /\ \A q \in Process : at[q] = m /\ pc'[q] \in Critical => q = r
  BY <1>2 DEF LockOK
<1>4. CASE m # n
  BY <1>2, <1>3, <1>4 DEF LockOK
<1>5. CASE m = n
  <2>1. inits[n] = 0
    BY <1>1, <1>2, <1>5
  <2>2. \A q \in Process : at[q] = n => pc[q] \notin Critical
    BY <1>1, <2>1 DEF LockOK
  <2> QED BY <1>2, <1>3, <1>5, <2>1, <2>2
<1> QED BY <1>4, <1>5

LEMMA ScriptLock ==
  ASSUME TypeOK, LockOK, NEW s \in Scripts, Call(s) \/ Update(s) \/ Awake(s)
  PROVE  LockOK'
<1>1. CASE Wait(s, "copy")
  BY <1>1, LockTaken DEF Critical
<1>2. CASE Return(s)
  <2>1. pc[s] = "post" /\ Post(s) /\ UNCHANGED inits
    BY <1>2 DEF Return, Goto
  <2>2. /\ pc'[s] \notin Critical
        /\ \A q \in Process \ {s} : pc'[q] = pc[q] /\ at'[q] = at[q]
    BY <1>2 DEF Return, Goto, Attach, TypeOK, Critical
  <2> QED BY <2>1, <2>2, LockGiven
<1>3. CASE Call(s) \/ NoSplash(s) \/ OpenShared(s) \/ SeesEmpty(s) \/ Copy(s) \/ Awake(s)
  <2>1. UNCHANGED <<sem, inits>>
    BY <1>3 DEF Call, NoSplash, OpenShared, SeesEmpty, Copy, Awake
  <2>2. \A p \in Process : pc'[p] \in Critical => pc[p] \in Critical /\ at'[p] = at[p]
    BY <1>3 DEF Call, NoSplash, OpenShared, SeesEmpty, Copy, Awake, Goto, Attach, Critical,
                TypeOK
  <2> QED BY <2>1, <2>2, LockUntouched
<1> QED BY <1>1, <1>2, <1>3 DEF Update

LEMMA ServeLock ==
  ASSUME TypeOK, LockOK, Serve \/ Start \/ UiFails \/ Leave
  PROVE  LockOK'
<1>1. CASE InitSem
  BY <1>1, LockMade
<1>2. CASE Wait(Daemon, "read")
  BY <1>2, LockTaken DEF Critical
<1>3. CASE Unlock
  <2>1. pc[Daemon] = "post" /\ Post(Daemon) /\ UNCHANGED inits
    BY <1>3 DEF Unlock, Goto
  <2>2. /\ pc'[Daemon] \notin Critical
        /\ \A q \in Process \ {Daemon} : pc'[q] = pc[q] /\ at'[q] = at[q]
    BY <1>3 DEF Unlock, Goto, TypeOK, Critical
  <2> QED BY <2>1, <2>2, LockGiven
<1>4. CASE \/ CreateShared \/ ClearBuffer \/ UiReady \/ SeesMessage \/ ReadQuit \/ Show
           \/ Wipe \/ Close \/ Start \/ UiFails \/ Leave
  <2>1. UNCHANGED <<sem, inits>>
    BY <1>4 DEF CreateShared, ClearBuffer, UiReady, SeesMessage, ReadQuit, Show, Wipe,
                Close, Start, UiFails, Leave
  <2>2. \A p \in Process : pc'[p] \in Critical => pc[p] \in Critical /\ at'[p] = at[p]
    BY <1>4 DEF CreateShared, ClearBuffer, UiReady, SeesMessage, ReadQuit, Show, Wipe,
                Close, Start, UiFails, Leave, Goto, Attach, Critical, TypeOK
  <2> QED BY <2>1, <2>2, LockUntouched
<1> QED BY <1>1, <1>2, <1>3, <1>4 DEF Serve

LEMMA StepLock == TypeOK /\ LockOK /\ [Next]_vars => LockOK'
<1>1. TypeOK /\ LockOK /\ Next => LockOK'
  BY ScriptLock, ServeLock DEF Next
<1>2. LockOK /\ UNCHANGED vars => LockOK'
  BY DEF LockOK, vars
<1> QED BY <1>1, <1>2

\* OneInside: of any number of scripts and the daemon only one at a time uses a
\* buffer (main.c:130-134, 242-263), from the first sem_init of its segment to
\* the end of the last program that has it attached.
THEOREM OneInsideSafe == Spec => []OneInside
<1>1. Init => LockOK
  BY DEF Init, LockOK, Critical
<1> QED BY <1>1, SplashTypesSafe, StepLock, LockSuffices, PTL DEF Spec

-----------------------------------------------------------------------------
(* No script overwrites its own message: once it has seen the buffer empty,  *)
(* only others put something there, each under its own name.                *)

SenderOK == \A s \in Scripts : msg[s].from = s

LEMMA ScriptOwn ==
  ASSUME TypeOK, SenderOK, OwnMessageGone, NEW s \in Scripts,
         Call(s) \/ Update(s) \/ Awake(s)
  PROVE  OwnMessageGone'
<1>1. \A r \in Scripts \ {s} : pc'[r] = pc[r] /\ at'[r] = at[r]
  BY DEF Call, Update, NoSplash, OpenShared, SeesEmpty, Wait, Copy, Return, Awake, Goto,
         Attach, TypeOK
<1>2. CASE Copy(s)
  <2>1. at[s] \in Segs /\ pc'[s] = "post" /\ UNCHANGED at
    BY <1>2 DEF Copy, Goto, TypeOK, Phases
  <2>2. data'[at[s]] = msg[s] /\ \A n \in Segs \ {at[s]} : data'[n] = data[n]
    BY <1>2, <2>1 DEF Copy, TypeOK
  <2>3. \A r \in Scripts : pc[r] \in {"wait", "asleep", "copy"} => at[r] \in Segs
    BY DEF TypeOK, Phases
  <2> QED BY <1>1, <2>1, <2>2, <2>3 DEF SenderOK, OwnMessageGone
<1>3. CASE Call(s) \/ NoSplash(s) \/ OpenShared(s) \/ SeesEmpty(s) \/ Wait(s, "copy")
           \/ Return(s) \/ Awake(s)
  <2>1. UNCHANGED data
    BY <1>3 DEF Call, NoSplash, OpenShared, SeesEmpty, Wait, Return, Awake
  <2>2. pc'[s] \in {"wait", "asleep", "copy"} =>
          at'[s] = at[s] /\ (pc[s] \in {"wait", "asleep"} \/ data[at[s]] = Empty)
    BY <1>3 DEF Call, NoSplash, OpenShared, SeesEmpty, Wait, Return, Awake, Goto, Attach,
                TypeOK
  <2> QED BY <1>1, <2>1, <2>2 DEF OwnMessageGone
<1> QED BY <1>2, <1>3 DEF Update

LEMMA ServeOwn ==
  ASSUME TypeOK, OwnMessageGone, Serve \/ Start \/ UiFails \/ Leave
  PROVE  OwnMessageGone'
<1>1. \A r \in Scripts : /\ at'[r] = at[r]
                         /\ pc'[r] = pc[r] \/ (pc'[r] = "asleep" /\ pc[r] = "wait")
  <2>1. CASE InitSem
    BY <2>1 DEF InitSem
  <2>2. CASE ~ InitSem
    BY <2>2 DEF Serve, CreateShared, ClearBuffer, UiReady, SeesMessage, Wait, ReadQuit, Show,
                Wipe, Unlock, Close, Start, UiFails, Leave, Goto, Attach, TypeOK
  <2> QED BY <2>1, <2>2
<1>2. \A n \in Segs : data'[n] = data[n] \/ data'[n] = Empty
  BY DEF Serve, CreateShared, InitSem, ClearBuffer, UiReady, SeesMessage, Wait, ReadQuit,
         Show, Wipe, Unlock, Close, Start, UiFails, Leave, TypeOK
<1>3. \A r \in Scripts : pc[r] \in {"wait", "asleep", "copy"} => at[r] \in Segs
  BY DEF TypeOK, Phases
<1> QED BY <1>1, <1>2, <1>3 DEF OwnMessageGone

LEMMA StepOwn == TypeOK /\ SenderOK /\ OwnMessageGone /\ [Next]_vars => OwnMessageGone'
<1>1. TypeOK /\ SenderOK /\ OwnMessageGone /\ Next => OwnMessageGone'
  BY ScriptOwn, ServeOwn DEF Next
<1>2. OwnMessageGone /\ UNCHANGED vars => OwnMessageGone'
  BY DEF OwnMessageGone, vars
<1> QED BY <1>1, <1>2

LEMMA StepSender == TypeOK /\ SenderOK /\ [Next]_vars => SenderOK'
<1>1. ASSUME TypeOK, SenderOK, NEW s \in Scripts, Call(s)
      PROVE  SenderOK'
  BY <1>1 DEF SenderOK, Call, TypeOK
<1>2. ASSUME SenderOK, UNCHANGED msg
      PROVE  SenderOK'
  BY <1>2 DEF SenderOK
<1>3. ASSUME NEW s \in Scripts, Update(s) \/ Awake(s)
      PROVE  UNCHANGED msg
  BY <1>3 DEF Update, NoSplash, OpenShared, SeesEmpty, Wait, Copy, Return, Awake, Stays
<1>4. Serve \/ Start \/ UiFails \/ Leave => UNCHANGED msg
  BY DEF Serve, CreateShared, InitSem, ClearBuffer, UiReady, SeesMessage, Wait, ReadQuit,
         Show, Wipe, Unlock, Close, Start, UiFails, Leave, Stays
<1> QED BY <1>1, <1>2, <1>3, <1>4 DEF Next, vars

\* OwnMessageGone: the wait for an empty buffer before the semaphore
\* (main.c:130-132) keeps the messages of one script apart, for any number of
\* scripts.
THEOREM OwnMessageSafe == Spec => []OwnMessageGone
<1>1. Init => SenderOK /\ OwnMessageGone
  BY DEF Init, SenderOK, OwnMessageGone
<1> QED BY <1>1, SplashTypesSafe, StepSender, StepOwn, PTL DEF Spec
=============================================================================
