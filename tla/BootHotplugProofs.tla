-------------------------- MODULE BootHotplugProofs --------------------------
(***************************************************************************)
(* Theorems of BootHotplug, for any disks and drives, any backlog, number  *)
(* of helpers and number of events: types, and that the list is right      *)
(* whenever nothing is under way.                                          *)
(***************************************************************************)
EXTENDS BootHotplug, SequenceTheorems, TLAPS

\* A new element comes after the others.
LEMMA Appended ==
  ASSUME NEW S, NEW s \in Seq(S), NEW x \in S
  PROVE  /\ Append(s, x) \in Seq(S) /\ Append(s, x) # <<>>
         /\ Len(Append(s, x)) = Len(s) + 1
         /\ Append(s, x)[Len(s) + 1] = x
         /\ \A i \in 1 .. Len(s) : Append(s, x)[i] = s[i]
         /\ DOMAIN s = 1 .. Len(s)
         /\ DOMAIN Append(s, x) = 1 .. Len(s) + 1
BY AppendProperties

\* Without its head, a sequence is moved up by one.
LEMMA Advanced ==
  ASSUME NEW S, NEW s \in Seq(S), s # <<>>
  PROVE  /\ Tail(s) \in Seq(S) /\ Head(s) \in S /\ Head(s) = s[1]
         /\ Len(s) \in Nat /\ Len(s) > 0 /\ Len(Tail(s)) = Len(s) - 1
         /\ \A i \in 1 .. Len(s) - 1 : Tail(s)[i] = s[i + 1]
         /\ DOMAIN s = 1 .. Len(s)
         /\ DOMAIN Tail(s) = 1 .. Len(s) - 1
BY EmptySeq, HeadTailProperties

----------------------------------------------------------------------------
(* Types                                                                   *)

\* What the helper r is after a step of its own.
LEMMA AfterSendType ==
  ASSUME NEW r \in HelperType
  PROVE  AfterSend(r) \in HelperType \cup {None}
BY DEF AfterSend, HelperType

LEMMA HelperStepType ==
  ASSUME TypeOK, NEW h \in Helpers,
         Start(h) \/ PollPlug(h) \/ PollUnplug(h) \/ Refused(h) \/ WriteBroken(h)
  PROVE  TypeOK'
<1>0. helper \in [Helpers -> HelperType \cup {None}]
  BY DEF TypeOK
<1>1. helper[h] \in HelperType
  BY <1>0, HotplugAssumption DEF Start, PollPlug, PollUnplug, Refused, WriteBroken, At
<1>2. helper' \in [Helpers -> HelperType \cup {None}]
  <2>1. CASE Start(h)
    BY <1>0, <1>1, <2>1 DEF Start, HelperType
  <2>2. CASE PollPlug(h)
    BY <1>0, <1>1, <2>2 DEF PollPlug, HelperType
  <2>3. CASE PollUnplug(h)
    BY <1>0, <1>1, <2>3 DEF PollUnplug, HelperType
  <2>4. CASE Refused(h)
    BY <1>0, <1>1, <2>4, AfterSendType DEF Refused
  <2>5. CASE WriteBroken(h)
    BY <1>0, <2>5 DEF WriteBroken
  <2> QED
    BY <2>1, <2>2, <2>3, <2>4, <2>5
<1>3. UNCHANGED <<env, uevents, menu>>
  BY DEF Start, PollPlug, PollUnplug, Refused, WriteBroken
<1> QED
  BY <1>2, <1>3 DEF TypeOK, env, menu, Listening

LEMMA ConnectType ==
  ASSUME TypeOK, NEW h \in Helpers, Connect(h)
  PROVE  TypeOK'
<1>0. /\ helper \in [Helpers -> HelperType \cup {None}]
      /\ conns \in Seq(ConnType) /\ Len(conns) <= Backlog
  BY DEF TypeOK
<1>1. helper[h] \in HelperType
  BY <1>0, HotplugAssumption DEF Connect, At
<1>2. helper' \in [Helpers -> HelperType \cup {None}]
  BY <1>0, <1>1 DEF Connect, HelperType
<1>3. [by |-> h, dev |-> helper[h].dev, msg |-> None] \in ConnType
  BY <1>1 DEF HelperType, ConnType
<1>4. conns' \in Seq(ConnType) /\ Len(conns') = Len(conns) + 1
  BY <1>0, <1>3, Appended DEF Connect
<1>5. Len(conns') <= Backlog
  BY <1>0, <1>4, LenProperties, HotplugAssumption DEF Connect
<1>6. UNCHANGED <<env, uevents, pc, reading, listed, untold>> /\ Listening
  BY DEF Connect
<1> QED
  BY <1>2, <1>4, <1>5, <1>6 DEF TypeOK, env, Listening

\* What Write(h) does to each connection.
Sent(h, c) == IF Mine(h, c) THEN [c EXCEPT !.msg = helper[h].msg] ELSE c

LEMMA WriteConns ==
  ASSUME TypeOK, NEW h \in Helpers, Write(h)
  PROVE  /\ helper[h] \in HelperType
         /\ conns' \in Seq(ConnType) /\ Len(conns') = Len(conns)
         /\ \A i \in 1 .. Len(conns) : conns'[i] = Sent(h, conns[i])
         /\ reading' = Sent(h, reading)
         /\ IF pc = "read" THEN reading' \in ConnType ELSE reading' = None
<1>0. /\ helper \in [Helpers -> HelperType \cup {None}]
      /\ conns \in Seq(ConnType)
      /\ IF pc = "read" THEN reading \in ConnType ELSE reading = None
  BY DEF TypeOK
<1>1. helper[h] \in HelperType
  BY <1>0, HotplugAssumption DEF Write, At
<1>2. \A c \in ConnType : Sent(h, c) \in ConnType
  BY <1>1 DEF Sent, ConnType, HelperType
<1>3. /\ conns' = [i \in DOMAIN conns |-> Sent(h, conns[i])]
      /\ reading' = Sent(h, reading)
  BY DEF Write, Sent
<1>4. DOMAIN conns = 1 .. Len(conns) /\ Len(conns) \in Nat
  BY <1>0, LenProperties
<1>5. \A i \in 1 .. Len(conns) : conns[i] \in ConnType
  BY <1>0, ElementOfSeq
<1>6. conns' \in [1 .. Len(conns) -> ConnType]
  BY <1>2, <1>3, <1>4, <1>5
<1>7. conns' \in Seq(ConnType) /\ Len(conns') = Len(conns)
  BY <1>4, <1>6, IsASeq
<1>8. IF pc = "read" THEN reading' \in ConnType ELSE reading' = None
  BY <1>0, <1>2, <1>3 DEF Sent, Mine
<1> QED
  BY <1>1, <1>3, <1>4, <1>7, <1>8

LEMMA WriteType ==
  ASSUME TypeOK, NEW h \in Helpers, Write(h)
  PROVE  TypeOK'
<1>0. /\ helper \in [Helpers -> HelperType \cup {None}]
      /\ conns \in Seq(ConnType) /\ Len(conns) <= Backlog
      /\ conns # <<>> => Listening
  BY DEF TypeOK
<1>1. helper' \in [Helpers -> HelperType \cup {None}]
  BY <1>0, WriteConns, AfterSendType DEF Write
<1>2. conns' # <<>> => Listening
  BY <1>0, WriteConns, EmptySeq
<1>3. UNCHANGED <<env, uevents, pc, listed, untold>>
  BY DEF Write
<1> QED
  BY <1>0, <1>1, <1>2, <1>3, WriteConns DEF TypeOK, env, Listening

LEMMA EnvironmentType ==
  ASSUME TypeOK, NEW d \in Devices,
         Plug(d) \/ Unplug(d) \/ Insert(d) \/ Eject(d)
  PROVE  TypeOK'
<1>0. /\ uevents \in [Devices -> Seq({"add", "remove"})]
      /\ owned \in Machines /\ events \in 0 .. MaxEvents[owned]
  BY DEF TypeOK
<1>1. MaxEvents[owned] \in Nat
  BY <1>0, HotplugAssumption DEF Machines
<1>2. events' \in 0 .. MaxEvents[owned]' /\ owned' = owned
  BY <1>0, <1>1 DEF Plug, Unplug, Insert, Eject, Event
<1>3. \A x \in {"add", "remove"} : Append(uevents[d], x) \in Seq({"add", "remove"})
  BY <1>0, Appended
<1>4. uevents' \in [Devices -> Seq({"add", "remove"})]
  BY <1>0, <1>3 DEF Plug, Unplug, Insert, Eject
<1>5. present' \subseteq owned /\ medium' \subseteq present' \cap Removable
  BY DEF TypeOK, Plug, Unplug, Insert, Eject
<1>6. UNCHANGED <<helper, menu>>
  BY DEF Plug, Unplug, Insert, Eject
<1> QED
  BY <1>2, <1>4, <1>5, <1>6 DEF TypeOK, menu, Listening

LEMMA UdevType ==
  ASSUME TypeOK, NEW d \in Devices, UdevRun(d)
  PROVE  TypeOK'
<1>0. /\ uevents \in [Devices -> Seq({"add", "remove"})]
      /\ helper \in [Helpers -> HelperType \cup {None}]
  BY DEF TypeOK
<1>1. uevents[d] \in Seq({"add", "remove"}) /\ uevents[d] # <<>>
  BY <1>0 DEF UdevRun
<1>2. /\ Head(uevents[d]) \in {"add", "remove"}
      /\ Tail(uevents[d]) \in Seq({"add", "remove"})
  BY <1>1, Advanced
<1>3. uevents' \in [Devices -> Seq({"add", "remove"})]
  BY <1>0, <1>2 DEF UdevRun
<1>4. [dev |-> d, poller |-> FALSE, at |-> "start", msg |-> Head(uevents[d]),
       forked |-> FALSE] \in HelperType
  BY <1>2 DEF HelperType
<1>5. helper' \in [Helpers -> HelperType \cup {None}]
  BY <1>0, <1>4 DEF UdevRun
<1>6. UNCHANGED <<env, menu>>
  BY DEF UdevRun
<1> QED
  BY <1>3, <1>5, <1>6 DEF TypeOK, env, menu, Listening

LEMMA KillType == TypeOK /\ KillHelpers => TypeOK'
<1> SUFFICES ASSUME TypeOK, KillHelpers
             PROVE  TypeOK'
  OBVIOUS
<1>0. helper \in [Helpers -> HelperType \cup {None}]
  BY DEF TypeOK
<1>1. \A h \in Helpers : helper[h] # None =>
        [helper[h] EXCEPT !.forked = TRUE] \in HelperType
  BY <1>0 DEF HelperType
<1>2. PICK escaped \in SUBSET {h \in Helpers :
                              /\ At(h, "plug") \/ At(h, "unplug")
                              /\ ~ helper[h].forked} :
        helper' = [h \in Helpers |->
                    IF h \in escaped THEN [helper[h] EXCEPT !.forked = TRUE]
                    ELSE None]
  BY DEF KillHelpers
<1>3. helper' \in [Helpers -> HelperType \cup {None}]
  BY <1>1, <1>2 DEF At
<1>4. /\ UNCHANGED <<env, uevents, conns, reading, listed, untold>>
      /\ pc \in {"kill_first", "kill_last"} /\ pc' \in {"start", "script"}
  BY DEF KillHelpers
<1> QED
  BY <1>3, <1>4 DEF TypeOK, env, Listening, Phases

LEMMA ScriptType ==
  TypeOK /\ (Bind \/ Listen \/ Script) => TypeOK'
BY DEF TypeOK, Bind, Listen, Script, env, Listening, Phases

LEMMA TriggerType == TypeOK /\ Trigger => TypeOK'
<1> SUFFICES ASSUME TypeOK, Trigger
             PROVE  TypeOK'
  OBVIOUS
<1>0. uevents \in [Devices -> Seq({"add", "remove"})]
  BY DEF TypeOK
<1>1. \A d \in Devices : Append(uevents[d], "add") \in Seq({"add", "remove"})
  BY <1>0, Appended
<1>2. uevents' \in [Devices -> Seq({"add", "remove"})]
  BY <1>0, <1>1 DEF Trigger
<1>3. /\ UNCHANGED <<env, helper, conns, reading, listed>>
      /\ pc = "listening" /\ pc' = "loop"
  BY DEF Trigger
<1>4. untold' \subseteq Devices
  BY DEF TypeOK, Trigger, Machines
<1> QED
  BY <1>2, <1>3, <1>4 DEF TypeOK, env, Listening, Phases

LEMMA AcceptType == TypeOK /\ Accept => TypeOK'
<1> SUFFICES ASSUME TypeOK, Accept
             PROVE  TypeOK'
  OBVIOUS
<1>0. conns \in Seq(ConnType) /\ Len(conns) <= Backlog /\ conns # <<>>
  BY DEF TypeOK, Accept
<1>1. /\ reading' \in ConnType /\ conns' \in Seq(ConnType)
      /\ Len(conns') <= Backlog
  BY <1>0, Advanced, HotplugAssumption DEF Accept
<1>2. UNCHANGED <<env, uevents, helper, listed, untold>> /\ pc' = "read"
  BY DEF Accept
<1> QED
  BY <1>1, <1>2 DEF TypeOK, env, Listening, Phases

LEMMA ReadType == TypeOK /\ Read => TypeOK'
<1> SUFFICES ASSUME TypeOK, Read
             PROVE  TypeOK'
  OBVIOUS
<1>0. reading \in ConnType
  BY DEF TypeOK, Read
<1>1. listed' \subseteq Devices /\ untold' \subseteq Devices
  BY <1>0 DEF TypeOK, Read, ConnType
<1>2. /\ UNCHANGED <<env, uevents, helper, conns>>
      /\ reading' = None /\ pc' = "loop" /\ pc = "read"
  BY DEF Read
<1> QED
  BY <1>1, <1>2 DEF TypeOK, env, Listening, Phases

LEMMA QuitType == TypeOK /\ Quit => TypeOK'
<1> SUFFICES ASSUME TypeOK, Quit
             PROVE  TypeOK'
  OBVIOUS
<1>0. owned \in Machines /\ events \in 0 .. MaxEvents[owned]
  BY DEF TypeOK
<1>1. MaxEvents[owned] \in Nat
  BY <1>0, HotplugAssumption DEF Machines
<1>2. events' \in 0 .. MaxEvents[owned]' /\ owned' = owned
  BY <1>0, <1>1 DEF Quit, Event
<1>3. conns' = <<>> /\ conns' \in Seq(ConnType) /\ Len(conns') = 0
  BY EmptySeq DEF Quit
<1>4. Len(conns') <= Backlog
  BY <1>3, HotplugAssumption
<1>5. /\ UNCHANGED <<present, medium, uevents, helper, reading, listed, untold>>
      /\ pc = "loop" /\ pc' = "kill_last"
  BY DEF Quit
<1> QED
  BY <1>2, <1>3, <1>4, <1>5 DEF TypeOK, Listening, Phases

LEMMA InitType == Init => TypeOK
<1> SUFFICES ASSUME Init
             PROVE  TypeOK
  OBVIOUS
<1>1. PICK late \in SUBSET present :
        uevents = [d \in Devices |-> IF d \in late THEN <<"add">> ELSE <<>>]
  BY DEF Init
<1>2. <<"add">> \in Seq({"add", "remove"}) /\ <<>> \in Seq({"add", "remove"})
  BY EmptySeq
<1>3. uevents \in [Devices -> Seq({"add", "remove"})]
  BY <1>1, <1>2
<1>4. MaxEvents[owned] \in Nat
  BY HotplugAssumption DEF Init, Machines
<1>5. conns = <<>> /\ conns \in Seq(ConnType) /\ Len(conns) = 0 /\ Backlog \in Nat
  BY EmptySeq, HotplugAssumption DEF Init
<1> QED
  BY <1>3, <1>4, <1>5 DEF Init, TypeOK, Phases

LEMMA StepType == TypeOK /\ [Next]_vars => TypeOK'
<1> SUFFICES ASSUME TypeOK, [Next]_vars
             PROVE  TypeOK'
  OBVIOUS
<1>1. CASE UNCHANGED vars
  BY <1>1 DEF vars, env, menu, TypeOK, Listening
<1>2. CASE Environment
  BY <1>2, EnvironmentType DEF Environment
<1>3. CASE Serve
  BY <1>3, KillType, ScriptType, TriggerType, AcceptType, ReadType DEF Serve
<1>4. ASSUME NEW h \in Helpers, Helper(h)
      PROVE  TypeOK'
  BY <1>4, HelperStepType, ConnectType, WriteType DEF Helper
<1> QED
  BY <1>1, <1>2, <1>3, <1>4, QuitType, UdevType DEF Next

\* Every variable keeps its type; connections wait only while somebody listens,
\* never more of them than the backlog takes, and ps3boot reads from one only
\* between accept and the end of read.
THEOREM TypeCorrect == Spec => []TypeOK
BY InitType, StepType, PTL DEF Spec

----------------------------------------------------------------------------
(* The list.  What ps3boot has been told but not read is a queue: the line *)
(* it waits for, at place 0, and the connections behind it.                *)

Msg(i) == IF i = 0 THEN reading ELSE conns[i]
Queue  == 0 .. Len(conns)

\* What a connection says, or will as soon as it is written to.
Says(c) == IF c.msg = None THEN helper[c.by].msg ELSE c.msg

About(d, i)     == Msg(i) # None /\ Msg(i).dev = d
NoneAbout(d)    == \A i \in Queue : ~ About(d, i)
LastAbout(d, i) == About(d, i) /\ \A j \in Queue : j > i => ~ About(d, j)

Of(h, d) == helper[h] # None /\ helper[h].dev = d

\* Only pollers let udev go on, and they poll drives.
HelperOK(r) ==
  /\ r.poller => r.dev \in Removable
  /\ r.forked => r.poller
  /\ r.at \in {"plug", "unplug"} => r.poller
  /\ r.at = "start" => ~ r.poller
  /\ r.at = "unplug" => r.msg = "add"

HelpersOK == \A h \in Helpers : helper[h] # None => HelperOK(helper[h])

\* Whoever is about to write has its connection, and what is not written yet is
\* that of a helper that is about to.
ConnsOK ==
  /\ \A i \in Queue : Msg(i) # None /\ Msg(i).msg = None =>
       Of(Msg(i).by, Msg(i).dev) /\ At(Msg(i).by, "write")
  /\ Listening => \A h \in Helpers : At(h, "write") =>
       \E i \in Queue : Mine(h, Msg(i))
  /\ pc \in {"start", "bound"} => \A h \in Helpers : ~ At(h, "write")

RemoveDue(d) == \E i \in DOMAIN uevents[d] : uevents[d][i] = "remove"

\* The last uevent of a device tells whether it is there.
UeventsOK ==
  \A d \in Devices : uevents[d] # <<>> =>
    uevents[d][Len(uevents[d])] = IF d \in present THEN "add" ELSE "remove"

\* A helper that tells what its uevent said and goes is right, or is followed by
\* one that will be.
OneShotOK(r) ==
  ~ r.poller =>
    /\ r.msg = "remove" /\ r.dev \in present => uevents[r.dev] # <<>>
    /\ r.msg = "add" /\ r.dev \notin present => RemoveDue(r.dev)
    /\ r.msg = "add" /\ r.dev \in Removable /\ r.at # "start" => RemoveDue(r.dev)

OneShotsOK == \A h \in Helpers : helper[h] # None => OneShotOK(helper[h])

\* There will be another add, if the disk stays ready.
Adds(r) ==
  \/ r.at \in {"start", "connect"} /\ r.msg = "add"
  \/ r.at = "plug"
  \/ r.poller /\ r.msg = "remove"

AddDue(d) == uevents[d] # <<>> \/ \E h \in Helpers : Of(h, d) /\ Adds(helper[h])

\* There will be another message when the disk is not ready any more.
Tells(r) ==
  \/ r.at = "start" /\ r.msg = "remove"
  \/ r.at \in {"connect", "unplug"}
  \/ r.at = "write" /\ r.poller /\ r.msg = "add"

TellDue(d) == RemoveDue(d) \/ \E h \in Helpers : Of(h, d) /\ Tells(helper[h])

\* Somebody polls the drive, or is about to.
Watches(r) == r.poller \/ (r.at = "start" /\ r.msg = "add")

WatchDue(d) ==
  uevents[d] # <<>> \/ \E h \in Helpers : Of(h, d) /\ Watches(helper[h])

\* Those that may stop being ready without a uevent, or have stopped.
Goes(d) == d \in Removable \/ d \notin present

\* The last thing that is said of a disk need not be right, but then it is not
\* the last thing that will be said.
SpokenOK(d) ==
  \A i \in Queue : LastAbout(d, i) =>
    /\ Says(Msg(i)) = "remove" /\ d \in present => AddDue(d)
    /\ Says(Msg(i)) = "add" /\ Goes(d) => TellDue(d)

\* The same of the list, when nothing is said of the disk, but for those that
\* ps3boot was never told of.  A drive that is spoken of is watched.
ListedOK(d) ==
  /\ pc \in {"loop", "read"} =>
       /\ d \in listed => d \notin untold
       /\ d \in present \cap Removable => d \in untold \/ WatchDue(d)
       /\ NoneAbout(d) /\ d \in Ready \ listed => d \in untold \/ AddDue(d)
       /\ NoneAbout(d) /\ d \in listed /\ Goes(d) => TellDue(d)
  /\ Listening /\ ~ NoneAbout(d) /\ d \in present \cap Removable => WatchDue(d)
  /\ pc \in {"bound", "listening"} => d \notin listed

ToldOK == \A d \in Devices : SpokenOK(d) /\ ListedOK(d)

HotplugInv ==
  TypeOK /\ HelpersOK /\ ConnsOK /\ UeventsOK /\ OneShotsOK /\ ToldOK

----------------------------------------------------------------------------
(* What a helper's step does: it becomes q, or ends.                       *)

\* A step of h, which was r and becomes q; the rest of the helpers, the
\* devices and the list stay as they are.
Becomes(h, r, q) ==
  /\ helper[h] # None /\ r = helper[h] /\ q = helper'[h]
  /\ q # None => q.dev = r.dev
  /\ \A k \in Helpers \ {h} : helper'[k] = helper[k]
  /\ UNCHANGED <<env, uevents, pc, listed, untold>>

\* From r to q, what is due remains due.
StillDue(r, q) ==
  /\ Adds(r) /\ r.dev \in present => q # None /\ Adds(q)
  /\ Tells(r) /\ Goes(r.dev) => q # None /\ Tells(q)
  /\ Watches(r) /\ r.dev \in present \cap Removable => q # None /\ Watches(q)

LEMMA HelperTyped ==
  ASSUME TypeOK, NEW h \in Helpers, helper[h] # None
  PROVE  helper[h] \in HelperType
BY DEF TypeOK

LEMMA StartEffect ==
  ASSUME TypeOK, HelpersOK, OneShotsOK, NEW h \in Helpers, Start(h)
  PROVE  LET r == helper[h]
             q == helper'[h]
         IN  /\ Becomes(h, r, q)
             /\ q # None => HelperOK(q) /\ OneShotOK(q)
             /\ SocketThere => StillDue(r, q)
             /\ r.at # "write"
             /\ q # None => q.at # "write"
<1> DEFINE r == helper[h]
           q == helper'[h]
<1>0. helper \in [Helpers -> HelperType \cup {None}]
  BY DEF TypeOK
<1>1. r \in HelperType /\ r # None /\ r.at = "start"
  BY HelperTyped DEF Start, At
<1>2. HelperOK(r) /\ OneShotOK(r) /\ ~ r.poller
  BY <1>1 DEF HelpersOK, OneShotsOK, HelperOK
<1>3. \A k \in Helpers \ {h} : helper'[k] = helper[k]
  BY <1>0 DEF Start
<1>4. UNCHANGED <<env, uevents, menu>>
  BY DEF Start
<1>5. CASE ~ SocketThere
  <2>1. q = None
    BY <1>0, <1>5 DEF Start
  <2>2. Becomes(h, r, q)
    BY <1>1, <1>3, <1>4, <2>1 DEF Becomes, menu
  <2> QED
    BY <1>1, <1>5, <2>1, <2>2
<1>6. CASE SocketThere /\ r.msg = "add" /\ r.dev \in present \cap Removable
  <2>1. q = [r EXCEPT !.poller = TRUE, !.at = "plug"]
    BY <1>0, <1>6 DEF Start
  <2>2. q \in HelperType
    BY <1>1, <2>1 DEF HelperType
  <2>3. q # None
    BY <2>2, HotplugAssumption
  <2>4. q.poller /\ q.at = "plug" /\ q.msg = "add" /\ q.dev = r.dev
    BY <1>1, <1>6, <2>1 DEF HelperType
  <2>5. HelperOK(q) /\ OneShotOK(q)
    BY <1>6, <2>4 DEF HelperOK, OneShotOK
  <2>6. StillDue(r, q)
    BY <1>1, <1>6, <2>3, <2>4 DEF StillDue, Adds, Tells, Watches
  <2> QED
    BY <1>1, <1>3, <1>4, <2>3, <2>4, <2>5, <2>6 DEF Becomes, menu
<1>7. CASE SocketThere /\ ~ (r.msg = "add" /\ r.dev \in present \cap Removable)
  <2>1. q = [r EXCEPT !.at = "connect"]
    BY <1>0, <1>7 DEF Start
  <2>2. q \in HelperType
    BY <1>1, <2>1 DEF HelperType
  <2>3. q # None
    BY <2>2, HotplugAssumption
  <2>4. q.at = "connect" /\ q.msg = r.msg /\ q.dev = r.dev
    BY <1>1, <2>1 DEF HelperType
  <2>5. ~ q.poller /\ ~ q.forked
    BY <1>1, <1>2, <2>1 DEF HelperType, HelperOK
  <2>6. HelperOK(q)
    BY <2>4, <2>5 DEF HelperOK
  <2>7. OneShotOK(q)
    BY <1>2, <1>7, <2>4, <2>5 DEF OneShotOK
  <2>8. StillDue(r, q)
    BY <1>1, <1>2, <1>7, <2>3, <2>4 DEF StillDue, Adds, Tells, Watches
  <2> QED
    BY <1>1, <1>3, <1>4, <2>3, <2>4, <2>6, <2>7, <2>8 DEF Becomes, menu
<1> QED
  BY <1>5, <1>6, <1>7

LEMMA PollPlugEffect ==
  ASSUME TypeOK, HelpersOK, NEW h \in Helpers, PollPlug(h)
  PROVE  LET r == helper[h]
             q == helper'[h]
         IN  /\ Becomes(h, r, q)
             /\ q # None => HelperOK(q) /\ OneShotOK(q)
             /\ StillDue(r, q)
             /\ r.at # "write"
             /\ q # None => q.at # "write"
<1> DEFINE r == helper[h]
           q == helper'[h]
<1>0. helper \in [Helpers -> HelperType \cup {None}] /\ medium \subseteq present
  BY DEF TypeOK
<1>1. r \in HelperType /\ r # None /\ r.at = "plug"
  BY HelperTyped DEF PollPlug, At
<1>2. HelperOK(r) /\ r.poller /\ r.dev \in Removable
  BY <1>1 DEF HelpersOK, HelperOK
<1>3. \A k \in Helpers \ {h} : helper'[k] = helper[k]
  BY <1>0 DEF PollPlug
<1>4. UNCHANGED <<env, uevents, menu>>
  BY DEF PollPlug
<1>5. CASE r.dev \notin present
  <2>1. q = None
    BY <1>0, <1>5 DEF PollPlug
  <2>2. StillDue(r, q)
    BY <1>1, <1>5, <2>1 DEF StillDue, Tells
  <2>3. Becomes(h, r, q)
    BY <1>1, <1>3, <1>4, <2>1 DEF Becomes, menu
  <2> QED
    BY <1>1, <2>1, <2>2, <2>3
<1>6. CASE r.dev \in present /\ r.dev \in medium
  <2>1. q = [r EXCEPT !.at = "connect", !.msg = "add"]
    BY <1>0, <1>6 DEF PollPlug
  <2>2. q \in HelperType
    BY <1>1, <2>1 DEF HelperType
  <2>3. q # None
    BY <2>2, HotplugAssumption
  <2>4. q.poller /\ q.at = "connect" /\ q.msg = "add" /\ q.dev = r.dev
    BY <1>1, <1>2, <2>1 DEF HelperType
  <2>5. HelperOK(q) /\ OneShotOK(q)
    BY <1>2, <2>4 DEF HelperOK, OneShotOK
  <2>6. StillDue(r, q)
    BY <2>3, <2>4 DEF StillDue, Adds, Tells, Watches
  <2> QED
    BY <1>1, <1>3, <1>4, <2>3, <2>4, <2>5, <2>6 DEF Becomes, menu
<1>7. CASE r.dev \in present /\ r.dev \notin medium
  <2>1. q = [r EXCEPT !.forked = TRUE]
    BY <1>0, <1>7 DEF PollPlug
  <2>2. q \in HelperType
    BY <1>1, <2>1 DEF HelperType
  <2>3. q # None
    BY <2>2, HotplugAssumption
  <2>4. q.poller /\ q.at = "plug" /\ q.dev = r.dev
    BY <1>1, <1>2, <2>1 DEF HelperType
  <2>5. HelperOK(q) /\ OneShotOK(q)
    BY <1>2, <2>4 DEF HelperOK, OneShotOK
  <2>6. StillDue(r, q)
    BY <1>1, <2>3, <2>4 DEF StillDue, Adds, Tells, Watches
  <2> QED
    BY <1>1, <1>3, <1>4, <2>3, <2>4, <2>5, <2>6 DEF Becomes, menu
<1> QED
  BY <1>5, <1>6, <1>7

LEMMA PollUnplugEffect ==
  ASSUME TypeOK, HelpersOK, NEW h \in Helpers, PollUnplug(h)
  PROVE  LET r == helper[h]
             q == helper'[h]
         IN  /\ Becomes(h, r, q)
             /\ q # None => HelperOK(q) /\ OneShotOK(q)
             /\ StillDue(r, q)
             /\ r.at # "write"
             /\ q # None => q.at # "write"
<1> DEFINE r == helper[h]
           q == helper'[h]
<1>0. helper \in [Helpers -> HelperType \cup {None}]
  BY DEF TypeOK
<1>1. r \in HelperType /\ r # None /\ r.at = "unplug"
  BY HelperTyped DEF PollUnplug, At
<1>2. HelperOK(r) /\ r.poller /\ r.dev \in Removable /\ r.msg = "add"
  BY <1>1 DEF HelpersOK, HelperOK
<1>3. \A k \in Helpers \ {h} : helper'[k] = helper[k]
  BY <1>0 DEF PollUnplug
<1>4. UNCHANGED <<env, uevents, menu>>
  BY DEF PollUnplug
<1>5. CASE r.dev \in medium
  <2>1. q = [r EXCEPT !.forked = TRUE]
    BY <1>0, <1>5 DEF PollUnplug
  <2>2. q \in HelperType
    BY <1>1, <2>1 DEF HelperType
  <2>3. q # None
    BY <2>2, HotplugAssumption
  <2>4. q.poller /\ q.at = "unplug" /\ q.msg = "add" /\ q.dev = r.dev
    BY <1>1, <1>2, <2>1 DEF HelperType
  <2>5. HelperOK(q) /\ OneShotOK(q)
    BY <1>2, <2>4 DEF HelperOK, OneShotOK
  <2>6. StillDue(r, q)
    BY <1>1, <1>2, <2>3, <2>4 DEF StillDue, Adds, Tells, Watches
  <2> QED
    BY <1>1, <1>3, <1>4, <2>3, <2>4, <2>5, <2>6 DEF Becomes, menu
<1>6. CASE r.dev \notin medium
  <2>1. q = [r EXCEPT !.at = "connect", !.msg = "remove"]
    BY <1>0, <1>6 DEF PollUnplug
  <2>2. q \in HelperType
    BY <1>1, <2>1 DEF HelperType
  <2>3. q # None
    BY <2>2, HotplugAssumption
  <2>4. q.poller /\ q.at = "connect" /\ q.msg = "remove" /\ q.dev = r.dev
    BY <1>1, <1>2, <2>1 DEF HelperType
  <2>5. HelperOK(q) /\ OneShotOK(q)
    BY <1>2, <2>4 DEF HelperOK, OneShotOK
  <2>6. StillDue(r, q)
    BY <2>3, <2>4 DEF StillDue, Adds, Tells, Watches
  <2> QED
    BY <1>1, <1>3, <1>4, <2>3, <2>4, <2>5, <2>6 DEF Becomes, menu
<1> QED
  BY <1>5, <1>6

\* What a poller is when it has sent its message.
LEMMA AfterSendPolls ==
  ASSUME NEW r \in HelperType, r.poller
  PROVE  LET q == AfterSend(r)
         IN  /\ q \in HelperType /\ q.poller
             /\ q.dev = r.dev /\ q.msg = r.msg
             /\ r.msg = "add" => q.at = "unplug"
             /\ r.msg # "add" => q.at = "plug"
<1>1. CASE r.msg = "add"
  <2>1. AfterSend(r) = [r EXCEPT !.at = "unplug"]
    BY <1>1 DEF AfterSend
  <2> QED
    BY <1>1, <2>1 DEF HelperType
<1>2. CASE r.msg # "add"
  <2>1. AfterSend(r) = [r EXCEPT !.at = "plug", !.forked = TRUE]
    BY <1>2 DEF AfterSend
  <2> QED
    BY <1>2, <2>1 DEF HelperType
<1> QED
  BY <1>1, <1>2

LEMMA WriteEffect ==
  ASSUME TypeOK, HelpersOK, NEW h \in Helpers,
         helper[h] # None, helper[h].at \in {"connect", "write"},
         helper' = [helper EXCEPT ![h] = AfterSend(@)],
         UNCHANGED <<env, uevents, pc, listed, untold>>
  PROVE  LET r == helper[h]
             q == helper'[h]
         IN  /\ Becomes(h, r, q)
             /\ q # None => HelperOK(q) /\ OneShotOK(q)
             /\ r.at = "write" => StillDue(r, q)
             /\ ~ (q # None /\ q.at = "write")
<1> DEFINE r == helper[h]
           q == helper'[h]
<1>0. helper \in [Helpers -> HelperType \cup {None}]
  BY DEF TypeOK
<1>1. r \in HelperType /\ r # None /\ HelperOK(r)
  BY HelperTyped DEF HelpersOK
<1>2. \A k \in Helpers \ {h} : helper'[k] = helper[k]
  BY <1>0
<1>3. q = AfterSend(r)
  BY <1>0
<1>4. CASE ~ r.poller
  <2>1. q = None
    BY <1>3, <1>4 DEF AfterSend
  <2>2. Becomes(h, r, q)
    BY <1>1, <1>2, <2>1 DEF Becomes
  <2>3. r.at = "write" => StillDue(r, q)
    BY <1>4 DEF StillDue, Adds, Tells, Watches
  <2> QED
    BY <2>1, <2>2, <2>3
<1>5. CASE r.poller
  <2>1. /\ q \in HelperType /\ q.poller
        /\ q.dev = r.dev /\ q.msg = r.msg
        /\ r.msg = "add" => q.at = "unplug"
        /\ r.msg # "add" => q.at = "plug"
    BY <1>1, <1>3, <1>5, AfterSendPolls
  <2>2. q # None
    BY <2>1, HotplugAssumption
  <2>3. r.msg \in {"add", "remove"}
    BY <1>1 DEF HelperType
  <2>4. HelperOK(q)
    BY <1>1, <1>5, <2>1 DEF HelperOK
  <2>5. OneShotOK(q)
    BY <2>1 DEF OneShotOK
  <2>6. r.at = "write" => StillDue(r, q)
    BY <1>5, <2>1, <2>2, <2>3 DEF StillDue, Adds, Tells, Watches
  <2>7. Becomes(h, r, q)
    BY <1>1, <1>2, <2>1, <2>2 DEF Becomes
  <2> QED
    BY <2>1, <2>4, <2>5, <2>6, <2>7
<1> QED
  BY <1>4, <1>5

LEMMA ConnectEffect ==
  ASSUME TypeOK, HelpersOK, OneShotsOK, NEW h \in Helpers, Connect(h)
  PROVE  LET r == helper[h]
             q == helper'[h]
         IN  /\ Becomes(h, r, q) /\ r \in HelperType
             /\ q # None /\ HelperOK(q) /\ OneShotOK(q)
             /\ q.at = "write" /\ q.msg = r.msg /\ (q.poller <=> r.poller)
             /\ r.at = "connect"
<1> DEFINE r == helper[h]
           q == helper'[h]
<1>0. helper \in [Helpers -> HelperType \cup {None}]
  BY DEF TypeOK
<1>1. r \in HelperType /\ r # None /\ r.at = "connect"
  BY HelperTyped DEF Connect, At
<1>2. HelperOK(r) /\ OneShotOK(r)
  BY <1>1 DEF HelpersOK, OneShotsOK
<1>3. \A k \in Helpers \ {h} : helper'[k] = helper[k]
  BY <1>0 DEF Connect
<1>4. q = [r EXCEPT !.at = "write"]
  BY <1>0 DEF Connect
<1>5. q \in HelperType
  BY <1>1, <1>4 DEF HelperType
<1>6. q # None
  BY <1>5, HotplugAssumption
<1>7. q.at = "write" /\ q.msg = r.msg /\ q.dev = r.dev
  BY <1>1, <1>4 DEF HelperType
<1>8. (q.poller <=> r.poller) /\ (q.forked <=> r.forked)
  BY <1>1, <1>4 DEF HelperType
<1>9. HelperOK(q)
  BY <1>2, <1>7, <1>8 DEF HelperOK
<1>10. OneShotOK(q)
  BY <1>1, <1>2, <1>7, <1>8 DEF OneShotOK
<1>11. Becomes(h, r, q)
  BY <1>1, <1>3, <1>6, <1>7 DEF Connect, Becomes
<1> QED
  BY <1>1, <1>6, <1>7, <1>8, <1>9, <1>10, <1>11

----------------------------------------------------------------------------
(* What such a step means for the invariant.                               *)

LEMMA BecomesKeeps ==
  ASSUME HelpersOK, UeventsOK, OneShotsOK, NEW h \in Helpers, NEW r, NEW q,
         Becomes(h, r, q), q # None => HelperOK(q) /\ OneShotOK(q)
  PROVE  HelpersOK' /\ UeventsOK' /\ OneShotsOK'
<1>1. \A k \in Helpers : helper'[k] # None =>
        HelperOK(helper'[k]) /\ OneShotOK(helper'[k])
  BY DEF Becomes, HelpersOK, OneShotsOK
<1>2. HelpersOK'
  BY <1>1 DEF HelpersOK, HelperOK
<1>3. present' = present /\ uevents' = uevents
  BY DEF Becomes, env
<1>4. OneShotsOK'
  BY <1>1, <1>3 DEF OneShotsOK, OneShotOK, RemoveDue
<1> QED
  BY <1>2, <1>3, <1>4 DEF UeventsOK

LEMMA DuesKept ==
  ASSUME NEW h \in Helpers, NEW r, NEW q, Becomes(h, r, q),
         NEW d \in Devices, r.dev = d => StillDue(r, q)
  PROVE  /\ d \in present /\ AddDue(d) => AddDue(d)'
         /\ Goes(d) /\ TellDue(d) => TellDue(d)'
         /\ d \in present \cap Removable /\ WatchDue(d) => WatchDue(d)'
<1>0. /\ r = helper[h] /\ q = helper'[h] /\ r # None /\ uevents' = uevents
      /\ q # None => q.dev = r.dev
      /\ \A k \in Helpers \ {h} : helper'[k] = helper[k]
  BY DEF Becomes
<1>1. ASSUME d \in present, AddDue(d), uevents[d] = <<>>
      PROVE  AddDue(d)'
  <2>1. PICK k \in Helpers : Of(k, d) /\ Adds(helper[k])
    BY <1>1 DEF AddDue
  <2>2. Of(k, d)' /\ Adds(helper'[k])
    BY <1>0, <1>1, <2>1 DEF Of, StillDue
  <2> QED
    BY <2>2 DEF AddDue, Adds
<1>2. ASSUME Goes(d), TellDue(d), ~ RemoveDue(d)
      PROVE  TellDue(d)'
  <2>1. PICK k \in Helpers : Of(k, d) /\ Tells(helper[k])
    BY <1>2 DEF TellDue
  <2>2. Of(k, d)' /\ Tells(helper'[k])
    BY <1>0, <1>2, <2>1 DEF Of, StillDue
  <2> QED
    BY <2>2 DEF TellDue, Tells
<1>3. ASSUME d \in present \cap Removable, WatchDue(d), uevents[d] = <<>>
      PROVE  WatchDue(d)'
  <2>1. PICK k \in Helpers : Of(k, d) /\ Watches(helper[k])
    BY <1>3 DEF WatchDue
  <2>2. Of(k, d)' /\ Watches(helper'[k])
    BY <1>0, <1>3, <2>1 DEF Of, StillDue
  <2> QED
    BY <2>2 DEF WatchDue, Watches
<1> QED
  BY <1>0, <1>1, <1>2, <1>3 DEF AddDue, TellDue, RemoveDue, WatchDue

\* When the queue says what it said, and what was due is due, all is well.
LEMMA SpokenKept ==
  ASSUME NEW d \in Devices, SpokenOK(d), Queue' = Queue,
         d \in present' =>
           AddDue(d)' \/ (d \in present /\ (AddDue(d) => AddDue(d)')),
         Goes(d)' => TellDue(d)' \/ (Goes(d) /\ (TellDue(d) => TellDue(d)')),
         \A i \in Queue : /\ About(d, i)' <=> About(d, i)
                          /\ About(d, i) => Says(Msg(i))' = Says(Msg(i))
  PROVE  SpokenOK(d)'
<1>1. \A i \in Queue : LastAbout(d, i)' => LastAbout(d, i) /\ About(d, i)
  BY DEF LastAbout
<1> QED
  BY <1>1 DEF SpokenOK

LEMMA ListedKept ==
  ASSUME NEW d \in Devices, ListedOK(d), Queue' = Queue,
         UNCHANGED <<pc, listed, untold>>,
         d \in present' =>
           AddDue(d)' \/ (d \in present /\ (AddDue(d) => AddDue(d)')),
         Goes(d)' => TellDue(d)' \/ (Goes(d) /\ (TellDue(d) => TellDue(d)')),
         d \in present' \cap Removable =>
           WatchDue(d)' \/ (d \in present /\ (WatchDue(d) => WatchDue(d)')),
         pc \in {"loop", "read"} /\ NoneAbout(d) /\ d \in Ready' \ listed =>
           AddDue(d)' \/ d \in Ready \/ d \in untold,
         \A i \in Queue : About(d, i)' <=> About(d, i)
  PROVE  ListedOK(d)'
<1>0. Listening' <=> Listening
  BY DEF Listening
<1>1. NoneAbout(d)' <=> NoneAbout(d)
  BY DEF NoneAbout
<1>2. d \in Ready' => d \in present'
  BY DEF Ready
<1>3. pc' \in {"loop", "read"} =>
        (d \in present' \cap Removable => d \in untold' \/ WatchDue(d)')
  BY DEF ListedOK
<1>4. pc' \in {"loop", "read"} /\ NoneAbout(d)' /\ d \in Ready' \ listed' =>
        d \in untold' \/ AddDue(d)'
  BY <1>1, <1>2 DEF ListedOK
<1>5. pc' \in {"loop", "read"} /\ NoneAbout(d)' /\ d \in listed' /\ Goes(d)' =>
        TellDue(d)'
  BY <1>1 DEF ListedOK
<1>6. Listening' /\ ~ NoneAbout(d)' /\ d \in present' \cap Removable => WatchDue(d)'
  BY <1>0, <1>1 DEF ListedOK
<1>7. pc' \in {"loop", "read"} => (d \in listed' => d \notin untold')
  BY DEF ListedOK
<1>8. pc' \in {"bound", "listening"} => d \notin listed'
  BY DEF ListedOK
<1> QED
  BY <1>3, <1>4, <1>5, <1>6, <1>7, <1>8 DEF ListedOK

\* A helper's step that is neither connect nor write.
LEMMA StillTold ==
  ASSUME ToldOK, NEW h \in Helpers, NEW r, NEW q,
         Becomes(h, r, q), StillDue(r, q), Queue' = Queue,
         \A d \in Devices : \A i \in Queue :
           /\ About(d, i)' <=> About(d, i)
           /\ About(d, i) => Says(Msg(i))' = Says(Msg(i))
  PROVE  ToldOK'
<1> SUFFICES ASSUME NEW d \in Devices
             PROVE  SpokenOK(d)' /\ ListedOK(d)'
  BY DEF ToldOK
<1>0. SpokenOK(d) /\ ListedOK(d)
  BY DEF ToldOK
<1>1. UNCHANGED <<present, medium, pc, listed, untold>>
  BY DEF Becomes, env
<1>2. (Goes(d)' <=> Goes(d)) /\ Ready' = Ready
  BY <1>1 DEF Goes, Ready
<1>3. /\ d \in present /\ AddDue(d) => AddDue(d)'
      /\ Goes(d) /\ TellDue(d) => TellDue(d)'
      /\ d \in present \cap Removable /\ WatchDue(d) => WatchDue(d)'
  BY DuesKept
<1>4. SpokenOK(d)'
  BY <1>0, <1>1, <1>2, <1>3, SpokenKept
<1>5. ListedOK(d)'
  BY <1>0, <1>1, <1>2, <1>3, ListedKept
<1> QED
  BY <1>4, <1>5

\* Where nobody listens nothing is said.
LEMMA Idle ==
  ASSUME TypeOK', ~ Listening', pc' = "bound" => listed' = {},
         pc' \in {"start", "bound"} => \A h \in Helpers : ~ At(h, "write")'
  PROVE  ConnsOK' /\ ToldOK'
<1>1. conns' = <<>> /\ reading' = None
  BY DEF TypeOK, Listening
<1>2. Queue' = {0}
  BY <1>1, EmptySeq DEF Queue
<1>3. Msg(0)' = None
  BY <1>1 DEF Msg
<1>4. ConnsOK'
  BY <1>2, <1>3 DEF ConnsOK
<1>5. \A d \in Devices : SpokenOK(d)'
  BY <1>2, <1>3 DEF SpokenOK, LastAbout, About
<1>6. \A d \in Devices : ListedOK(d)'
  BY DEF ListedOK, Listening
<1> QED
  BY <1>4, <1>5, <1>6 DEF ToldOK

LEMMA MsgType ==
  ASSUME TypeOK
  PROVE  /\ Len(conns) \in Nat /\ DOMAIN conns = 1 .. Len(conns)
         /\ \A i \in 1 .. Len(conns) : conns[i] \in ConnType
         /\ reading # None => reading \in ConnType
         /\ \A i \in Queue : Msg(i) # None => Msg(i) \in ConnType
<1>0. conns \in Seq(ConnType) /\ (reading # None => reading \in ConnType)
  BY DEF TypeOK
<1>1. /\ Len(conns) \in Nat /\ DOMAIN conns = 1 .. Len(conns)
      /\ \A i \in 1 .. Len(conns) : conns[i] \in ConnType
  BY <1>0, LenProperties, ElementOfSeq
<1> QED
  BY <1>0, <1>1 DEF Queue, Msg

\* Who does not write does not change what is said.
LEMMA SaysKept ==
  ASSUME TypeOK, ConnsOK, NEW h \in Helpers,
         \A k \in Helpers \ {h} : helper'[k] = helper[k],
         ~ At(h, "write"), ~ At(h, "write")',
         UNCHANGED <<conns, reading, pc>>
  PROVE  /\ ConnsOK' /\ Queue' = Queue
         /\ \A d \in Devices : \A i \in Queue :
              /\ About(d, i)' <=> About(d, i)
              /\ About(d, i) => Says(Msg(i))' = Says(Msg(i))
<1>1. Queue' = Queue /\ \A i \in Queue : Msg(i)' = Msg(i)
  BY DEF Queue, Msg
<1>2. \A i \in Queue : Msg(i) # None /\ Msg(i).msg = None =>
        /\ Msg(i).by \in Helpers \ {h}
        /\ helper'[Msg(i).by] = helper[Msg(i).by]
  BY MsgType DEF ConnsOK, ConnType
<1>3. \A k \in Helpers : At(k, "write")' => At(k, "write")
  BY DEF At
<1>4. ConnsOK'
  <2>1. \A i \in Queue' : Msg(i)' # None /\ Msg(i)'.msg = None =>
          Of(Msg(i).by, Msg(i).dev)' /\ At(Msg(i).by, "write")'
    BY <1>1, <1>2 DEF ConnsOK, Of, At
  <2>2. Listening' => \A k \in Helpers : At(k, "write")' =>
          \E i \in Queue' : Mine(k, Msg(i))'
    BY <1>1, <1>3 DEF ConnsOK, Mine, Listening
  <2>3. pc' \in {"start", "bound"} => \A k \in Helpers : ~ At(k, "write")'
    BY <1>3 DEF ConnsOK
  <2> QED
    BY <2>1, <2>2, <2>3 DEF ConnsOK
<1>5. \A d \in Devices : \A i \in Queue : About(d, i)' <=> About(d, i)
  BY <1>1 DEF About
<1>6. \A i \in Queue : Msg(i) # None => Says(Msg(i))' = Says(Msg(i))
  BY <1>1, <1>2 DEF Says
<1> QED
  BY <1>1, <1>4, <1>5, <1>6 DEF About

----------------------------------------------------------------------------
(* The invariant holds after every step.                                   *)

LEMMA PollKeeps ==
  ASSUME HotplugInv, TypeOK', NEW h \in Helpers,
         Start(h) \/ PollPlug(h) \/ PollUnplug(h)
  PROVE  HotplugInv'
<1> DEFINE r == helper[h]
           q == helper'[h]
<1>0. TypeOK /\ HelpersOK /\ ConnsOK /\ UeventsOK /\ OneShotsOK /\ ToldOK
  BY DEF HotplugInv
<1>1. /\ Becomes(h, r, q)
      /\ q # None => HelperOK(q) /\ OneShotOK(q)
      /\ SocketThere => StillDue(r, q)
      /\ r.at # "write" /\ (q # None => q.at # "write")
  BY <1>0, StartEffect, PollPlugEffect, PollUnplugEffect
<1>2. HelpersOK' /\ UeventsOK' /\ OneShotsOK'
  BY <1>0, <1>1, BecomesKeeps
<1>3. UNCHANGED <<conns, reading, pc, listed, untold>>
  BY DEF Start, PollPlug, PollUnplug, menu
<1>4. ~ At(h, "write") /\ ~ At(h, "write")'
  BY <1>1 DEF At
<1>5. \A k \in Helpers \ {h} : helper'[k] = helper[k]
  BY <1>1 DEF Becomes
<1>6. CASE Listening
  <2>1. SocketThere
    BY <1>6 DEF Listening, SocketThere
  <2>2. /\ ConnsOK' /\ Queue' = Queue
        /\ \A d \in Devices : \A i \in Queue :
             /\ About(d, i)' <=> About(d, i)
             /\ About(d, i) => Says(Msg(i))' = Says(Msg(i))
    BY <1>0, <1>3, <1>4, <1>5, SaysKept
  <2>3. ToldOK'
    BY <1>0, <1>1, <2>1, <2>2, StillTold
  <2> QED
    BY <1>2, <2>2, <2>3 DEF HotplugInv
<1>7. CASE ~ Listening
  <2>1. ~ Listening'
    BY <1>3, <1>7 DEF Listening
  <2>2. ConnsOK'
    BY <1>0, <1>3, <1>4, <1>5, SaysKept
  <2>3. pc' = "bound" => listed' = {}
    BY <1>0, <1>3 DEF ToldOK, ListedOK, TypeOK
  <2>4. ToldOK'
    BY <2>1, <2>2, <2>3, Idle DEF ConnsOK
  <2> QED
    BY <1>2, <2>2, <2>4 DEF HotplugInv
<1> QED
  BY <1>6, <1>7

LEMMA RefusedKeeps ==
  ASSUME HotplugInv, TypeOK', NEW h \in Helpers, Refused(h)
  PROVE  HotplugInv'
<1> DEFINE r == helper[h]
           q == helper'[h]
<1>0. TypeOK /\ HelpersOK /\ ConnsOK /\ UeventsOK /\ OneShotsOK /\ ToldOK
  BY DEF HotplugInv
<1>1. /\ helper[h] # None /\ helper[h].at = "connect"
      /\ helper' = [helper EXCEPT ![h] = AfterSend(@)]
      /\ UNCHANGED <<env, uevents, pc, conns, reading, listed, untold>>
      /\ ~ Listening
  BY DEF Refused, At, menu
<1>2. /\ Becomes(h, r, q)
      /\ q # None => HelperOK(q) /\ OneShotOK(q)
      /\ ~ (q # None /\ q.at = "write")
  BY <1>0, <1>1, WriteEffect
<1>3. HelpersOK' /\ UeventsOK' /\ OneShotsOK'
  BY <1>0, <1>2, BecomesKeeps
<1>4. ~ At(h, "write") /\ ~ At(h, "write")' /\ ~ Listening'
  BY <1>1, <1>2 DEF At, Listening
<1>5. \A k \in Helpers \ {h} : helper'[k] = helper[k]
  BY <1>2 DEF Becomes
<1>6. ConnsOK'
  BY <1>0, <1>1, <1>4, <1>5, SaysKept
<1>7. pc' = "bound" => listed' = {}
  BY <1>0, <1>1 DEF ToldOK, ListedOK, TypeOK
<1>8. ToldOK'
  BY <1>4, <1>6, <1>7, Idle DEF ConnsOK
<1> QED
  BY <1>3, <1>6, <1>8 DEF HotplugInv

\* While somebody listens, nobody is cut off before it has written.
LEMMA BrokenKeeps ==
  ASSUME HotplugInv, TypeOK', NEW h \in Helpers, WriteBroken(h)
  PROVE  HotplugInv'
<1>0. TypeOK /\ HelpersOK /\ ConnsOK /\ UeventsOK /\ OneShotsOK /\ ToldOK
  BY DEF HotplugInv
<1>1. /\ At(h, "write") /\ helper' = [helper EXCEPT ![h] = None]
      /\ ~ \E c \in ToSet(conns) \cup {reading} : Mine(h, c)
      /\ UNCHANGED <<env, uevents, pc, conns, reading, listed, untold>>
  BY DEF WriteBroken, menu
<1>2. \A i \in Queue : Msg(i) \in ToSet(conns) \cup {reading}
  BY <1>0, MsgType DEF Queue, Msg, ToSet
<1>3. ~ Listening
  BY <1>0, <1>1, <1>2 DEF ConnsOK
<1>4. /\ helper'[h] = None
      /\ \A k \in Helpers \ {h} : helper'[k] = helper[k]
  BY <1>0, <1>1 DEF TypeOK
<1>5. Becomes(h, helper[h], helper'[h])
  BY <1>1, <1>4 DEF Becomes, At
<1>6. HelpersOK' /\ UeventsOK' /\ OneShotsOK'
  BY <1>0, <1>4, <1>5, BecomesKeeps
<1>7. ~ Listening'
  BY <1>1, <1>3 DEF Listening
<1>8. pc' \in {"start", "bound"} => \A k \in Helpers : ~ At(k, "write")'
  BY <1>0, <1>1 DEF ConnsOK
<1>9. pc' = "bound" => listed' = {}
  BY <1>0, <1>1 DEF ToldOK, ListedOK, TypeOK
<1>10. ConnsOK' /\ ToldOK'
  BY <1>7, <1>8, <1>9, Idle
<1> QED
  BY <1>6, <1>10 DEF HotplugInv

LEMMA WriteKeeps ==
  ASSUME HotplugInv, TypeOK', NEW h \in Helpers, Write(h)
  PROVE  HotplugInv'
<1> DEFINE r == helper[h]
           q == helper'[h]
<1>0. TypeOK /\ HelpersOK /\ ConnsOK /\ UeventsOK /\ OneShotsOK /\ ToldOK
  BY DEF HotplugInv
<1>1. /\ helper[h] # None /\ helper[h].at = "write"
      /\ helper' = [helper EXCEPT ![h] = AfterSend(@)]
      /\ UNCHANGED <<env, uevents, pc, listed, untold>>
  BY DEF Write, At
<1>2. /\ Becomes(h, r, q)
      /\ q # None => HelperOK(q) /\ OneShotOK(q)
      /\ StillDue(r, q)
      /\ ~ (q # None /\ q.at = "write")
  BY <1>0, <1>1, WriteEffect
<1>3. HelpersOK' /\ UeventsOK' /\ OneShotsOK'
  BY <1>0, <1>2, BecomesKeeps
<1>4. Queue' = Queue /\ \A i \in Queue : Msg(i)' = Sent(h, Msg(i))
  BY <1>0, WriteConns, MsgType DEF Queue, Msg
<1>5. /\ r \in HelperType /\ r.msg \in {"add", "remove"} /\ r.msg # None
  BY <1>0, <1>1, HelperTyped, HotplugAssumption DEF HelperType
<1>6. \A i \in Queue : Msg(i) # None =>
        /\ Msg(i)' # None /\ Msg(i)'.dev = Msg(i).dev
        /\ Msg(i)'.by = Msg(i).by
        /\ Mine(h, Msg(i)) => Msg(i)'.msg = r.msg
        /\ ~ Mine(h, Msg(i)) => Msg(i)' = Msg(i)
  <2> SUFFICES ASSUME NEW i \in Queue, Msg(i) # None
               PROVE  /\ Msg(i)' # None /\ Msg(i)'.dev = Msg(i).dev
                      /\ Msg(i)'.by = Msg(i).by
                      /\ Mine(h, Msg(i)) => Msg(i)'.msg = r.msg
                      /\ ~ Mine(h, Msg(i)) => Msg(i)' = Msg(i)
    OBVIOUS
  <2>1. Msg(i) \in ConnType
    BY <1>0, MsgType
  <2>2. CASE Mine(h, Msg(i))
    <3>1. Msg(i)' = [Msg(i) EXCEPT !.msg = r.msg]
      BY <1>4, <2>2 DEF Sent
    <3>2. Msg(i)' \in ConnType
      BY <1>5, <2>1, <3>1 DEF ConnType
    <3> QED
      BY <2>1, <2>2, <3>1, <3>2, HotplugAssumption DEF ConnType
  <2>3. CASE ~ Mine(h, Msg(i))
    BY <1>4, <2>3 DEF Sent
  <2> QED
    BY <2>2, <2>3
<1>7. \A i \in Queue : Msg(i) = None => Msg(i)' = None
  BY <1>4 DEF Sent, Mine
<1>8. \A d \in Devices : \A i \in Queue : About(d, i)' <=> About(d, i)
  BY <1>6, <1>7 DEF About
<1>9. \A i \in Queue : Msg(i) # None /\ Msg(i).msg = None /\ ~ Mine(h, Msg(i)) =>
        /\ Msg(i).by \in Helpers \ {h}
        /\ helper'[Msg(i).by] = helper[Msg(i).by]
  BY <1>0, <1>2, MsgType DEF ConnType, Mine, Becomes
<1>10. \A i \in Queue : Msg(i) # None => Says(Msg(i))' = Says(Msg(i))
  <2> SUFFICES ASSUME NEW i \in Queue, Msg(i) # None
               PROVE  Says(Msg(i))' = Says(Msg(i))
    OBVIOUS
  <2>1. CASE Mine(h, Msg(i))
    BY <1>5, <1>6, <2>1 DEF Says, Mine
  <2>2. CASE ~ Mine(h, Msg(i))
    BY <1>6, <1>9, <2>2 DEF Says
  <2> QED
    BY <2>1, <2>2
<1>11. ToldOK'
  BY <1>0, <1>2, <1>4, <1>8, <1>10, StillTold DEF About
<1>12. ConnsOK'
  <2>1. \A i \in Queue' : Msg(i)' # None /\ Msg(i)'.msg = None =>
          Of(Msg(i).by, Msg(i).dev)' /\ At(Msg(i).by, "write")'
    <3> SUFFICES ASSUME NEW i \in Queue, Msg(i)' # None, Msg(i)'.msg = None
                 PROVE  Of(Msg(i).by, Msg(i).dev)' /\ At(Msg(i).by, "write")'
      BY <1>4
    <3>1. Msg(i) # None /\ ~ Mine(h, Msg(i)) /\ Msg(i)' = Msg(i)
      BY <1>5, <1>6, <1>7
    <3> QED
      BY <1>0, <1>9, <3>1 DEF ConnsOK, Of, At
  <2>2. ASSUME Listening', NEW k \in Helpers, At(k, "write")'
        PROVE  \E i \in Queue' : Mine(k, Msg(i))'
    <3>1. k # h
      BY <1>2, <2>2 DEF At
    <3>2. At(k, "write") /\ Listening
      BY <1>1, <1>2, <2>2, <3>1 DEF At, Becomes, Listening
    <3>3. PICK i \in Queue : Mine(k, Msg(i))
      BY <1>0, <3>2 DEF ConnsOK
    <3>4. Msg(i)' = Msg(i)
      BY <1>6, <3>1, <3>3 DEF Mine
    <3> QED
      BY <1>4, <3>3, <3>4 DEF Mine
  <2>3. pc' \in {"start", "bound"} => \A k \in Helpers : ~ At(k, "write")'
    BY <1>0, <1>1 DEF ConnsOK, At
  <2> QED
    BY <2>1, <2>2, <2>3 DEF ConnsOK
<1> QED
  BY <1>3, <1>11, <1>12 DEF HotplugInv

LEMMA ConnectKeeps ==
  ASSUME HotplugInv, TypeOK', NEW h \in Helpers, Connect(h)
  PROVE  HotplugInv'
<1> DEFINE r == helper[h]
           q == helper'[h]
<1>0. TypeOK /\ HelpersOK /\ ConnsOK /\ UeventsOK /\ OneShotsOK /\ ToldOK
  BY DEF HotplugInv
<1>1. /\ Becomes(h, r, q) /\ r \in HelperType
      /\ q # None /\ HelperOK(q) /\ OneShotOK(q)
      /\ q.at = "write" /\ q.msg = r.msg /\ (q.poller <=> r.poller)
      /\ r.at = "connect"
  BY <1>0, ConnectEffect
<1>2. HelpersOK' /\ UeventsOK' /\ OneShotsOK'
  BY <1>0, <1>1, BecomesKeeps
<1> PICK n : n = Len(conns) + 1
  OBVIOUS
<1> PICK c : c = [by |-> h, dev |-> helper[h].dev, msg |-> None]
  OBVIOUS
<1>3. /\ c \in ConnType /\ c # None
      /\ c.by = h /\ c.dev = r.dev /\ c.msg = None
  BY <1>1, HotplugAssumption DEF HelperType, ConnType
<1>4. /\ conns' = Append(conns, c)
      /\ UNCHANGED <<env, uevents, pc, reading, listed, untold>>
      /\ Listening
  BY DEF Connect
<1>5. /\ Len(conns) \in Nat /\ Len(conns') = n
      /\ conns'[n] = c
      /\ \A i \in 1 .. Len(conns) : conns'[i] = conns[i]
  BY <1>0, <1>3, <1>4, Appended, MsgType DEF TypeOK
<1>6. /\ Queue' = Queue \cup {n} /\ n \notin Queue
      /\ \A i \in Queue : i < n
  BY <1>5 DEF Queue
<1>7. Msg(n)' = c /\ \A i \in Queue : Msg(i)' = Msg(i)
  BY <1>4, <1>5 DEF Queue, Msg
<1>8. \A i \in Queue : Msg(i) # None /\ Msg(i).msg = None =>
        /\ Msg(i).by \in Helpers \ {h}
        /\ helper'[Msg(i).by] = helper[Msg(i).by]
  BY <1>0, <1>1, MsgType DEF ConnsOK, ConnType, Becomes, At
<1>9. \A k \in Helpers \ {h} : helper'[k] = helper[k]
  BY <1>1 DEF Becomes
<1>10. ConnsOK'
  <2>1. \A i \in Queue' : Msg(i)' # None /\ Msg(i)'.msg = None =>
          Of(Msg(i).by, Msg(i).dev)' /\ At(Msg(i).by, "write")'
    <3>1. \A i \in Queue : Msg(i) # None /\ Msg(i).msg = None =>
            Of(Msg(i).by, Msg(i).dev)' /\ At(Msg(i).by, "write")'
      BY <1>0, <1>7, <1>8 DEF ConnsOK, Of, At
    <3>2. Of(c.by, c.dev)' /\ At(c.by, "write")'
      BY <1>1, <1>3 DEF Becomes, Of, At
    <3> QED
      BY <1>6, <1>7, <3>1, <3>2
  <2>2. ASSUME Listening', NEW k \in Helpers, At(k, "write")'
        PROVE  \E i \in Queue' : Mine(k, Msg(i))'
    <3>1. CASE k = h
      BY <1>3, <1>6, <1>7, <3>1 DEF Mine
    <3>2. CASE k # h
      <4>1. At(k, "write")
        BY <1>9, <2>2, <3>2 DEF At
      <4>2. PICK i \in Queue : Mine(k, Msg(i))
        BY <1>0, <1>4, <4>1 DEF ConnsOK
      <4> QED
        BY <1>6, <1>7, <4>2 DEF Mine
    <3> QED
      BY <3>1, <3>2
  <2>3. pc' \notin {"start", "bound"}
    BY <1>4 DEF Listening
  <2> QED
    BY <2>1, <2>2, <2>3 DEF ConnsOK
<1>11. ToldOK'
  <2> SUFFICES ASSUME NEW d \in Devices
               PROVE  SpokenOK(d)' /\ ListedOK(d)'
    BY DEF ToldOK
  <2>0. SpokenOK(d) /\ ListedOK(d)
    BY <1>0 DEF ToldOK
  <2>1. /\ UNCHANGED <<present, medium, uevents, pc, listed, untold>>
        /\ Goes(d)' <=> Goes(d)
    BY <1>4 DEF env, Goes
  <2>2. CASE r.dev = d
    <3>1. About(d, n)' /\ ~ NoneAbout(d)'
      BY <1>3, <1>6, <1>7, <2>2 DEF About, NoneAbout
    <3>2. Says(Msg(n))' = r.msg
      BY <1>1, <1>3, <1>7 DEF Says
    <3>3. Of(h, d)' /\ q.dev = d
      BY <1>1, <2>2 DEF Becomes, Of
    <3>4. r.msg = "remove" /\ d \in present => AddDue(d)'
      <4>1. CASE r.poller
        BY <1>1, <3>3, <4>1 DEF AddDue, Adds
      <4>2. CASE ~ r.poller
        BY <1>1, <2>1, <3>3, <4>2 DEF AddDue, OneShotOK
      <4> QED
        BY <4>1, <4>2
    <3>5. r.msg = "add" /\ Goes(d) => TellDue(d)'
      <4>1. CASE r.poller
        BY <1>1, <3>3, <4>1 DEF TellDue, Tells
      <4>2. CASE ~ r.poller
        BY <1>1, <2>1, <3>3, <4>2 DEF TellDue, OneShotOK, Goes, RemoveDue
      <4> QED
        BY <4>1, <4>2
    <3>6. \A i \in Queue' : LastAbout(d, i)' => i = n
      BY <1>6, <3>1 DEF LastAbout
    <3>7. SpokenOK(d)'
      BY <2>1, <3>2, <3>4, <3>5, <3>6 DEF SpokenOK
    <3>8. d \in present \cap Removable => WatchDue(d)'
      <4>1. CASE r.poller
        BY <1>1, <3>3, <4>1 DEF WatchDue, Watches
      <4>2. CASE ~ r.poller
        <5>1. q.msg \in {"add", "remove"} /\ q.at # "start" /\ ~ q.poller
          BY <1>1, <4>2 DEF HelperType
        <5>2. RemoveDue(d) => uevents[d] # <<>>
          BY EmptySeq DEF RemoveDue
        <5>3. d \in present \cap Removable => uevents[d] # <<>>
          BY <1>1, <3>3, <5>1, <5>2 DEF OneShotOK
        <5> QED
          BY <2>1, <5>3 DEF WatchDue
      <4> QED
        BY <4>1, <4>2
    <3>9. ListedOK(d)'
      BY <2>0, <2>1, <3>1, <3>8 DEF ListedOK
    <3> QED
      BY <3>7, <3>9
  <2>3. CASE r.dev # d
    <3>1. ~ About(d, n)' /\ \A i \in Queue : About(d, i)' <=> About(d, i)
      BY <1>3, <1>7, <2>3 DEF About
    <3>2. \A i \in Queue : Msg(i) # None => Says(Msg(i))' = Says(Msg(i))
      BY <1>7, <1>8 DEF Says
    <3>3. \A i \in Queue' : LastAbout(d, i)' =>
            i \in Queue /\ LastAbout(d, i) /\ Says(Msg(i))' = Says(Msg(i))
      BY <1>6, <3>1, <3>2 DEF LastAbout, About
    <3>4. NoneAbout(d)' <=> NoneAbout(d)
      BY <1>6, <3>1 DEF NoneAbout
    <3>5. /\ d \in present /\ AddDue(d) => AddDue(d)'
          /\ Goes(d) /\ TellDue(d) => TellDue(d)'
          /\ d \in present \cap Removable /\ WatchDue(d) => WatchDue(d)'
      BY <1>1, <2>3, DuesKept
    <3>6. SpokenOK(d)'
      BY <2>0, <2>1, <3>3, <3>5 DEF SpokenOK
    <3>7. ListedOK(d)'
      BY <2>0, <2>1, <3>4, <3>5 DEF ListedOK, Ready, Listening
    <3> QED
      BY <3>6, <3>7
  <2> QED
    BY <2>2, <2>3
<1> QED
  BY <1>2, <1>10, <1>11 DEF HotplugInv

\* A uevent is noted behind those that are waiting.
LEMMA Noted ==
  ASSUME TypeOK, NEW d \in Devices, NEW x \in {"add", "remove"},
         uevents'[d] = Append(uevents[d], x)
  PROVE  /\ uevents'[d] # <<>> /\ uevents'[d][Len(uevents'[d])] = x
         /\ RemoveDue(d) => RemoveDue(d)'
         /\ x = "remove" => RemoveDue(d)'
<1>0. uevents[d] \in Seq({"add", "remove"})
  BY DEF TypeOK
<1>1. /\ uevents'[d] # <<>>
      /\ Len(uevents'[d]) = Len(uevents[d]) + 1
      /\ uevents'[d][Len(uevents[d]) + 1] = x
      /\ \A i \in 1 .. Len(uevents[d]) : uevents'[d][i] = uevents[d][i]
      /\ DOMAIN uevents[d] = 1 .. Len(uevents[d])
      /\ DOMAIN uevents'[d] = 1 .. Len(uevents[d]) + 1
      /\ Len(uevents[d]) \in Nat
  BY <1>0, Appended, LenProperties
<1>2. \A i \in DOMAIN uevents[d] :
        i \in DOMAIN uevents'[d] /\ uevents'[d][i] = uevents[d][i]
  BY <1>1
<1>3. Len(uevents[d]) + 1 \in DOMAIN uevents'[d]
  BY <1>1
<1> QED
  BY <1>1, <1>2, <1>3 DEF RemoveDue

\* What the environment does is seen by those who poll, or announced by a uevent.
LEMMA EnvironmentKeeps ==
  ASSUME HotplugInv, TypeOK', NEW e \in Devices,
         Plug(e) \/ Unplug(e) \/ Insert(e) \/ Eject(e)
  PROVE  HotplugInv'
<1>0. /\ TypeOK /\ HelpersOK /\ ConnsOK /\ UeventsOK /\ OneShotsOK /\ ToldOK
      /\ uevents \in [Devices -> Seq({"add", "remove"})]
      /\ medium \subseteq present \cap Removable
  BY DEF HotplugInv, TypeOK
<1>1. UNCHANGED <<helper, pc, conns, reading, listed, untold>>
  BY DEF Plug, Unplug, Insert, Eject, menu
<1>2. HelpersOK' /\ ConnsOK'
  BY <1>0, <1>1 DEF HelpersOK, ConnsOK, Queue, Msg, Of, At, Mine, Listening
<1>3. /\ Queue' = Queue
      /\ \A d \in Devices : \A i \in Queue : About(d, i)' <=> About(d, i)
      /\ \A i \in Queue : Says(Msg(i))' = Says(Msg(i))
  BY <1>1 DEF Queue, Msg, About, Says
<1>4. \A d \in Devices \ {e} :
        /\ uevents'[d] = uevents[d]
        /\ d \in present' <=> d \in present
        /\ d \in medium' <=> d \in medium
  BY <1>0 DEF Plug, Unplug, Insert, Eject
\* What is known of a device that goes on as before.
<1>5. ASSUME NEW d \in Devices,
             uevents'[d] = uevents[d] \/ (RemoveDue(d) => RemoveDue(d)'),
             uevents'[d] = uevents[d] \/ uevents'[d] # <<>>
      PROVE  /\ AddDue(d) => AddDue(d)'
             /\ TellDue(d) => TellDue(d)'
             /\ WatchDue(d) => WatchDue(d)'
  BY <1>1, <1>5 DEF AddDue, TellDue, WatchDue, RemoveDue, Of, Adds, Tells, Watches
<1>6. CASE Insert(e) \/ Eject(e)
  <2>1. UNCHANGED <<present, uevents>>
    BY <1>6 DEF Insert, Eject
  <2>2. UeventsOK' /\ OneShotsOK'
    BY <1>0, <1>1, <2>1 DEF UeventsOK, OneShotsOK, OneShotOK, RemoveDue
  <2>3. ASSUME NEW d \in Devices, pc \in {"loop", "read"}, NoneAbout(d),
               d \in Ready' \ listed, d \notin Ready, d \notin untold
        PROVE  AddDue(d)
    <3>1. d = e /\ Insert(e)
      BY <1>4, <1>6, <2>1, <2>3 DEF Ready, Eject
    <3>2. d \in present \cap Removable
      BY <3>1 DEF Insert
    <3>3. WatchDue(d)
      BY <1>0, <2>3, <3>2 DEF ToldOK, ListedOK
    <3>4. CASE uevents[d] # <<>>
      BY <3>4 DEF AddDue
    <3>5. ASSUME NEW k \in Helpers, Of(k, d), Watches(helper[k])
          PROVE  Adds(helper[k])
      <4>1. helper[k] \in HelperType /\ helper[k] # None /\ helper[k].dev = d
        BY <1>0, <3>5, HelperTyped DEF Of
      <4>2. helper[k].at # "unplug"
        BY <3>1, <4>1 DEF Insert
      <4>3. HelperOK(helper[k])
        BY <1>0, <4>1 DEF HelpersOK
      <4>4. CASE helper[k].at = "write"
        <5>1. PICK i \in Queue : Mine(k, Msg(i))
          BY <1>0, <2>3, <4>1, <4>4 DEF ConnsOK, At, Listening
        <5>2. About(d, i)
          BY <1>0, <4>1, <5>1 DEF ConnsOK, Mine, Of, About
        <5> QED
          BY <2>3, <5>2 DEF NoneAbout
      <4>5. CASE helper[k].at \in {"start", "plug", "connect"}
        BY <3>5, <4>1, <4>3, <4>5 DEF HelperType, HelperOK, Watches, Adds
      <4> QED
        BY <4>1, <4>2, <4>4, <4>5 DEF HelperType
    <3> QED
      BY <3>3, <3>4, <3>5 DEF WatchDue, AddDue
  <2>4. \A d \in Devices : Goes(d)' <=> Goes(d)
    BY <2>1 DEF Goes
  <2>5. \A d \in Devices : SpokenOK(d)'
    BY <1>0, <1>3, <1>5, <2>1, <2>4, SpokenKept DEF ToldOK
  <2>6. \A d \in Devices : ListedOK(d)'
    <3> SUFFICES ASSUME NEW d \in Devices
                 PROVE  ListedOK(d)'
      OBVIOUS
    <3>1. /\ AddDue(d) => AddDue(d)'
          /\ TellDue(d) => TellDue(d)'
          /\ WatchDue(d) => WatchDue(d)'
      BY <1>5, <2>1
    <3>2. pc \in {"loop", "read"} /\ NoneAbout(d) /\ d \in Ready' \ listed =>
            AddDue(d)' \/ d \in Ready \/ d \in untold
      BY <2>3, <3>1
    <3>3. ListedOK(d)
      BY <1>0 DEF ToldOK
    <3> QED
      BY <1>1, <1>3, <2>1, <2>4, <3>1, <3>2, <3>3, ListedKept
  <2> QED
    BY <1>2, <2>2, <2>5, <2>6 DEF HotplugInv, ToldOK
<1>7. CASE Plug(e) \/ Unplug(e)
  <2>1. PICK x \in {"add", "remove"} :
          /\ uevents'[e] = Append(uevents[e], x)
          /\ x = IF e \in present' THEN "add" ELSE "remove"
          /\ e \in present <=> x = "remove"
    BY <1>0, <1>7 DEF Plug, Unplug
  <2>2. /\ uevents'[e] # <<>> /\ uevents'[e][Len(uevents'[e])] = x
        /\ RemoveDue(e) => RemoveDue(e)'
        /\ x = "remove" => RemoveDue(e)'
    BY <1>0, <2>1, Noted
  <2>3. UeventsOK'
    BY <1>0, <1>4, <2>1, <2>2 DEF UeventsOK
  <2>4. OneShotsOK'
    <3> SUFFICES ASSUME NEW k \in Helpers, helper[k] # None
                 PROVE  OneShotOK(helper[k])'
      BY <1>1 DEF OneShotsOK
    <3>1. OneShotOK(helper[k]) /\ helper[k].dev \in Devices
      BY <1>0, HelperTyped DEF OneShotsOK, HelperType
    <3>2. CASE helper[k].dev = e
      BY <1>1, <2>1, <2>2, <3>1, <3>2 DEF OneShotOK
    <3>3. CASE helper[k].dev # e
      BY <1>1, <1>4, <3>1, <3>3 DEF OneShotOK, RemoveDue
    <3> QED
      BY <3>2, <3>3
  <2>5. ASSUME NEW d \in Devices
        PROVE  SpokenOK(d)' /\ ListedOK(d)'
    <3>0. SpokenOK(d) /\ ListedOK(d)
      BY <1>0 DEF ToldOK
    <3>1. /\ AddDue(d) => AddDue(d)'
          /\ TellDue(d) => TellDue(d)'
          /\ WatchDue(d) => WatchDue(d)'
      BY <1>4, <1>5, <2>2
    <3>2. CASE d = e
      <4>1. AddDue(d)' /\ WatchDue(d)'
        BY <2>2, <3>2 DEF AddDue, WatchDue
      <4>2. Goes(d)' => TellDue(d)' \/ Goes(d)
        BY <2>1, <2>2, <3>2 DEF Goes, TellDue
      <4>3. SpokenOK(d)'
        BY <1>3, <3>0, <3>1, <4>1, <4>2, SpokenKept
      <4>4. ListedOK(d)'
        BY <1>1, <1>3, <3>0, <3>1, <4>1, <4>2, ListedKept
      <4> QED
        BY <4>3, <4>4
    <3>3. CASE d # e
      <4>1. (Goes(d)' <=> Goes(d)) /\ (d \in Ready' <=> d \in Ready)
        BY <1>4, <3>3 DEF Goes, Ready
      <4>2. SpokenOK(d)'
        BY <1>3, <1>4, <3>0, <3>1, <3>3, <4>1, SpokenKept
      <4>3. ListedOK(d)'
        BY <1>1, <1>3, <1>4, <3>0, <3>1, <3>3, <4>1, ListedKept
      <4> QED
        BY <4>2, <4>3
    <3> QED
      BY <3>2, <3>3
  <2> QED
    BY <1>2, <2>3, <2>4, <2>5 DEF HotplugInv, ToldOK
<1> QED
  BY <1>6, <1>7

\* What the first uevent of a device leaves behind it.
LEMMA FirstTaken ==
  ASSUME TypeOK, UeventsOK, NEW d \in Devices, uevents[d] # <<>>,
         uevents'[d] = Tail(uevents[d])
  PROVE  /\ Head(uevents[d]) \in {"add", "remove"}
         /\ d \in present /\ uevents'[d] = <<>> => Head(uevents[d]) = "add"
         /\ uevents'[d] # <<>> =>
              uevents'[d][Len(uevents'[d])] = uevents[d][Len(uevents[d])]
         /\ d \notin present /\ Head(uevents[d]) = "add" => RemoveDue(d)'
         /\ RemoveDue(d) => Head(uevents[d]) = "remove" \/ RemoveDue(d)'
<1> PICK u : u = uevents[d]
  OBVIOUS
<1> PICK t : t = uevents'[d]
  OBVIOUS
<1>0. u \in Seq({"add", "remove"}) /\ u # <<>> /\ t = Tail(u)
  BY DEF TypeOK
<1>1. /\ t \in Seq({"add", "remove"}) /\ Head(u) \in {"add", "remove"}
      /\ Head(u) = u[1]
      /\ Len(u) \in Nat /\ Len(u) > 0 /\ Len(t) = Len(u) - 1
      /\ \A i \in 1 .. Len(u) - 1 : t[i] = u[i + 1]
      /\ DOMAIN u = 1 .. Len(u)
      /\ DOMAIN t = 1 .. Len(u) - 1
  BY <1>0, Advanced
<1>2. u[Len(u)] = IF d \in present THEN "add" ELSE "remove"
  BY <1>0 DEF UeventsOK
<1>3. t = <<>> => Len(t) = 0
  BY EmptySeq
<1>4. t = <<>> => Head(u) = u[Len(u)]
  BY <1>1, <1>3
<1>5. t # <<>> => t[Len(t)] = u[Len(u)]
  <2>1. t # <<>> => Len(t) # 0
    BY <1>1, EmptySeq
  <2>2. t # <<>> => Len(t) \in 1 .. Len(u) - 1 /\ Len(t) + 1 = Len(u)
    BY <1>1, <2>1
  <2> QED
    BY <1>1, <2>2
<1>6. \A i \in DOMAIN u : i # 1 => i - 1 \in DOMAIN t /\ t[i - 1] = u[i]
  <2> SUFFICES ASSUME NEW i \in 1 .. Len(u), i # 1
               PROVE  i - 1 \in 1 .. Len(u) - 1 /\ t[i - 1] = u[i]
    BY <1>1
  <2>1. i - 1 \in 1 .. Len(u) - 1 /\ (i - 1) + 1 = i
    BY <1>1
  <2> QED
    BY <1>1, <2>1
<1>7. ASSUME d \notin present, Head(u) = "add"
      PROVE  RemoveDue(d)'
  <2>1. Len(u) \in DOMAIN u /\ u[Len(u)] = "remove"
    BY <1>1, <1>2, <1>7
  <2>2. Len(u) # 1
    BY <1>1, <1>7, <2>1
  <2> QED
    BY <1>6, <2>1, <2>2 DEF RemoveDue
<1>8. RemoveDue(d) => Head(u) = "remove" \/ RemoveDue(d)'
  BY <1>1, <1>6 DEF RemoveDue
<1> QED
  BY <1>1, <1>2, <1>4, <1>5, <1>7, <1>8

LEMMA UdevKeeps ==
  ASSUME HotplugInv, TypeOK', NEW e \in Devices, UdevRun(e)
  PROVE  HotplugInv'
<1>0. /\ TypeOK /\ HelpersOK /\ ConnsOK /\ UeventsOK /\ OneShotsOK /\ ToldOK
      /\ uevents \in [Devices -> Seq({"add", "remove"})]
      /\ helper \in [Helpers -> HelperType \cup {None}]
  BY DEF HotplugInv, TypeOK
<1>1. /\ uevents[e] # <<>> /\ Foreground(e) = {}
      /\ uevents' = [uevents EXCEPT ![e] = Tail(@)]
      /\ UNCHANGED <<present, medium, pc, conns, reading, listed, untold>>
  BY DEF UdevRun, env, menu
<1>2. PICK h \in Helpers :
        /\ helper[h] = None
        /\ helper' = [helper EXCEPT ![h] =
                        [dev |-> e, poller |-> FALSE, at |-> "start",
                         msg |-> Head(uevents[e]), forked |-> FALSE]]
  BY DEF UdevRun
<1>3. \A k \in Helpers \ {h} : helper'[k] = helper[k]
  BY <1>0, <1>2
<1>4. helper'[h] = [dev |-> e, poller |-> FALSE, at |-> "start",
                    msg |-> Head(uevents[e]), forked |-> FALSE]
  BY <1>0, <1>2
<1>5. /\ uevents'[e] = Tail(uevents[e])
      /\ \A d \in Devices \ {e} : uevents'[d] = uevents[d]
  BY <1>0, <1>1
<1>6. /\ Head(uevents[e]) \in {"add", "remove"}
      /\ e \in present /\ uevents'[e] = <<>> => Head(uevents[e]) = "add"
      /\ uevents'[e] # <<>> =>
           uevents'[e][Len(uevents'[e])] = uevents[e][Len(uevents[e])]
      /\ e \notin present /\ Head(uevents[e]) = "add" => RemoveDue(e)'
      /\ RemoveDue(e) => Head(uevents[e]) = "remove" \/ RemoveDue(e)'
  BY <1>0, <1>1, <1>5, FirstTaken
<1>7. helper'[h] # None
  <2>1. helper'[h] \in HelperType
    BY <1>4, <1>6 DEF HelperType
  <2> QED
    BY <2>1, HotplugAssumption
<1>8. /\ ConnsOK' /\ Queue' = Queue
      /\ \A d \in Devices : \A i \in Queue :
           /\ About(d, i)' <=> About(d, i)
           /\ About(d, i) => Says(Msg(i))' = Says(Msg(i))
  <2>1. ~ At(h, "write") /\ ~ At(h, "write")'
    BY <1>2, <1>4 DEF At
  <2> QED
    BY <1>0, <1>1, <1>3, <2>1, SaysKept
<1>9. HelpersOK'
  <2>1. HelperOK(helper'[h])
    BY <1>4 DEF HelperOK
  <2> QED
    BY <1>0, <1>3, <2>1 DEF HelpersOK, HelperOK
<1>10. UeventsOK'
  BY <1>0, <1>1, <1>5, <1>6 DEF UeventsOK
<1>11. OneShotsOK'
  <2> SUFFICES ASSUME NEW k \in Helpers, helper'[k] # None
               PROVE  OneShotOK(helper[k])'
    BY DEF OneShotsOK
  <2>1. CASE k = h
    BY <1>1, <1>4, <1>6, <2>1 DEF OneShotOK
  <2>2. CASE k # h /\ helper[k].poller
    BY <1>3, <2>2 DEF OneShotOK
  <2>3. CASE k # h /\ ~ helper[k].poller
    <3>1. /\ helper'[k] = helper[k] /\ helper[k] # None
          /\ helper[k] \in HelperType /\ OneShotOK(helper[k])
          /\ ~ helper[k].forked
      BY <1>0, <1>3, <2>3, HelperTyped DEF OneShotsOK, HelpersOK, HelperOK
    <3>2. helper[k].dev # e /\ helper[k].dev \in Devices
      BY <1>1, <3>1 DEF Foreground, HelperType
    <3> QED
      BY <1>1, <1>5, <3>1, <3>2 DEF OneShotOK, RemoveDue
  <2> QED
    BY <2>1, <2>2, <2>3
<1>12. ASSUME NEW d \in Devices
       PROVE  /\ d \in present /\ AddDue(d) => AddDue(d)'
              /\ TellDue(d) => TellDue(d)'
              /\ d \in present /\ WatchDue(d) => WatchDue(d)'
  <2>0. /\ \A k \in Helpers : Of(k, d) => Of(k, d)' /\ helper'[k] = helper[k]
        /\ d = e => Of(h, d)'
    BY <1>2, <1>3, <1>4, <1>7 DEF Of
  <2>1. /\ helper'[h].at = "start" /\ helper'[h].msg = Head(uevents[e])
    BY <1>4
  <2>2. ASSUME d \in present, AddDue(d)
        PROVE  AddDue(d)'
    <3>1. CASE uevents[d] # <<>>
      BY <1>5, <1>6, <2>0, <2>1, <2>2, <3>1 DEF AddDue, Adds
    <3>2. CASE \E k \in Helpers : Of(k, d) /\ Adds(helper[k])
      BY <2>0, <3>2 DEF AddDue, Adds
    <3> QED
      BY <2>2, <3>1, <3>2 DEF AddDue
  <2>3. ASSUME TellDue(d)
        PROVE  TellDue(d)'
    <3>1. CASE RemoveDue(d)
      <4>1. CASE d # e
        BY <1>5, <3>1, <4>1 DEF TellDue, RemoveDue
      <4>2. CASE d = e
        BY <1>6, <2>0, <2>1, <3>1, <4>2 DEF TellDue, Tells
      <4> QED
        BY <4>1, <4>2
    <3>2. CASE \E k \in Helpers : Of(k, d) /\ Tells(helper[k])
      BY <2>0, <3>2 DEF TellDue, Tells
    <3> QED
      BY <2>3, <3>1, <3>2 DEF TellDue
  <2>4. ASSUME d \in present, WatchDue(d)
        PROVE  WatchDue(d)'
    <3>1. CASE uevents[d] # <<>>
      BY <1>5, <1>6, <2>0, <2>1, <2>4, <3>1 DEF WatchDue, Watches
    <3>2. CASE \E k \in Helpers : Of(k, d) /\ Watches(helper[k])
      BY <2>0, <3>2 DEF WatchDue, Watches
    <3> QED
      BY <2>4, <3>1, <3>2 DEF WatchDue
  <2> QED
    BY <2>2, <2>3, <2>4
<1>13. ToldOK'
  <2> SUFFICES ASSUME NEW d \in Devices
               PROVE  SpokenOK(d)' /\ ListedOK(d)'
    BY DEF ToldOK
  <2>1. SpokenOK(d) /\ ListedOK(d)
    BY <1>0 DEF ToldOK
  <2>2. (Goes(d)' <=> Goes(d)) /\ Ready' = Ready
    BY <1>1 DEF Goes, Ready
  <2>3. SpokenOK(d)'
    BY <1>1, <1>8, <1>12, <2>1, <2>2, SpokenKept
  <2>4. ListedOK(d)'
    BY <1>1, <1>8, <1>12, <2>1, <2>2, ListedKept
  <2> QED
    BY <2>3, <2>4
<1> QED
  BY <1>8, <1>9, <1>10, <1>11, <1>13 DEF HotplugInv

\* Only pollers survive killall.
LEMMA KillKeeps == HotplugInv /\ TypeOK' /\ KillHelpers => HotplugInv'
<1> SUFFICES ASSUME HotplugInv, TypeOK', KillHelpers
             PROVE  HotplugInv'
  OBVIOUS
<1>0. /\ TypeOK /\ HelpersOK /\ ConnsOK /\ UeventsOK /\ OneShotsOK /\ ToldOK
      /\ helper \in [Helpers -> HelperType \cup {None}]
  BY DEF HotplugInv, TypeOK
<1>1. PICK escaped \in SUBSET {h \in Helpers :
                              /\ At(h, "plug") \/ At(h, "unplug")
                              /\ ~ helper[h].forked} :
        helper' = [h \in Helpers |->
                    IF h \in escaped THEN [helper[h] EXCEPT !.forked = TRUE]
                    ELSE None]
  BY DEF KillHelpers
<1>2. /\ UNCHANGED <<env, uevents>> /\ pc' \in {"start", "script"}
  BY DEF KillHelpers
<1>3. ASSUME NEW h \in Helpers, helper'[h] # None
      PROVE  /\ HelperOK(helper'[h]) /\ helper'[h].poller
             /\ helper'[h].at # "write"
  <2>1. /\ helper[h] # None /\ helper[h].at \in {"plug", "unplug"}
        /\ helper'[h] = [helper[h] EXCEPT !.forked = TRUE]
    BY <1>1, <1>3 DEF At
  <2>2. helper[h] \in HelperType /\ HelperOK(helper[h])
    BY <1>0, <2>1 DEF HelpersOK
  <2>3. /\ helper'[h].dev = helper[h].dev /\ helper'[h].msg = helper[h].msg
        /\ helper'[h].at = helper[h].at
        /\ helper'[h].poller <=> helper[h].poller
    BY <2>1, <2>2 DEF HelperType
  <2> QED
    BY <2>1, <2>2, <2>3 DEF HelperOK
<1>4. HelpersOK' /\ OneShotsOK'
  BY <1>3 DEF HelpersOK, HelperOK, OneShotsOK, OneShotOK
<1>5. UeventsOK'
  BY <1>0, <1>2 DEF UeventsOK, env
<1>6. ConnsOK' /\ ToldOK'
  <2>1. ~ Listening' /\ pc' # "bound"
    BY <1>2 DEF Listening
  <2>2. \A h \in Helpers : ~ At(h, "write")'
    BY <1>3 DEF At
  <2> QED
    BY <2>1, <2>2, Idle
<1> QED
  BY <1>4, <1>5, <1>6 DEF HotplugInv

LEMMA ScriptKeeps ==
  ASSUME HotplugInv, TypeOK', Bind \/ Quit \/ Script
  PROVE  HotplugInv'
<1>0. TypeOK /\ HelpersOK /\ ConnsOK /\ UeventsOK /\ OneShotsOK /\ ToldOK
  BY DEF HotplugInv
<1>1. UNCHANGED <<present, uevents, helper>>
  BY DEF Bind, Quit, Script, env
<1>2. HelpersOK' /\ UeventsOK' /\ OneShotsOK'
  BY <1>0, <1>1 DEF HelpersOK, UeventsOK, OneShotsOK, OneShotOK, RemoveDue
<1>3. /\ ~ Listening'
      /\ pc' = "bound" => listed' = {}
      /\ pc' \in {"start", "bound"} => pc = "start"
  BY DEF Bind, Quit, Script, Listening
<1>4. pc' \in {"start", "bound"} => \A h \in Helpers : ~ At(h, "write")'
  BY <1>0, <1>1, <1>3 DEF ConnsOK, At
<1>5. ConnsOK' /\ ToldOK'
  BY <1>3, <1>4, Idle
<1> QED
  BY <1>2, <1>5 DEF HotplugInv

LEMMA ListenKeeps == HotplugInv /\ TypeOK' /\ Listen => HotplugInv'
<1> SUFFICES ASSUME HotplugInv, TypeOK', Listen
             PROVE  HotplugInv'
  OBVIOUS
<1>0. TypeOK /\ HelpersOK /\ ConnsOK /\ UeventsOK /\ OneShotsOK /\ ToldOK
  BY DEF HotplugInv
<1>1. /\ UNCHANGED <<present, uevents, helper, conns, reading, listed, untold>>
      /\ pc = "bound" /\ pc' = "listening"
  BY DEF Listen, env
<1>2. HelpersOK' /\ UeventsOK' /\ OneShotsOK'
  BY <1>0, <1>1 DEF HelpersOK, UeventsOK, OneShotsOK, OneShotOK, RemoveDue
<1>3. conns' = <<>> /\ reading' = None
  BY <1>0, <1>1 DEF TypeOK, Listening
<1>4. Queue' = {0} /\ Msg(0)' = None
  BY <1>3, EmptySeq DEF Queue, Msg
<1>5. ConnsOK'
  BY <1>0, <1>1, <1>4 DEF ConnsOK, At
<1>6. ToldOK'
  BY <1>0, <1>1, <1>4 DEF ToldOK, SpokenOK, LastAbout, About, NoneAbout, ListedOK
<1> QED
  BY <1>2, <1>5, <1>6 DEF HotplugInv

\* A trigger of changes leaves everybody as it was.
LEMMA TriggerChanges ==
  ASSUME HotplugInv, TypeOK', Trigger, untold' = present, uevents' = uevents
  PROVE  HotplugInv'
<1>0. TypeOK /\ HelpersOK /\ ConnsOK /\ UeventsOK /\ OneShotsOK /\ ToldOK
  BY DEF HotplugInv
<1>1. /\ UNCHANGED <<present, medium, helper, conns, reading, listed>>
      /\ pc = "listening" /\ pc' = "loop"
  BY DEF Trigger, env
<1>2. HelpersOK' /\ ConnsOK'
  BY <1>0, <1>1 DEF HelpersOK, ConnsOK, Queue, Msg, Of, At, Mine, Listening
<1>3. UeventsOK' /\ OneShotsOK'
  BY <1>0, <1>1 DEF UeventsOK, OneShotsOK, OneShotOK, RemoveDue
<1>4. ASSUME NEW d \in Devices
      PROVE  SpokenOK(d)' /\ ListedOK(d)'
  <2>0. SpokenOK(d) /\ ListedOK(d) /\ d \notin listed
    BY <1>0, <1>1 DEF ToldOK, ListedOK
  <2>1. /\ AddDue(d)' <=> AddDue(d)
        /\ TellDue(d)' <=> TellDue(d)
        /\ WatchDue(d)' <=> WatchDue(d)
    BY <1>1 DEF AddDue, TellDue, WatchDue, RemoveDue, Of, Adds, Tells, Watches
  <2>2. /\ Queue' = Queue /\ (Goes(d)' <=> Goes(d))
        /\ NoneAbout(d)' <=> NoneAbout(d)
        /\ \A i \in Queue : /\ About(d, i)' <=> About(d, i)
                            /\ Says(Msg(i))' = Says(Msg(i))
    BY <1>1 DEF Queue, Goes, About, NoneAbout, Msg, Says
  <2>3. SpokenOK(d)'
    BY <1>1, <2>0, <2>1, <2>2, SpokenKept
  <2>4. ListedOK(d)'
    BY <1>1, <2>0, <2>1, <2>2 DEF ListedOK, Ready, Listening
  <2> QED
    BY <2>3, <2>4
<1> QED
  BY <1>2, <1>3, <1>4 DEF HotplugInv, ToldOK

\* A trigger of adds makes an add due of every device that is there.
LEMMA TriggerAdds ==
  ASSUME HotplugInv, TypeOK', Trigger, untold' = {},
         uevents' = [d \in Devices |->
                      IF d \in present THEN Append(uevents[d], "add") ELSE uevents[d]]
  PROVE  HotplugInv'
<1>0. TypeOK /\ HelpersOK /\ ConnsOK /\ UeventsOK /\ OneShotsOK /\ ToldOK
  BY DEF HotplugInv
<1>1. /\ UNCHANGED <<present, medium, helper, conns, reading, listed>>
      /\ pc = "listening" /\ pc' = "loop"
  BY DEF Trigger, env
<1>2. \A d \in Devices :
        /\ d \in present => uevents'[d] = Append(uevents[d], "add")
        /\ d \notin present => uevents'[d] = uevents[d]
  OBVIOUS
<1>3. \A d \in present :
        d \in Devices =>
          /\ uevents'[d] # <<>> /\ uevents'[d][Len(uevents'[d])] = "add"
          /\ RemoveDue(d) => RemoveDue(d)'
  BY <1>0, <1>2, Noted
<1>4. \A d \in Devices : RemoveDue(d) => RemoveDue(d)'
  BY <1>2, <1>3 DEF RemoveDue
<1>5. HelpersOK' /\ ConnsOK'
  BY <1>0, <1>1 DEF HelpersOK, ConnsOK, Queue, Msg, Of, At, Mine, Listening
<1>6. UeventsOK'
  BY <1>0, <1>1, <1>2, <1>3 DEF UeventsOK
<1>7. OneShotsOK'
  <2> SUFFICES ASSUME NEW k \in Helpers, helper[k] # None
               PROVE  OneShotOK(helper[k])'
    BY <1>1 DEF OneShotsOK
  <2>1. OneShotOK(helper[k]) /\ helper[k].dev \in Devices
    BY <1>0, HelperTyped DEF OneShotsOK, HelperType
  <2> QED
    BY <1>1, <1>3, <1>4, <2>1 DEF OneShotOK
<1>8. ASSUME NEW d \in Devices
      PROVE  SpokenOK(d)' /\ ListedOK(d)'
  <2>0. SpokenOK(d) /\ d \notin listed
    BY <1>0, <1>1 DEF ToldOK, ListedOK
  <2>1. d \in present' => AddDue(d)' /\ WatchDue(d)'
    BY <1>1, <1>3, <1>8 DEF AddDue, WatchDue
  <2>2. TellDue(d) => TellDue(d)'
    BY <1>1, <1>4 DEF TellDue, Of, Tells
  <2>3. /\ Queue' = Queue /\ (Goes(d)' <=> Goes(d))
        /\ \A i \in Queue : /\ About(d, i)' <=> About(d, i)
                            /\ Says(Msg(i))' = Says(Msg(i))
    BY <1>1 DEF Queue, Goes, About, Msg, Says
  <2>4. SpokenOK(d)'
    BY <2>0, <2>1, <2>2, <2>3, SpokenKept
  <2>5. ListedOK(d)'
    BY <1>1, <2>0, <2>1 DEF ListedOK, Ready
  <2> QED
    BY <2>4, <2>5
<1> QED
  BY <1>5, <1>6, <1>7, <1>8 DEF HotplugInv, ToldOK

LEMMA TriggerKeeps == HotplugInv /\ TypeOK' /\ Trigger => HotplugInv'
<1> SUFFICES ASSUME HotplugInv, TypeOK', Trigger
             PROVE  HotplugInv'
  OBVIOUS
<1>1. PICK action \in TriggerActions :
        LET added == IF action = "add" THEN present ELSE {} IN
        /\ uevents' = [d \in Devices |->
                        IF d \in added THEN Append(uevents[d], "add") ELSE uevents[d]]
        /\ untold' = present \ added
  BY DEF Trigger
<1>2. CASE action = "add"
  BY <1>1, <1>2, TriggerAdds
<1>3. CASE action # "add"
  <2>1. untold' = present /\ uevents' = [d \in Devices |-> uevents[d]]
    BY <1>1, <1>3
  <2>2. uevents' = uevents
    BY <2>1 DEF HotplugInv, TypeOK
  <2> QED
    BY <2>1, <2>2, TriggerChanges
<1> QED
  BY <1>2, <1>3

\* accept moves the queue up by one.
LEMMA AcceptKeeps == HotplugInv /\ TypeOK' /\ Accept => HotplugInv'
<1> SUFFICES ASSUME HotplugInv, TypeOK', Accept
             PROVE  HotplugInv'
  OBVIOUS
<1>0. TypeOK /\ HelpersOK /\ ConnsOK /\ UeventsOK /\ OneShotsOK /\ ToldOK
  BY DEF HotplugInv
<1>1. /\ UNCHANGED <<present, medium, uevents, helper, listed, untold>>
      /\ pc = "loop" /\ pc' = "read" /\ conns # <<>>
      /\ reading' = Head(conns) /\ conns' = Tail(conns)
  BY DEF Accept, env
<1>2. reading = None /\ conns \in Seq(ConnType)
  BY <1>0, <1>1 DEF TypeOK
<1>3. /\ Len(conns) \in Nat /\ Len(conns) > 0
      /\ Len(conns') = Len(conns) - 1
      /\ reading' = conns[1]
      /\ \A i \in 1 .. Len(conns) - 1 : conns'[i] = conns[i + 1]
  BY <1>1, <1>2, Advanced
<1>4. \A i \in Queue' : i + 1 \in Queue /\ Msg(i)' = Msg(i + 1)
  <2> SUFFICES ASSUME NEW i \in 0 .. Len(conns) - 1
               PROVE  i + 1 \in 0 .. Len(conns) /\ Msg(i)' = Msg(i + 1)
    BY <1>3 DEF Queue
  <2>1. CASE i = 0
    BY <1>3, <2>1 DEF Msg
  <2>2. CASE i # 0
    <3>1. i \in 1 .. Len(conns) - 1 /\ i + 1 # 0 /\ i + 1 \in 0 .. Len(conns)
      BY <1>3, <2>2
    <3> QED
      BY <1>3, <2>2, <3>1 DEF Msg
  <2> QED
    BY <2>1, <2>2
<1>5. \A j \in Queue : j # 0 => \E i \in Queue' : j = i + 1
  <2> SUFFICES ASSUME NEW j \in 0 .. Len(conns), j # 0
               PROVE  \E i \in 0 .. Len(conns) - 1 : j = i + 1
    BY <1>3 DEF Queue
  <2>1. j - 1 \in 0 .. Len(conns) - 1 /\ j = (j - 1) + 1
    BY <1>3
  <2> QED
    BY <2>1
<1>6. Msg(0) = None
  BY <1>2 DEF Msg
<1>7. HelpersOK' /\ UeventsOK' /\ OneShotsOK'
  BY <1>0, <1>1 DEF HelpersOK, UeventsOK, OneShotsOK, OneShotOK, RemoveDue
<1>8. ConnsOK'
  <2>1. \A i \in Queue' : Msg(i)' # None /\ Msg(i)'.msg = None =>
          Of(Msg(i).by, Msg(i).dev)' /\ At(Msg(i).by, "write")'
    BY <1>0, <1>1, <1>4 DEF ConnsOK, Of, At
  <2>2. ASSUME NEW k \in Helpers, At(k, "write")'
        PROVE  \E i \in Queue' : Mine(k, Msg(i))'
    <3>1. PICK j \in Queue : Mine(k, Msg(j))
      BY <1>0, <1>1, <2>2 DEF ConnsOK, At, Listening
    <3>2. PICK i \in Queue' : j = i + 1
      BY <1>5, <1>6, <3>1 DEF Mine
    <3> QED
      BY <1>4, <3>1, <3>2 DEF Mine
  <2> QED
    BY <1>1, <2>1, <2>2 DEF ConnsOK
<1>9. ASSUME NEW d \in Devices
      PROVE  SpokenOK(d)' /\ ListedOK(d)'
  <2>0. SpokenOK(d) /\ ListedOK(d)
    BY <1>0 DEF ToldOK
  <2>1. \A i \in Queue' : (About(d, i)' <=> About(d, i + 1))
    BY <1>4 DEF About
  <2>2. \A i \in Queue' : Says(Msg(i))' = Says(Msg(i + 1))
    BY <1>1, <1>4 DEF Says
  <2>3. ASSUME NEW i \in Queue', LastAbout(d, i)'
        PROVE  LastAbout(d, i + 1)
    <3>1. i + 1 \in Queue /\ About(d, i + 1)
      BY <1>4, <2>1, <2>3 DEF LastAbout
    <3>2. ASSUME NEW j \in Queue, j > i + 1
          PROVE  ~ About(d, j)
      <4>1. i \in Nat /\ j # 0
        BY <1>3, <3>2 DEF Queue
      <4>2. PICK m \in Queue' : j = m + 1
        BY <1>5, <4>1
      <4>3. m \in Nat /\ m > i
        BY <1>3, <3>2, <4>1, <4>2 DEF Queue
      <4> QED
        BY <2>1, <2>3, <4>2, <4>3 DEF LastAbout
    <3> QED
      BY <3>1, <3>2 DEF LastAbout
  <2>4. NoneAbout(d)' <=> NoneAbout(d)
    BY <1>4, <1>5, <1>6, <2>1 DEF NoneAbout, About
  <2>5. /\ AddDue(d)' <=> AddDue(d)
        /\ TellDue(d)' <=> TellDue(d)
        /\ WatchDue(d)' <=> WatchDue(d)
        /\ Goes(d)' <=> Goes(d)
    BY <1>1 DEF AddDue, TellDue, WatchDue, RemoveDue, Goes, Of, Adds, Tells, Watches
  <2>6. SpokenOK(d)'
    <3> SUFFICES ASSUME NEW i \in Queue', LastAbout(d, i)'
                 PROVE  /\ Says(Msg(i))' = "remove" /\ d \in present' => AddDue(d)'
                        /\ Says(Msg(i))' = "add" /\ Goes(d)' => TellDue(d)'
      BY DEF SpokenOK
    <3>1. i + 1 \in Queue /\ LastAbout(d, i + 1)
      BY <1>4, <2>3
    <3> QED
      BY <1>1, <2>0, <2>2, <2>5, <3>1 DEF SpokenOK
  <2>7. ListedOK(d)'
    BY <1>1, <2>0, <2>4, <2>5 DEF ListedOK, Ready, Listening
  <2> QED
    BY <2>6, <2>7
<1> QED
  BY <1>7, <1>8, <1>9 DEF HotplugInv, ToldOK

\* What is read last about a disk decides, and is right or not the last word.
LEMMA ReadKeeps == HotplugInv /\ TypeOK' /\ Read => HotplugInv'
<1> SUFFICES ASSUME HotplugInv, TypeOK', Read
             PROVE  HotplugInv'
  OBVIOUS
<1>0. TypeOK /\ HelpersOK /\ ConnsOK /\ UeventsOK /\ OneShotsOK /\ ToldOK
  BY DEF HotplugInv
<1>1. /\ UNCHANGED <<present, medium, uevents, helper, conns>>
      /\ pc = "read" /\ pc' = "loop"
      /\ reading.msg # None /\ reading' = None
      /\ untold' = untold \ {reading.dev}
      /\ listed' = IF reading.msg = "add" /\ reading.dev \in Ready
                   THEN listed \cup {reading.dev} ELSE listed \ {reading.dev}
  BY DEF Read, env
<1>2. reading \in ConnType /\ reading # None
  BY <1>0, <1>1, HotplugAssumption DEF TypeOK
<1>3. reading.msg \in {"add", "remove"}
  BY <1>1, <1>2 DEF ConnType
<1>4. /\ Queue' = Queue /\ 0 \in Queue /\ \A i \in Queue : i # 0 => i > 0
  BY <1>0, <1>1, MsgType DEF Queue
<1>5. /\ Msg(0) = reading /\ Msg(0)' = None
      /\ \A i \in Queue : i # 0 => Msg(i)' = Msg(i)
  BY <1>1 DEF Msg
<1>6. HelpersOK' /\ UeventsOK' /\ OneShotsOK'
  BY <1>0, <1>1 DEF HelpersOK, UeventsOK, OneShotsOK, OneShotOK, RemoveDue
<1>7. ConnsOK'
  <2>1. \A i \in Queue' : Msg(i)' # None /\ Msg(i)'.msg = None =>
          Of(Msg(i).by, Msg(i).dev)' /\ At(Msg(i).by, "write")'
    BY <1>0, <1>1, <1>4, <1>5 DEF ConnsOK, Of, At
  <2>2. ASSUME NEW k \in Helpers, At(k, "write")'
        PROVE  \E i \in Queue' : Mine(k, Msg(i))'
    <3>1. PICK j \in Queue : Mine(k, Msg(j))
      BY <1>0, <1>1, <2>2 DEF ConnsOK, At, Listening
    <3>2. j # 0
      BY <1>1, <1>5, <3>1 DEF Mine
    <3> QED
      BY <1>4, <1>5, <3>1, <3>2 DEF Mine
  <2> QED
    BY <1>1, <2>1, <2>2 DEF ConnsOK
<1>8. ASSUME NEW d \in Devices
      PROVE  SpokenOK(d)' /\ ListedOK(d)'
  <2>0. SpokenOK(d) /\ ListedOK(d)
    BY <1>0 DEF ToldOK
  <2>1. /\ ~ About(d, 0)'
        /\ \A i \in Queue : i # 0 => (About(d, i)' <=> About(d, i))
        /\ \A i \in Queue : i # 0 => Says(Msg(i))' = Says(Msg(i))
    BY <1>1, <1>5 DEF About, Says
  <2>2. \A i \in Queue' : LastAbout(d, i)' => i # 0 /\ LastAbout(d, i)
    <3> SUFFICES ASSUME NEW i \in Queue, LastAbout(d, i)'
                 PROVE  i # 0 /\ LastAbout(d, i)
      BY <1>4
    <3>1. i # 0 /\ About(d, i)
      BY <2>1 DEF LastAbout
    <3>2. \A j \in Queue : j > i => j # 0
      BY <1>0, <1>4, <3>1, MsgType DEF Queue
    <3> QED
      BY <1>4, <2>1, <3>1, <3>2 DEF LastAbout
  <2>3. /\ AddDue(d)' <=> AddDue(d)
        /\ TellDue(d)' <=> TellDue(d)
        /\ WatchDue(d)' <=> WatchDue(d)
        /\ Goes(d)' <=> Goes(d)
        /\ Ready' = Ready
    BY <1>1 DEF AddDue, TellDue, WatchDue, RemoveDue, Goes, Of, Adds, Tells, Watches,
       Ready
  <2>4. SpokenOK(d)'
    <3> SUFFICES ASSUME NEW i \in Queue', LastAbout(d, i)'
                 PROVE  /\ Says(Msg(i))' = "remove" /\ d \in present' => AddDue(d)'
                        /\ Says(Msg(i))' = "add" /\ Goes(d)' => TellDue(d)'
      BY DEF SpokenOK
    <3>1. i \in Queue /\ LastAbout(d, i) /\ Says(Msg(i))' = Says(Msg(i))
      BY <1>4, <2>1, <2>2
    <3> QED
      BY <1>1, <2>0, <2>3, <3>1 DEF SpokenOK
  <2>5. ~ NoneAbout(d)' => ~ NoneAbout(d)
    BY <1>4, <2>1 DEF NoneAbout
  <2>6. CASE reading.dev # d
    <3>1. /\ ~ About(d, 0) /\ (d \in listed' <=> d \in listed)
          /\ d \in untold' <=> d \in untold
      BY <1>1, <1>5, <2>6 DEF About
    <3>2. NoneAbout(d)' <=> NoneAbout(d)
      BY <1>4, <2>1, <2>5, <3>1 DEF NoneAbout
    <3>3. ListedOK(d)'
      BY <1>1, <2>0, <2>3, <3>1, <3>2 DEF ListedOK, Listening
    <3> QED
      BY <2>4, <3>3
  <2>7. CASE reading.dev = d
    <3>1. About(d, 0) /\ Says(Msg(0)) = reading.msg
      BY <1>1, <1>2, <1>5, <2>7 DEF About, Says
    <3>2. NoneAbout(d)' => LastAbout(d, 0)
      BY <1>4, <2>1, <3>1 DEF NoneAbout, LastAbout
    <3>3. NoneAbout(d)' /\ d \in Ready' \ listed' => AddDue(d)'
      <4>1. d \in Ready' \ listed' => reading.msg = "remove" /\ d \in present
        BY <1>1, <1>3, <2>3, <2>7 DEF Ready
      <4> QED
        BY <1>4, <2>0, <2>3, <3>1, <3>2, <4>1 DEF SpokenOK
    <3>4. NoneAbout(d)' /\ d \in listed' /\ Goes(d)' => TellDue(d)'
      <4>1. d \in listed' => reading.msg = "add"
        BY <1>1, <2>7
      <4> QED
        BY <1>4, <2>0, <2>3, <3>1, <3>2, <4>1 DEF SpokenOK
    <3>5. ~ NoneAbout(d)
      BY <1>4, <3>1 DEF NoneAbout
    <3>6. d \in present' \cap Removable => WatchDue(d)'
      BY <1>1, <2>0, <2>3, <3>5 DEF ListedOK, Listening
    <3>7. d \notin untold'
      BY <1>1, <2>7
    <3>8. ListedOK(d)'
      BY <1>1, <3>3, <3>4, <3>6, <3>7 DEF ListedOK
    <3> QED
      BY <2>4, <3>8
  <2> QED
    BY <2>6, <2>7
<1> QED
  BY <1>6, <1>7, <1>8 DEF HotplugInv, ToldOK

LEMMA InitHotplug == Init => HotplugInv
<1> SUFFICES ASSUME Init
             PROVE  HotplugInv
  OBVIOUS
<1>1. TypeOK
  BY InitType
<1>2. /\ \A h \in Helpers : helper[h] = None
      /\ pc = "kill_first" /\ conns = <<>> /\ reading = None
  BY DEF Init
<1>3. Queue = {0} /\ Msg(0) = None
  BY <1>2, EmptySeq DEF Queue, Msg
<1>4. HelpersOK /\ OneShotsOK /\ ConnsOK
  BY <1>2, <1>3 DEF HelpersOK, OneShotsOK, ConnsOK, Listening
<1>5. ToldOK
  BY <1>2, <1>3 DEF ToldOK, SpokenOK, ListedOK, LastAbout, About,
     Listening
<1>6. UeventsOK
  <2>1. PICK late \in SUBSET present :
          uevents = [d \in Devices |-> IF d \in late THEN <<"add">> ELSE <<>>]
    BY DEF Init
  <2>2. Len(<<"add">>) = 1 /\ <<"add">>[1] = "add"
    OBVIOUS
  <2> QED
    BY <2>1, <2>2 DEF UeventsOK
<1> QED
  BY <1>1, <1>4, <1>5, <1>6 DEF HotplugInv

LEMMA StepHotplug == HotplugInv /\ [Next]_vars => HotplugInv'
<1> SUFFICES ASSUME HotplugInv, [Next]_vars
             PROVE  HotplugInv'
  OBVIOUS
<1>0. TypeOK'
  BY StepType DEF HotplugInv
<1>1. CASE UNCHANGED vars
  BY <1>0, <1>1 DEF vars, env, menu, HotplugInv, HelpersOK, ConnsOK, UeventsOK,
     OneShotsOK, OneShotOK, ToldOK, SpokenOK, ListedOK, Queue, Msg, Says, About,
     NoneAbout, LastAbout, Of, At, Mine, Listening, RemoveDue, AddDue, TellDue,
     WatchDue, Adds, Tells, Watches, Goes, Ready
<1>2. CASE Environment
  BY <1>0, <1>2, EnvironmentKeeps DEF Environment
<1>3. CASE Serve
  BY <1>0, <1>3, KillKeeps, ScriptKeeps, ListenKeeps, TriggerKeeps, AcceptKeeps,
     ReadKeeps DEF Serve
<1>4. ASSUME NEW h \in Helpers, Helper(h)
      PROVE  HotplugInv'
  BY <1>0, <1>4, PollKeeps, ConnectKeeps, RefusedKeeps, WriteKeeps, BrokenKeeps
     DEF Helper
<1>5. CASE Quit
  BY <1>0, <1>5, ScriptKeeps
<1> QED
  BY <1>0, <1>1, <1>2, <1>3, <1>4, <1>5, UdevKeeps DEF Next

LEMMA InvIsRight == HotplugInv => QuietIsRight
<1> SUFFICES ASSUME HotplugInv, NEW d \in Devices, Quiet(d)
             PROVE  d \in listed <=> d \in Ready \ untold
  BY DEF QuietIsRight
<1>0. /\ TypeOK /\ HelpersOK /\ ListedOK(d)
      /\ reading = None /\ medium \subseteq present /\ pc = "loop"
      /\ uevents[d] = <<>>
  BY DEF HotplugInv, ToldOK, TypeOK, Quiet
<1>1. NoneAbout(d)
  BY <1>0, MsgType DEF Quiet, ToSet, NoneAbout, About, Queue, Msg
<1>2. ASSUME NEW k \in Helpers, Of(k, d)
      PROVE  \/ /\ helper[k].at = "plug"
                /\ d \in (present \ medium) \cap Removable
             \/ /\ helper[k].at = "unplug" /\ helper[k].msg = "add"
                /\ d \in medium
  BY <1>0, <1>2 DEF Quiet, Of, HelpersOK, HelperOK
<1>3. d \in Ready => ~ \E k \in Helpers : Of(k, d) /\ Adds(helper[k])
  BY <1>2, HotplugAssumption DEF Adds, Ready
<1>4. d \notin Ready => Goes(d) /\ ~ \E k \in Helpers : Of(k, d) /\ Tells(helper[k])
  BY <1>0, <1>2 DEF Tells, Ready, Goes, Devices
<1>5. ~ RemoveDue(d)
  BY <1>0, EmptySeq DEF RemoveDue
<1> QED
  BY <1>0, <1>1, <1>3, <1>4, <1>5 DEF ListedOK, AddDue, TellDue

\* Whatever is lost before listen, whichever of two pollers of a drive speaks
\* last, and whoever outlives its drive or a killall: when nothing is under way
\* about a disk, ps3boot lists it exactly if it can be booted from, unless it was
\* there at a trigger that asked for changes and ps3boot has not heard of it since.
THEOREM QuietSafe == Spec => []QuietIsRight
BY InitHotplug, StepHotplug, InvIsRight, PTL DEF Spec
=============================================================================
