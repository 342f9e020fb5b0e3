------------------------------- MODULE Splash -------------------------------
(***************************************************************************)
(* dancesplash: the boot splash.  One daemon ("dancesplashfb -b") shows    *)
(* what the scripts of the boot tell it.  A script tells it by running the *)
(* same program with -u and waiting for its end; program and daemon share  *)
(* a memory segment with a semaphore and one buffer.  An empty buffer is   *)
(* tested without the semaphore, on both sides.                            *)
(*                                                                         *)
(* A message is abstracted to who sent it and whether it is QUIT; what the *)
(* screen shows is left out.                                               *)
(***************************************************************************)
EXTENDS Integers

CONSTANTS
  Scripts,      \* rcS and the scripts that go_background lets run beside it
  Daemon,       \* the splash itself
  Empty,        \* a buffer whose first byte is 0
  MaxStarts,    \* bound: how often the daemon is started
  MaxCalls      \* bound: how many messages are sent

ASSUME SplashAssumption ==
  /\ Daemon \notin Scripts
  /\ MaxStarts \in Nat
  /\ MaxCalls \in Nat

Process == Scripts \cup {Daemon}

\* A segment is named by the start of the daemon that created it; 0 is none.
Segs    == 1 .. MaxStarts
Message == [from : Scripts, quit : BOOLEAN]

VARIABLES
  pc,        \* pc[p]: where process p is
  at,        \* at[p]: the segment p has attached
  msg,       \* msg[s]: the argument of -u in the program s runs
  current,   \* the segment shmget finds
  sem,       \* sem[n]: the semaphore of segment n
  data,      \* data[n]: its buffer
  inits,     \* inits[n]: how many times sem_init was called on it
  starts,
  calls

shm  == <<current, sem, data, inits>>
vars == <<pc, at, msg, shm, starts, calls>>

Phases == {"idle", "open", "test", "wait", "asleep", "copy", "post"}
DaemonPhases == {"idle", "open", "init", "clear", "ui", "loop", "wait", "read",
                 "wipe", "post", "close"}

TypeOK ==
  /\ pc \in [Process -> Phases \cup DaemonPhases]
  /\ \A s \in Scripts : pc[s] \in Phases
  /\ pc[Daemon] \in DaemonPhases
  /\ at \in [Process -> 0 .. MaxStarts]
  /\ \A s \in Scripts : pc[s] \in Phases \ {"idle", "open"} => at[s] \in Segs
  /\ pc[Daemon] \in DaemonPhases \ {"idle", "open"} => at[Daemon] \in Segs
  /\ pc[Daemon] # "idle" => starts \in Segs
  /\ msg \in [Scripts -> Message]
  /\ current \in 0 .. MaxStarts
  /\ sem \in [Segs -> Nat]
  /\ data \in [Segs -> Message \cup {Empty}]
  /\ inits \in [Segs -> Nat]
  /\ starts \in 0 .. MaxStarts
  /\ calls \in 0 .. MaxCalls

Init ==
  /\ pc      = [p \in Process |-> "idle"]
  /\ at      = [p \in Process |-> 0]
  /\ msg     \in [Scripts -> [from : Scripts, quit : {FALSE}]]
  /\ \A s \in Scripts : msg[s].from = s
  /\ current = 0
  /\ sem     = [n \in Segs |-> 0]       \* a new segment is all zeroes
  /\ data    = [n \in Segs |-> Empty]
  /\ inits   = [n \in Segs |-> 0]
  /\ starts  = 0
  /\ calls   = 0

-----------------------------------------------------------------------------
(* What both sides do.                                                     *)

Goto(p, from, to) ==
  /\ pc[p] = from
  /\ pc' = [pc EXCEPT ![p] = to]

Attach(p, n) == at' = [at EXCEPT ![p] = n]

Stays == UNCHANGED <<msg, starts, calls>>

\* sem_wait: the semaphore is taken.
Wait(p, to) ==
  /\ Goto(p, "wait", to)
  /\ sem[at[p]] > 0
  /\ sem' = [sem EXCEPT ![at[p]] = @ - 1]
  /\ UNCHANGED <<at, current, data, inits>> /\ Stays

\* sem_post.
Post(p) == sem' = [sem EXCEPT ![at[p]] = @ + 1]

-----------------------------------------------------------------------------
(* dancesplash -u, run by a script.                                        *)

\* log_begin_msg, log_end_msg or splash_finish: the script runs the program
\* and goes on when it has ended.
Call(s) ==
  /\ calls < MaxCalls
  /\ calls' = calls + 1
  /\ Goto(s, "idle", "open")
  /\ \E q \in BOOLEAN : msg' = [msg EXCEPT ![s] = [from |-> s, quit |-> q]]
  /\ UNCHANGED <<at, shm, starts>>

\* No active splash.
NoSplash(s) ==
  /\ current = 0
  /\ Goto(s, "open", "idle")
  /\ UNCHANGED <<at, shm>> /\ Stays

OpenShared(s) ==
  /\ current # 0
  /\ Goto(s, "open", "test")
  /\ Attach(s, current)
  /\ UNCHANGED shm /\ Stays

\* Mutant: the program does not wait for an empty buffer.
SeesAnything(s) ==
  /\ Goto(s, "test", "wait")
  /\ UNCHANGED <<at, shm>> /\ Stays

\* The end of the loop that sleeps as long as the buffer is full.
SeesEmpty(s) ==
  /\ Goto(s, "test", "wait")
  /\ data[at[s]] = Empty
  /\ UNCHANGED <<at, shm>> /\ Stays

\* Nothing says that a process is woken which went to sleep on a semaphore
\* before it was initialised; a later sem_post may do so.
Awake(s) ==
  /\ Goto(s, "asleep", "wait")
  /\ sem[at[s]] > 0
  /\ UNCHANGED <<at, shm>> /\ Stays

Copy(s) ==
  /\ Goto(s, "copy", "post")
  /\ data' = [data EXCEPT ![at[s]] = msg[s]]
  /\ UNCHANGED <<at, current, sem, inits>> /\ Stays

Return(s) ==
  /\ Goto(s, "post", "idle")
  /\ Post(s)
  /\ Attach(s, 0)
  /\ UNCHANGED <<current, data, inits>> /\ Stays

Update(s) ==
  \/ NoSplash(s)
  \/ OpenShared(s)
  \/ SeesEmpty(s)
  \/ Wait(s, "copy")
  \/ Copy(s)
  \/ Return(s)

-----------------------------------------------------------------------------
(* The daemon.                                                             *)

\* splash_start.  start-stop-daemon runs nothing while a process of the same
\* program runs, and daemon() lets the script go on at once.
Start ==
  /\ starts < MaxStarts
  /\ \A s \in Scripts : pc[s] = "idle"
  /\ Goto(Daemon, "idle", "open")
  /\ starts' = starts + 1
  /\ UNCHANGED <<at, shm, msg, calls>>

\* shmget with IPC_CREAT finds the segment that is there, or makes one.
CreateShared ==
  /\ Goto(Daemon, "open", "init")
  /\ current' = IF current = 0 THEN starts ELSE current
  /\ Attach(Daemon, current')
  /\ UNCHANGED <<sem, data, inits>> /\ Stays

\* sem_init.  Who waits on the semaphore already may sleep on.
InitSem ==
  /\ pc[Daemon] = "init"
  /\ sem'   = [sem EXCEPT ![at[Daemon]] = 1]
  /\ inits' = [inits EXCEPT ![at[Daemon]] = @ + 1]
  /\ \E lost \in SUBSET {s \in Scripts : pc[s] = "wait" /\ at[s] = at[Daemon]} :
       pc' = [p \in Process |-> IF p = Daemon THEN "clear"
                                ELSE IF p \in lost THEN "asleep" ELSE pc[p]]
  /\ UNCHANGED <<at, current, data>> /\ Stays

ClearBuffer ==
  /\ Goto(Daemon, "clear", "ui")
  /\ data' = [data EXCEPT ![at[Daemon]] = Empty]
  /\ UNCHANGED <<at, current, sem, inits>> /\ Stays

UiReady ==
  /\ Goto(Daemon, "ui", "loop")
  /\ UNCHANGED <<at, shm>> /\ Stays

\* No framebuffer or no font: main returns and leaves the segment behind.
UiFails ==
  /\ Goto(Daemon, "ui", "idle")
  /\ Attach(Daemon, 0)
  /\ UNCHANGED shm /\ Stays

\* Escape or a quit event ends the loop, wherever the scripts are.
Leave ==
  /\ Goto(Daemon, "loop", "close")
  /\ UNCHANGED <<at, shm>> /\ Stays

\* Mutant: the daemon reads without the semaphore.
ReadsAtOnce ==
  /\ Goto(Daemon, "loop", "read")
  /\ data[at[Daemon]] # Empty
  /\ UNCHANGED <<at, shm>> /\ Stays

SeesMessage ==
  /\ Goto(Daemon, "loop", "wait")
  /\ data[at[Daemon]] # Empty
  /\ UNCHANGED <<at, shm>> /\ Stays

\* QUIT leaves the loop at once: the semaphore stays taken, the buffer full.
IsQuit(n) == data[n] # Empty /\ data[n].quit

ReadQuit ==
  /\ Goto(Daemon, "read", "close")
  /\ IsQuit(at[Daemon])
  /\ UNCHANGED <<at, shm>> /\ Stays

Show ==
  /\ Goto(Daemon, "read", "wipe")
  /\ ~ IsQuit(at[Daemon])
  /\ UNCHANGED <<at, shm>> /\ Stays

Wipe ==
  /\ Goto(Daemon, "wipe", "post")
  /\ data' = [data EXCEPT ![at[Daemon]] = Empty]
  /\ UNCHANGED <<at, current, sem, inits>> /\ Stays

\* Mutant: the daemon keeps the semaphore.
NoUnlock ==
  /\ Goto(Daemon, "post", "loop")
  /\ UNCHANGED <<at, shm>> /\ Stays

Unlock ==
  /\ Goto(Daemon, "post", "loop")
  /\ Post(Daemon)
  /\ UNCHANGED <<at, current, data, inits>> /\ Stays

\* shared_close: nobody finds the segment any more; who has it keeps it.
Close ==
  /\ Goto(Daemon, "close", "idle")
  /\ current' = IF current = at[Daemon] THEN 0 ELSE current
  /\ Attach(Daemon, 0)
  /\ UNCHANGED <<sem, data, inits>> /\ Stays

\* What the daemon does of its own accord.
Serve ==
  \/ CreateShared
  \/ InitSem
  \/ ClearBuffer
  \/ UiReady
  \/ SeesMessage
  \/ Wait(Daemon, "read")
  \/ ReadQuit
  \/ Show
  \/ Wipe
  \/ Unlock
  \/ Close

Next ==
  \/ \E s \in Scripts : Call(s) \/ Update(s) \/ Awake(s)
  \/ Serve
  \/ Start \/ UiFails \/ Leave

Spec == Init /\ [][Next]_vars

\* Programs and daemon go on by themselves.  Nobody has to send a message or
\* to start a daemon, and the framebuffer is there or not.
FairSpec == Spec /\ WF_vars(Serve) /\ \A s \in Scripts : WF_vars(Update(s))

-----------------------------------------------------------------------------
(* Properties.                                                             *)

Inside(n) ==
  {p \in Process : at[p] = n /\ pc[p] \in {"copy", "read", "wipe", "post"}}

\* Of all that share a segment only one at a time copies to its buffer, reads
\* or wipes it (main.c:132-134 and 242-263), also while programs come before the
\* daemon is ready or stay after it has gone.  A segment that a failed daemon
\* left behind is given a new semaphore and is not covered.
OneInside ==
  \A n \in Segs : inits[n] <= 1 => \A p, q \in Inside(n) : p = q

\* The message of a script is never overwritten by the next one of the same
\* script: whoever has seen an empty buffer (main.c:130) does not find a message
\* of its own there when its turn comes to copy.  Between two scripts messages
\* do get lost, because both may have seen the buffer empty.
OwnMessageGone ==
  \A s \in Scripts : pc[s] \in {"wait", "asleep", "copy"} =>
    \/ data[at[s]] = Empty
    \/ data[at[s]].from # s

\* While the daemon is in its loop, a script that waits for it goes on in the
\* end, however many do.  It need not once the daemon has read QUIT or was left by
\* Escape, nor when it was asleep before the semaphore was initialised.
Served(s) == at[s] = at[Daemon] /\ pc[Daemon] \in {"loop", "wait", "read", "wipe", "post"}
Returns ==
  \A s \in Scripts :
    Served(s) /\ pc[s] \in {"test", "wait"}
      ~> pc[s] = "idle" \/ pc[Daemon] = "close"

=============================================================================
