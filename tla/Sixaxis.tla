------------------------------- MODULE Sixaxis -------------------------------
(***************************************************************************)
(* sixaxisd: up to MAX_CLIENTS game controllers, each with a control and a *)
(* data channel, whose reports become events of an input device.  One loop *)
(* polls, accepts and reads; the controllers connect, vanish and come back *)
(* whenever they like, also between two of its system calls.               *)
(*                                                                         *)
(* Descriptors are numbers: a number that was closed is given out again,   *)
(* and one that is forgotten stays open.  0 is the standard input, -1 none.*)
(* What is in a report, and what the timer repeats of it, is left out.     *)
(***************************************************************************)
EXTENDS Integers, Sequences

CONSTANTS
  Controllers,
  Any,              \* BDADDR_ANY
  Closed, Device,   \* what a descriptor may be open on, apart from sockets
  MaxClients,       \* MAX_CLIENTS
  MaxFd,            \* the limit on open files
  MaxConnects       \* bound: how often controllers connect

Slots == 1 .. MaxClients
Fds   == 1 .. MaxFd
Chans == {"ctrl", "data"}

Socket == [peer : Controllers, chan : Chans, up : BOOLEAN, err : BOOLEAN]

ASSUME SixaxisAssumption ==
  /\ Any \notin Controllers
  /\ Closed \notin Socket /\ Device \notin Socket /\ Closed # Device
  /\ MaxClients \in Nat \ {0}
  /\ MaxFd \in Nat
  /\ MaxConnects \in Nat

VARIABLES
  link,      \* link[k]: "off", "half" (control channel) or "on" (both)
  ready,     \* the controllers that were initialised on both their channels
  pend,      \* pend[ch]: connections that wait for accept
  file,      \* file[f]: what descriptor f is open on
  client,    \* the table of controllers
  pc,        \* where the main loop is
  who, next, \* the controller initialize_sixaxis works for, and where it returns
  poll,      \* the revents of the last poll
  connects

world == <<link, ready, pend, connects>>
vars  == <<world, file, client, pc, who, next, poll>>

IsFirst(n, S) == n \in S /\ \A m \in S : n <= m

Free == {f \in Fds : file[f] = Closed}

TypeOK ==
  /\ link \in [Controllers -> {"off", "half", "on"}]
  /\ ready \subseteq Controllers
  /\ pend \in [Chans -> Seq(Controllers)]
  /\ file \in [Fds -> {Closed, Device} \cup Socket]
  /\ client \in [Slots -> [addr : Controllers \cup {Any}, ctrl : Fds \cup {-1},
                           data : Fds \cup {-1}, out : Fds \cup {0, -1}]]
  /\ pc \in {"poll", "ctrl", "data", "check", "init"}
  /\ pc = "init" => client[who].ctrl # -1 /\ client[who].data # -1
  /\ who \in Slots /\ next \in {"data", "check"}
  /\ poll \in [ctrl : BOOLEAN, data : BOOLEAN, err : SUBSET Slots, in : SUBSET Slots]
  /\ connects \in 0 .. MaxConnects

NoSlot   == [addr |-> Any, ctrl |-> -1, data |-> -1, out |-> 0]
NoEvents == [ctrl |-> FALSE, data |-> FALSE, err |-> {}, in |-> {}]

Init ==
  /\ link   = [k \in Controllers |-> "off"]
  /\ ready  = {}
  /\ pend   = [ch \in Chans |-> <<>>]
  /\ file   = [f \in Fds |-> Closed]
  /\ client = [i \in Slots |-> NoSlot]
  /\ pc = "poll" /\ who = 1 /\ next = "data"
  /\ poll   = NoEvents
  /\ connects = 0

-----------------------------------------------------------------------------
(* The controllers.                                                        *)

loop == <<client, pc, who, next, poll>>

ConnectCtrl(k) ==
  /\ link[k] = "off" /\ connects < MaxConnects
  /\ connects' = connects + 1
  /\ link' = [link EXCEPT ![k] = "half"]
  /\ pend' = [pend EXCEPT !["ctrl"] = Append(@, k)]
  /\ UNCHANGED <<ready, file, loop>>

ConnectData(k) ==
  /\ link[k] = "half"
  /\ link' = [link EXCEPT ![k] = "on"]
  /\ pend' = [pend EXCEPT !["data"] = Append(@, k)]
  /\ UNCHANGED <<ready, connects, file, loop>>

\* s without k, which waits at most once.
Without(s, k) ==
  IF \A i \in 1 .. Len(s) : s[i] # k THEN s
  ELSE [i \in 1 .. Len(s) - 1 |-> IF \E j \in 1 .. i : s[j] = k THEN s[i + 1] ELSE s[i]]

\* The connection of k ends: its sockets report an error, and those that nobody
\* has accepted are gone.
Gone(k) ==
  /\ link'  = [link EXCEPT ![k] = "off"]
  /\ ready' = ready \ {k}
  /\ pend'  = [ch \in Chans |-> Without(pend[ch], k)]

Down(files, k) ==
  [f \in Fds |->
     IF files[f] \in Socket /\ files[f].peer = k /\ files[f].up
     THEN [files[f] EXCEPT !.up = FALSE, !.err = TRUE] ELSE files[f]]

Drop(k) ==
  /\ link[k] # "off"
  /\ Gone(k)
  /\ file' = Down(file, k)
  /\ UNCHANGED <<connects, loop>>

-----------------------------------------------------------------------------
(* The main loop.                                                          *)

Up(f)     == f # -1 /\ file[f].up
InError   == {i \in Slots : client[i].data # -1 /\ file[client[i].data].err}
AtEnd     == {i \in Slots : client[i].data # -1 /\ ~ file[client[i].data].up}
Reporting == {i \in Slots : Up(client[i].data) /\ client[i].addr \in ready}

\* A socket that was shut down can be read from, as far as poll is concerned.
Poll ==
  /\ pc = "poll"
  /\ \E reports \in SUBSET Reporting :
       poll' = [ctrl |-> pend["ctrl"] # <<>>, data |-> pend["data"] # <<>>,
                err |-> InError, in |-> reports \cup AtEnd]
  /\ poll' # NoEvents
  /\ pc'  = "ctrl"
  /\ UNCHANGED <<world, file, client, who, next>>

After(ch) == IF ch = "ctrl" THEN "data" ELSE "check"

NothingToAccept(ch) ==
  /\ pc = ch /\ ~ poll[ch]
  /\ pc' = After(ch)
  /\ UNCHANGED <<world, file, client, who, next, poll>>

\* No descriptor left: the connection goes on waiting.
CannotAccept(ch) ==
  /\ pc = ch /\ poll[ch] /\ Free = {}
  /\ pc' = After(ch)
  /\ UNCHANGED <<world, file, client, who, next, poll>>

SlotsOf(a) == {i \in Slots : client[i].addr = a}

\* The place of k in the table: the one it has, or the first empty one.
Places(k) == IF SlotsOf(k) # {} THEN SlotsOf(k) ELSE SlotsOf(Any)

\* The socket that accept makes of the first connection of a channel.
Accepted(ch, f) ==
  /\ pend[ch] # <<>>
  /\ IsFirst(f, Free)
  /\ pend' = [pend EXCEPT ![ch] = Tail(@)]
  /\ UNCHANGED <<link, ready, connects>>

NewSocket(ch) == [peer |-> Head(pend[ch]), chan |-> ch, up |-> TRUE, err |-> FALSE]

\* The table is full: the socket is accepted, and forgotten.
NewClientFull(ch) ==
  /\ pc = ch /\ poll[ch]
  /\ \E f \in Fds :
       /\ Accepted(ch, f)
       /\ Places(Head(pend[ch])) = {}
       /\ file' = [file EXCEPT ![f] = NewSocket(ch)]
  /\ pc' = After(ch)
  /\ UNCHANGED <<client, who, next, poll>>

\* Mutant: never after the data channel.
InitAfterCtrlOnly(i, ch) ==
  IF ch = "ctrl" /\ client'[i].data # -1
  THEN pc' = "init" /\ who' = i /\ next' = After(ch)
  ELSE pc' = After(ch) /\ UNCHANGED <<who, next>>

\* Once both channels are there the controller is initialised.
InitOrGoOn(i, ch) ==
  IF client'[i].ctrl # -1 /\ client'[i].data # -1
  THEN pc' = "init" /\ who' = i /\ next' = After(ch)
  ELSE pc' = After(ch) /\ UNCHANGED <<who, next>>

NewCtrl ==
  /\ pc = "ctrl" /\ poll["ctrl"]
  /\ \E f \in Fds, i \in Slots :
       /\ Accepted("ctrl", f)
       /\ IsFirst(i, Places(Head(pend["ctrl"])))
       /\ file' = [file EXCEPT ![f] = NewSocket("ctrl")]
       /\ client' = [client EXCEPT ![i].addr = Head(pend["ctrl"]), ![i].ctrl = f]
       /\ InitOrGoOn(i, "ctrl")
  /\ UNCHANGED poll

\* uinput_open opens a device or none.
Opened(free) == {-1} \cup {f \in free : IsFirst(f, free)}

\* The data channel; the input device is noted in the first place of the table,
\* whichever place i is, unless an error made uinput_open leave it open.
NewData ==
  /\ pc = "data" /\ poll["data"]
  /\ \E f \in Fds, i \in Slots : \E dev \in Opened(Free \ {f}), failed \in BOOLEAN :
       /\ Accepted("data", f)
       /\ IsFirst(i, Places(Head(pend["data"])))
       /\ file' = [g \in Fds |-> IF g = f THEN NewSocket("data")
                                 ELSE IF g = dev THEN Device ELSE file[g]]
       /\ client' = [client EXCEPT ![i].addr = Head(pend["data"]), ![i].data = f,
                                   ![1].out = IF failed THEN -1 ELSE dev]
       /\ InitOrGoOn(i, "data")
  /\ UNCHANGED poll

\* initialize_sixaxis: the controller answers, or is no longer there.
Initialize ==
  /\ pc = "init"
  /\ ready' = IF Up(client[who].ctrl) /\ Up(client[who].data)
              THEN ready \cup {client[who].addr} ELSE ready
  /\ pc' = next /\ who' = 1 /\ next' = "data"
  /\ UNCHANGED <<link, pend, connects, file, client, poll>>

\* The controllers of which poll said something, in the order of the table.
Polled  == poll.err \cup poll.in
Checked(i) ==
  /\ pc = "check" /\ IsFirst(i, Polled)
  /\ poll' = [poll EXCEPT !.err = @ \ {i}, !.in = @ \ {i}]
  /\ UNCHANGED <<pc, who, next>>

CheckDone ==
  /\ pc = "check" /\ Polled = {}
  /\ pc' = "poll" /\ poll' = NoEvents
  /\ UNCHANGED <<world, file, client, who, next>>

\* What of slot i is closed, and what it is afterwards.
\* Mutants: the device of the first slot is closed; data is not reset.
EndsFirstOut(i) == {client[i].ctrl, client[i].data, client[1].out}
EmptiedButData(i) == [NoSlot EXCEPT !.data = client[i].data]

Ends(i)    == {client[i].ctrl, client[i].data, client[i].out}
Emptied(i) == [NoSlot EXCEPT !.out = IF client[i].out = 0 THEN 0 ELSE -1]

\* POLLERR: both channels and the device are closed, and the place is empty.
\* They may be channels that were accepted after poll saw the error of the old
\* ones; then the controller loses its connection.
Shut(f, k) == IF Up(f) THEN Gone(k) ELSE UNCHANGED <<link, ready, pend>>
LiveOf(i)  == IF Up(client[i].data) THEN client[i].data ELSE client[i].ctrl

CloseClient(i) ==
  /\ Checked(i) /\ i \in poll.err
  /\ Shut(LiveOf(i), client[i].addr)
  /\ LET left == IF Up(LiveOf(i)) THEN Down(file, client[i].addr) ELSE file
     IN  file' = [f \in Fds |-> IF f \in Ends(i) THEN Closed ELSE left[f]]
  /\ client' = [client EXCEPT ![i] = Emptied(i)]
  /\ UNCHANGED connects

\* The report is read and becomes events.  Of a socket that was shut down recv
\* takes the error along, so that poll will not report it again.
Receive(i) ==
  /\ Checked(i) /\ i \notin poll.err
  /\ file' = IF Up(client[i].data) THEN file
             ELSE [file EXCEPT ![client[i].data].err = FALSE]
  /\ UNCHANGED <<world, client>>

MainLoop ==
  \/ Poll
  \/ \E ch \in Chans : NothingToAccept(ch) \/ CannotAccept(ch) \/ NewClientFull(ch)
  \/ NewCtrl
  \/ NewData
  \/ Initialize
  \/ CheckDone
  \/ \E i \in Slots : CloseClient(i) \/ Receive(i)

Next ==
  \/ \E k \in Controllers : ConnectCtrl(k) \/ ConnectData(k) \/ Drop(k)
  \/ MainLoop

Spec == Init /\ [][Next]_vars

\* The daemon runs, and a controller that is there answers.
FairSpec == Spec /\ WF_vars(MainLoop)

-----------------------------------------------------------------------------
(* Properties.                                                             *)

IsSocket(f, k, ch) == file[f] \in Socket /\ file[f].peer = k /\ file[f].chan = ch

\* A controller has one place in the table, and the descriptors noted there are
\* open, on its own channels (sixsrv.c:146-171, 362-369), although numbers are
\* used again and connections replace each other.
OwnSockets ==
  /\ \A i, j \in Slots : client[i].addr = client[j].addr => i = j \/ client[i].addr = Any
  /\ \A i \in Slots : \A ch \in Chans :
       client[i][ch] # -1 => IsSocket(client[i][ch], client[i].addr, ch)

\* The reports of the controller in the first place go to an input device or
\* nowhere (sixsrv.c:165, 200, 371-374), never to another file that has the number.
\* Of the other places this cannot be said: their out is never set.
FirstHasDevice ==
  client[1].data # -1 => client[1].out = -1 \/ (client[1].out > 0 /\ file[client[1].out] = Device)

\* A controller that has connected both channels is initialised (sixsrv.c:173-176)
\* or loses its connection, however its connections and those of others follow each
\* other.  What the code leaves out: there is no descriptor left, a channel was
\* accepted when the table was full, or accept waits for a connection that has
\* vanished since poll saw it.
Hung == pc \in Chans /\ poll[pc] /\ pend[pc] = <<>>
Forgotten(k) ==
  \E f \in Fds, ch \in Chans : /\ IsSocket(f, k, ch) /\ file[f].up
                               /\ \A i \in Slots : client[i][ch] # f
Initialized ==
  \A k \in Controllers :
    link[k] = "on" ~> k \in ready \/ link[k] = "off" \/ Hung \/ Free = {} \/ Forgotten(k)

=============================================================================
