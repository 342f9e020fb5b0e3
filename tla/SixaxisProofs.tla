---------------------------- MODULE SixaxisProofs ----------------------------
(***************************************************************************)
(* For any number of controllers, places and descriptors: the types of     *)
(* Sixaxis, and that the table notes open sockets of its own controllers,  *)
(* and in its first place an open device.                                  *)
(*                                                                         *)
(* These three hold only together.  That a descriptor is never noted twice *)
(* follows from what it is open on: two places have two controllers, and a *)
(* controller has two channels.  DeviceKept adds what is noted as a device *)
(* while the first place has no data channel, and that only the first      *)
(* place notes one: closing another place cannot close it.                 *)
(***************************************************************************)
EXTENDS Sixaxis, SequenceTheorems, TLAPS

\* The parts of TypeOK: the controllers, the descriptors, the table, the loop.
WorldOK ==
  /\ link \in [Controllers -> {"off", "half", "on"}]
  /\ ready \subseteq Controllers
  /\ pend \in [Chans -> Seq(Controllers)]
  /\ connects \in 0 .. MaxConnects

FileOK == file \in [Fds -> {Closed, Device} \cup Socket]

ClientOK ==
  client \in [Slots -> [addr : Controllers \cup {Any}, ctrl : Fds \cup {-1},
                        data : Fds \cup {-1}, out : Fds \cup {0, -1}]]

LoopOK ==
  /\ pc \in {"poll", "ctrl", "data", "check", "init"}
  /\ pc = "init" => client[who].ctrl # -1 /\ client[who].data # -1
  /\ who \in Slots /\ next \in {"data", "check"}
  /\ poll \in [ctrl : BOOLEAN, data : BOOLEAN, err : SUBSET Slots, in : SUBSET Slots]

DeviceKept ==
  /\ \A i \in Slots : i # 1 => client[i].out = 0
  /\ client[1].out \in Fds => file[client[1].out] = Device
  /\ client[1].out = 0 => client[1].data = -1

OnePlace ==
  \A i, j \in Slots : client[i].addr = client[j].addr => i = j \/ client[i].addr = Any

Noted ==
  \A i \in Slots : \A ch \in Chans :
    client[i][ch] # -1 => IsSocket(client[i][ch], client[i].addr, ch)

TableOK == OnePlace /\ Noted /\ DeviceKept

IInv == WorldOK /\ FileOK /\ ClientOK /\ LoopOK /\ TableOK

\* What is open stays open on the same controller and channel, or device.
Keeps(files) ==
  \A f \in Fds :
    /\ file[f] \in Socket => /\ files[f] \in Socket
                             /\ files[f].peer = file[f].peer
                             /\ files[f].chan = file[f].chan
    /\ file[f] = Device => files[f] = Device

LEMMA TypeParts == TypeOK <=> WorldOK /\ FileOK /\ ClientOK /\ LoopOK
BY Zenon DEF TypeOK, WorldOK, FileOK, ClientOK, LoopOK

-----------------------------------------------------------------------------
(* Operators.                                                              *)

LEMMA WithoutType ==
  ASSUME NEW s \in Seq(Controllers), NEW k
  PROVE  Without(s, k) \in Seq(Controllers)
<1>1. CASE \A i \in 1 .. Len(s) : s[i] # k
  BY <1>1 DEF Without
<1>2. CASE ~ \A i \in 1 .. Len(s) : s[i] # k
  <2>1. Len(s) \in Nat /\ Len(s) # 0
    BY <1>2
  <2>2. \A i \in 1 .. Len(s) - 1 : s[i] \in Controllers /\ s[i + 1] \in Controllers
    BY <2>1
  <2>3. [i \in 1 .. Len(s) - 1 |->
           IF \E j \in 1 .. i : s[j] = k THEN s[i + 1] ELSE s[i]] \in Seq(Controllers)
    BY <2>1, <2>2, IsASeq
  <2> QED BY <1>2, <2>3, Zenon DEF Without
<1> QED BY <1>1, <1>2

LEMMA DownKeeps ==
  ASSUME FileOK, NEW k \in Controllers
  PROVE  Down(file, k) \in [Fds -> {Closed, Device} \cup Socket] /\ Keeps(Down(file, k))
<1>1. ASSUME NEW f \in Fds
      PROVE  /\ Down(file, k)[f] \in {Closed, Device} \cup Socket
             /\ file[f] \in Socket => /\ Down(file, k)[f] \in Socket
                                      /\ Down(file, k)[f].peer = file[f].peer
                                      /\ Down(file, k)[f].chan = file[f].chan
             /\ file[f] \notin Socket => Down(file, k)[f] = file[f]
  <2>1. CASE file[f] \in Socket /\ file[f].peer = k /\ file[f].up
    <3>1. Down(file, k)[f] = [file[f] EXCEPT !.up = FALSE, !.err = TRUE]
      BY <2>1 DEF Down
    <3> QED BY <2>1, <3>1 DEF Socket
  <2>2. CASE ~ (file[f] \in Socket /\ file[f].peer = k /\ file[f].up)
    <3>1. Down(file, k)[f] = file[f]
      BY <2>2 DEF Down
    <3> QED BY <3>1 DEF FileOK
  <2> QED BY <2>1, <2>2
<1>2. Down(file, k) = [f \in Fds |-> Down(file, k)[f]]
  BY DEF Down
<1>3. Down(file, k) \in [Fds -> {Closed, Device} \cup Socket]
  BY <1>1, <1>2
<1>4. Keeps(Down(file, k))
  BY <1>1, SixaxisAssumption DEF Keeps
<1> QED BY <1>3, <1>4

LEMMA GoneWorld ==
  ASSUME WorldOK, NEW k \in Controllers, Gone(k), UNCHANGED connects
  PROVE  WorldOK'
<1>1. \A ch \in Chans : Without(pend[ch], k) \in Seq(Controllers)
  BY WithoutType DEF WorldOK
<1> QED BY <1>1 DEF WorldOK, Gone

\* The table is as good as before if what it notes is still open.
LEMMA TableKept ==
  ASSUME ClientOK, TableOK, Keeps(file'), UNCHANGED client
  PROVE  TableOK'
<1>1. OnePlace'
  BY DEF TableOK, OnePlace
<1>2. Noted'
  <2> SUFFICES ASSUME NEW i \in Slots, NEW ch \in Chans, client[i][ch] # -1
               PROVE  IsSocket(client[i][ch], client[i].addr, ch)'
    BY DEF Noted
  <2>1. client[i][ch] \in Fds /\ IsSocket(client[i][ch], client[i].addr, ch)
    BY DEF TableOK, Noted, ClientOK, Chans
  <2> QED BY <2>1 DEF IsSocket, Keeps
<1>3. DeviceKept'
  BY DEF TableOK, DeviceKept, Keeps
<1> QED BY <1>1, <1>2, <1>3 DEF TableOK

\* Steps of the loop that leave files and table alone.
LEMMA SameKeeps ==
  ASSUME UNCHANGED file
  PROVE  Keeps(file')
BY DEF Keeps

-----------------------------------------------------------------------------
(* Accepting.                                                              *)

LEMMA AcceptWorld ==
  ASSUME WorldOK, NEW ch \in Chans, NEW f \in Fds, Accepted(ch, f)
  PROVE  /\ WorldOK'
         /\ Head(pend[ch]) \in Controllers
         /\ file[f] = Closed
         /\ NewSocket(ch) \in Socket
         /\ NewSocket(ch).peer = Head(pend[ch]) /\ NewSocket(ch).chan = ch
<1>1. pend[ch] \in Seq(Controllers) /\ pend[ch] # <<>>
  BY DEF WorldOK, Accepted
<1>2. Head(pend[ch]) \in Controllers /\ Tail(pend[ch]) \in Seq(Controllers)
  BY <1>1
<1>3. WorldOK'
  BY <1>2 DEF WorldOK, Accepted
<1>4. file[f] = Closed
  BY DEF Accepted, IsFirst, Free
<1>5. NewSocket(ch) \in Socket /\ NewSocket(ch).peer = Head(pend[ch]) /\ NewSocket(ch).chan = ch
  BY <1>2 DEF NewSocket, Socket
<1> QED BY <1>2, <1>3, <1>4, <1>5

\* A closed descriptor that is opened was noted nowhere.
LEMMA OpenKeeps ==
  ASSUME FileOK, NEW f \in Fds, file[f] = Closed, NEW x \in {Closed, Device} \cup Socket,
         file' = [file EXCEPT ![f] = x]
  PROVE  FileOK' /\ Keeps(file')
BY SixaxisAssumption DEF FileOK, Keeps

LEMMA PlaceOf ==
  ASSUME NEW k \in Controllers, NEW i \in Slots, ClientOK, OnePlace, IsFirst(i, Places(k))
  PROVE  /\ client[i].addr \in {k, Any}
         /\ \A j \in Slots : j # i => client[j].addr # k
<1>1. client[i].addr = k \/ (client[i].addr = Any /\ \A j \in Slots : client[j].addr # k)
  BY DEF IsFirst, Places, SlotsOf
<1> QED BY <1>1, SixaxisAssumption DEF OnePlace

LEMMA GoOnLoop ==
  ASSUME LoopOK, NEW i \in Slots, NEW ch \in Chans, InitOrGoOn(i, ch), UNCHANGED poll
  PROVE  LoopOK'
<1>1. After(ch) \in {"data", "check"}
  BY DEF After
<1>2. CASE client'[i].ctrl # -1 /\ client'[i].data # -1
  BY <1>1, <1>2 DEF LoopOK, InitOrGoOn
<1>3. CASE ~ (client'[i].ctrl # -1 /\ client'[i].data # -1)
  BY <1>1, <1>3 DEF LoopOK, InitOrGoOn
<1> QED BY <1>2, <1>3

\* A new channel of k that is noted in its place, or in an empty one.
LEMMA ChannelNoted ==
  ASSUME ClientOK, OnePlace, Noted, Keeps(file'),
         NEW k \in Controllers, NEW ch \in Chans, NEW f \in Fds, NEW i \in Slots,
         IsFirst(i, Places(k)), IsSocket(f, k, ch)',
         client'[i].addr = k, client'[i][ch] = f,
         \A c \in Chans : c # ch => client'[i][c] = client[i][c],
         \A j \in Slots : j # i => /\ client'[j].addr = client[j].addr
                                   /\ \A c \in Chans : client'[j][c] = client[j][c]
  PROVE  OnePlace' /\ Noted'
<1>1. /\ client[i].addr \in {k, Any}
      /\ \A j \in Slots : j # i => client[j].addr # k
  BY PlaceOf
<1>2. OnePlace'
  BY <1>1 DEF OnePlace
<1>3. Noted'
  <2> SUFFICES ASSUME NEW j \in Slots, NEW c \in Chans, client'[j][c] # -1
               PROVE  IsSocket(client[j][c], client[j].addr, c)'
    BY DEF Noted
  <2>1. CASE j = i /\ c = ch
    BY <2>1
  <2>2. CASE j # i \/ c # ch
    <3>1. client'[j][c] = client[j][c] /\ client[j][c] # -1
      BY <2>2
    <3>2. IsSocket(client[j][c], client[j].addr, c) /\ client[j][c] \in Fds
      BY <3>1 DEF Noted, ClientOK, Chans
    <3>3. client[j].addr # Any
      BY <3>2, SixaxisAssumption DEF IsSocket, Socket
    <3>4. client'[j].addr = client[j].addr
      BY <1>1, <3>3
    <3> QED BY <3>1, <3>2, <3>4 DEF IsSocket, Keeps
  <2> QED BY <2>1, <2>2
<1> QED BY <1>2, <1>3

LEMMA FirstSlot == 1 \in Slots
BY SixaxisAssumption DEF Slots

LEMMA NewCtrlKeeps ==
  ASSUME IInv, NewCtrl
  PROVE  IInv'
<1> USE DEF IInv, TableOK
<1>1. PICK f \in Fds, i \in Slots :
        /\ Accepted("ctrl", f)
        /\ IsFirst(i, Places(Head(pend["ctrl"])))
        /\ file' = [file EXCEPT ![f] = NewSocket("ctrl")]
        /\ client' = [client EXCEPT ![i].addr = Head(pend["ctrl"]), ![i].ctrl = f]
        /\ InitOrGoOn(i, "ctrl")
        /\ UNCHANGED poll
  BY Zenon DEF NewCtrl
<1>1a. Accepted("ctrl", f) /\ "ctrl" \in Chans
  BY <1>1 DEF Chans
<1>1b. PICK k \in Controllers : k = Head(pend["ctrl"])
  BY <1>1a, AcceptWorld
<1>2. /\ WorldOK' /\ k \in Controllers /\ file[f] = Closed
      /\ NewSocket("ctrl") \in Socket
      /\ NewSocket("ctrl").peer = k /\ NewSocket("ctrl").chan = "ctrl"
  BY <1>1a, <1>1b, AcceptWorld
<1>3. FileOK' /\ Keeps(file')
  BY <1>1, <1>2, OpenKeeps
<1>4. \A j \in Slots :
        /\ client'[j].addr = IF j = i THEN k ELSE client[j].addr
        /\ client'[j].ctrl = IF j = i THEN f ELSE client[j].ctrl
        /\ client'[j].data = client[j].data /\ client'[j].out = client[j].out
  BY <1>1, <1>1b DEF ClientOK
<1>5. ClientOK'
  BY <1>1, <1>1b, <1>2 DEF ClientOK
<1>6. LoopOK'
  BY <1>1, GoOnLoop DEF Chans
<1>7. OnePlace' /\ Noted'
  <2>1. IsSocket(f, k, "ctrl")'
    BY <1>1, <1>2 DEF IsSocket, FileOK
  <2>2. "ctrl" \in Chans /\ \A c \in Chans : c = "ctrl" \/ c = "data"
    BY DEF Chans
  <2>3. IsFirst(i, Places(k))
    BY <1>1, <1>1b
  <2> QED BY <1>2, <1>3, <1>4, <2>1, <2>2, <2>3, ChannelNoted
<1>8. DeviceKept'
  BY <1>3, <1>4, FirstSlot DEF DeviceKept, Keeps
<1> QED BY <1>2, <1>3, <1>5, <1>6, <1>7, <1>8

LEMMA NewDataKeeps ==
  ASSUME IInv, NewData
  PROVE  IInv'
<1> USE DEF IInv, TableOK
<1>0. PICK f \in Fds, i \in Slots :
        \E dev \in Opened(Free \ {f}), failed \in BOOLEAN :
          /\ Accepted("data", f)
          /\ IsFirst(i, Places(Head(pend["data"])))
          /\ file' = [g \in Fds |-> IF g = f THEN NewSocket("data")
                                    ELSE IF g = dev THEN Device ELSE file[g]]
          /\ client' = [client EXCEPT ![i].addr = Head(pend["data"]), ![i].data = f,
                                      ![1].out = IF failed THEN -1 ELSE dev]
          /\ InitOrGoOn(i, "data")
          /\ UNCHANGED poll
  BY Zenon DEF NewData
<1>1. PICK dev \in Opened(Free \ {f}), failed \in BOOLEAN :
        /\ Accepted("data", f)
        /\ IsFirst(i, Places(Head(pend["data"])))
        /\ file' = [g \in Fds |-> IF g = f THEN NewSocket("data")
                                  ELSE IF g = dev THEN Device ELSE file[g]]
        /\ client' = [client EXCEPT ![i].addr = Head(pend["data"]), ![i].data = f,
                                    ![1].out = IF failed THEN -1 ELSE dev]
        /\ InitOrGoOn(i, "data")
        /\ UNCHANGED poll
  BY <1>0, Zenon
<1> DEFINE out == IF failed THEN -1 ELSE dev
<1>2. client' = [client EXCEPT ![i].addr = Head(pend["data"]), ![i].data = f,
                               ![1].out = out]
  BY <1>1
<1>2a. out \in {-1, dev}
  OBVIOUS
<1> HIDE DEF out
<1>1a. Accepted("data", f) /\ "data" \in Chans
  BY <1>1 DEF Chans
<1>1b. PICK k \in Controllers : k = Head(pend["data"])
  BY <1>1a, AcceptWorld
<1>3. /\ WorldOK' /\ k \in Controllers /\ file[f] = Closed
      /\ NewSocket("data") \in Socket
      /\ NewSocket("data").peer = k /\ NewSocket("data").chan = "data"
  BY <1>1a, <1>1b, AcceptWorld
<1>4. /\ dev = -1 \/ (dev \in Fds /\ dev # f /\ file[dev] = Closed)
      /\ -1 \notin Fds
  BY DEF Opened, Free, Fds
<1>5. FileOK' /\ Keeps(file')
  <2>1. \A g \in Fds : file'[g] = IF g = f THEN NewSocket("data")
                                  ELSE IF g = dev THEN Device ELSE file[g]
    BY <1>1
  <2>2. FileOK'
    BY <1>1, <1>3 DEF FileOK
  <2>3. \A g \in Fds : file[g] # Closed => file'[g] = file[g]
    BY <1>3, <1>4, <2>1
  <2> QED BY <2>2, <2>3, SixaxisAssumption DEF Keeps
<1>6. \A j \in Slots :
        /\ client'[j].addr = IF j = i THEN k ELSE client[j].addr
        /\ client'[j].data = IF j = i THEN f ELSE client[j].data
        /\ client'[j].ctrl = client[j].ctrl
        /\ client'[j].out  = IF j = 1 THEN out ELSE client[j].out
  BY <1>1b, <1>2, FirstSlot DEF ClientOK
<1>7. ClientOK'
  <2>1. out \in Fds \cup {0, -1}
    BY <1>2a, <1>4
  <2> QED BY <1>1b, <1>2, <1>3, <2>1, FirstSlot DEF ClientOK
<1>8. LoopOK'
  BY <1>1, GoOnLoop DEF Chans
<1>9. OnePlace' /\ Noted'
  <2>1. IsSocket(f, k, "data")'
    BY <1>1, <1>3 DEF IsSocket
  <2>2. "data" \in Chans /\ \A c \in Chans : c = "ctrl" \/ c = "data"
    BY DEF Chans
  <2>3. IsFirst(i, Places(k))
    BY <1>1, <1>1b
  <2>4. /\ client'[i].addr = k /\ client'[i].data = f
        /\ \A c \in Chans : c # "data" => client'[i][c] = client[i][c]
    BY <1>6, <2>2
  <2>5. \A j \in Slots : j # i => /\ client'[j].addr = client[j].addr
                                  /\ \A c \in Chans : client'[j][c] = client[j][c]
    BY <1>6, <2>2
  <2>6. ClientOK /\ OnePlace /\ Noted
    OBVIOUS
  <2> QED BY <1>3, <1>5, <2>1, <2>2, <2>3, <2>4, <2>5, <2>6, ChannelNoted
<1>10. DeviceKept'
  <2>1. 0 \notin Fds
    BY DEF Fds
  <2>2. client'[1].out = out /\ \A j \in Slots : j # 1 => client'[j].out = client[j].out
    BY <1>6, FirstSlot
  <2>3. dev \in Fds => file'[dev] = Device
    BY <1>1, <1>4
  <2>4. out # 0
    BY <1>2a, <1>4, <2>1
  <2> QED BY <1>2a, <1>4, <2>2, <2>3, <2>4 DEF DeviceKept
<1> QED BY <1>3, <1>5, <1>7, <1>8, <1>9, <1>10

-----------------------------------------------------------------------------
(* Checking.                                                               *)

LEMMA CheckedLoop ==
  ASSUME LoopOK, NEW i \in Slots, Checked(i)
  PROVE  LoopOK'
<1>1. pc' = "check" /\ who' = who /\ next' = next
  BY DEF Checked
<1>2. poll' \in [ctrl : BOOLEAN, data : BOOLEAN, err : SUBSET Slots, in : SUBSET Slots]
  BY DEF Checked, LoopOK
<1> QED BY <1>1, <1>2 DEF LoopOK

LEMMA CloseKeeps ==
  ASSUME IInv, NEW i \in Slots, CloseClient(i)
  PROVE  IInv'
<1> USE DEF IInv, TableOK
<1> DEFINE left == IF Up(LiveOf(i)) THEN Down(file, client[i].addr) ELSE file
<1>1. /\ file' = [f \in Fds |-> IF f \in Ends(i) THEN Closed ELSE left[f]]
      /\ client' = [client EXCEPT ![i] = Emptied(i)]
  BY DEF CloseClient
<1>2. Up(LiveOf(i)) => client[i].addr \in Controllers
  <2> SUFFICES ASSUME Up(LiveOf(i)) PROVE client[i].addr \in Controllers
    OBVIOUS
  <2>1. PICK ch \in Chans : LiveOf(i) = client[i][ch] /\ client[i][ch] # -1
    BY DEF LiveOf, Up, Chans
  <2>2. IsSocket(client[i][ch], client[i].addr, ch)
    BY <2>1 DEF Noted
  <2> QED BY <2>2 DEF IsSocket, Socket
<1>3. left \in [Fds -> {Closed, Device} \cup Socket] /\ Keeps(left)
  <2>1. CASE Up(LiveOf(i))
    BY <1>2, <2>1, DownKeeps
  <2>2. CASE ~ Up(LiveOf(i))
    BY <2>2 DEF FileOK, Keeps
  <2> QED BY <2>1, <2>2
<1>4. WorldOK'
  <2>1. CASE Up(LiveOf(i))
    BY <1>2, <2>1, GoneWorld DEF CloseClient, Shut
  <2>2. CASE ~ Up(LiveOf(i))
    BY <2>2 DEF CloseClient, Shut, WorldOK
  <2> QED BY <2>1, <2>2
<1>5. LoopOK'
  BY CheckedLoop DEF CloseClient
<1> HIDE DEF left
<1>6. FileOK'
  BY <1>1, <1>3 DEF FileOK
<1>7. Emptied(i).addr = Any /\ Emptied(i).ctrl = -1 /\ Emptied(i).data = -1
      /\ Emptied(i).out = (IF client[i].out = 0 THEN 0 ELSE -1)
      /\ Emptied(i) \in [addr : Controllers \cup {Any}, ctrl : Fds \cup {-1},
                          data : Fds \cup {-1}, out : Fds \cup {0, -1}]
  BY DEF Emptied, NoSlot
<1>8. ClientOK'
  BY <1>1, <1>7 DEF ClientOK
<1>9. /\ client'[i] = Emptied(i)
      /\ \A j \in Slots : j # i => client'[j] = client[j]
  BY <1>1 DEF ClientOK
<1>10. OnePlace'
  <2> SUFFICES ASSUME NEW j \in Slots, NEW m \in Slots, client'[j].addr = client'[m].addr
               PROVE  j = m \/ client'[j].addr = Any
    BY DEF OnePlace
  <2> QED BY <1>7, <1>9 DEF OnePlace
<1>11. Noted'
  <2> SUFFICES ASSUME NEW j \in Slots, NEW ch \in Chans, client'[j][ch] # -1
               PROVE  IsSocket(client[j][ch], client[j].addr, ch)'
    BY DEF Noted
  <2>1. j # i /\ client'[j] = client[j]
    BY <1>7, <1>9 DEF Chans
  <2>2. client[j][ch] \in Fds /\ IsSocket(client[j][ch], client[j].addr, ch)
    BY <2>1 DEF Noted, ClientOK, Chans
  <2>3. client[j][ch] \notin Ends(i)
    <3>1. client[j].addr \in Controllers
      BY <2>2 DEF IsSocket, Socket
    <3>2. client[i].addr # client[j].addr
      BY <2>1, <3>1, SixaxisAssumption DEF OnePlace
    <3>3. \A c \in Chans : client[i][c] # client[j][ch]
      BY <2>2, <3>2, SixaxisAssumption DEF Noted, IsSocket, Fds
    <3>4. client[i].out # client[j][ch]
      <4>1. client[i].out \in Fds => file[client[i].out] = Device
        <5>1. 0 \notin Fds
          BY DEF Fds
        <5> QED BY <5>1 DEF DeviceKept
      <4> QED BY <2>2, <4>1, SixaxisAssumption DEF IsSocket
    <3> QED BY <3>3, <3>4 DEF Ends, Chans
  <2>4. file'[client[j][ch]] = left[client[j][ch]]
    BY <1>1, <2>2, <2>3
  <2> QED BY <1>3, <2>1, <2>2, <2>4 DEF IsSocket, Keeps
<1>12. DeviceKept'
  <2>1. 0 \notin Fds /\ -1 \notin Fds
    BY DEF Fds
  <2>2. CASE i = 1
    BY <1>7, <1>9, <2>1, <2>2, FirstSlot DEF DeviceKept
  <2>3. CASE i # 1
    <3>1. client[i].out = 0 /\ client'[1] = client[1]
      BY <1>9, <2>3, FirstSlot DEF DeviceKept
    <3>2. client[1].out \in Fds => client[1].out \notin Ends(i)
      <4> SUFFICES ASSUME client[1].out \in Fds PROVE client[1].out \notin Ends(i)
        OBVIOUS
      <4>1. file[client[1].out] = Device
        BY DEF DeviceKept
      <4>2. \A c \in Chans : client[i][c] # client[1].out
        BY <4>1, <2>1, SixaxisAssumption DEF Noted, IsSocket
      <4> QED BY <3>1, <4>2, <2>1 DEF Ends, Chans
    <3>3. client[1].out \in Fds => file'[client[1].out] = Device
      BY <1>1, <1>3, <3>2 DEF DeviceKept, Keeps
    <3>4. \A j \in Slots : j # 1 => client'[j].out = 0
      BY <1>7, <1>9, <3>1 DEF DeviceKept
    <3> QED BY <3>1, <3>3, <3>4 DEF DeviceKept
  <2> QED BY <2>2, <2>3
<1> QED BY <1>4, <1>5, <1>6, <1>8, <1>10, <1>11, <1>12

LEMMA ReceiveKeeps ==
  ASSUME IInv, NEW i \in Slots, Receive(i)
  PROVE  IInv'
<1> USE DEF IInv
<1>1. WorldOK' /\ UNCHANGED client
  BY DEF Receive, WorldOK, world
<1>2. LoopOK'
  BY CheckedLoop DEF Receive
<1>3. FileOK' /\ Keeps(file')
  <2>1. CASE UNCHANGED file
    BY <2>1 DEF FileOK, Keeps
  <2>2. CASE client[i].data \in Fds /\ file' = [file EXCEPT ![client[i].data].err = FALSE]
    <3>1. file[client[i].data] \in Socket
      BY <2>2 DEF TableOK, Noted, IsSocket, Chans, Fds
    <3>2. /\ [file[client[i].data] EXCEPT !.err = FALSE] \in Socket
          /\ [file[client[i].data] EXCEPT !.err = FALSE].peer = file[client[i].data].peer
          /\ [file[client[i].data] EXCEPT !.err = FALSE].chan = file[client[i].data].chan
      BY <3>1 DEF Socket
    <3>3. \A f \in Fds : file'[f] = IF f = client[i].data
                                    THEN [file[client[i].data] EXCEPT !.err = FALSE]
                                    ELSE file[f]
      BY <2>2 DEF FileOK
    <3>4. FileOK'
      BY <2>2, <3>2 DEF FileOK
    <3> QED BY <3>1, <3>2, <3>3, <3>4, SixaxisAssumption DEF Keeps
  <2>3. client[i].data = -1 => UNCHANGED file
    <3>1. -1 \notin Fds
      BY DEF Fds
    <3> QED BY <3>1 DEF Receive, FileOK
  <2> QED BY <2>1, <2>2, <2>3 DEF Receive, ClientOK
<1>4. TableOK'
  BY <1>1, <1>3, TableKept
<1> QED BY <1>1, <1>2, <1>3, <1>4 DEF ClientOK

-----------------------------------------------------------------------------
(* The theorems.                                                           *)

LEMMA InitOK == Init => IInv
<1> SUFFICES ASSUME Init PROVE IInv
  OBVIOUS
<1>1. WorldOK
  <2>1. [ch \in Chans |-> <<>>] \in [Chans -> Seq(Controllers)]
    OBVIOUS
  <2> QED BY <2>1, SixaxisAssumption DEF Init, WorldOK
<1>2. FileOK /\ ClientOK
  BY DEF Init, FileOK, ClientOK, NoSlot
<1>3. LoopOK
  BY FirstSlot DEF Init, LoopOK, NoEvents
<1>4. \A i \in Slots : client[i] = NoSlot
  BY DEF Init
<1>5. OnePlace /\ Noted
  BY <1>4 DEF OnePlace, Noted, NoSlot, Chans
<1>6. DeviceKept
  BY <1>4, FirstSlot DEF DeviceKept, NoSlot, Fds
<1> QED BY <1>1, <1>2, <1>3, <1>5, <1>6 DEF IInv, TableOK

\* Controllers connect and vanish without the loop's doing.
LEMMA ControllerKeeps ==
  ASSUME IInv, NEW k \in Controllers, ConnectCtrl(k) \/ ConnectData(k) \/ Drop(k)
  PROVE  IInv'
<1>1. ClientOK' /\ LoopOK' /\ UNCHANGED client
  BY DEF IInv, ClientOK, LoopOK, ConnectCtrl, ConnectData, Drop, loop
<1>2. WorldOK'
  <2>1. CASE ConnectCtrl(k)
    <3>1. connects' \in 0 .. MaxConnects
      BY <2>1, SixaxisAssumption DEF IInv, WorldOK, ConnectCtrl
    <3>2. pend' \in [Chans -> Seq(Controllers)]
      BY <2>1 DEF IInv, WorldOK, ConnectCtrl, Chans
    <3> QED BY <2>1, <3>1, <3>2 DEF IInv, WorldOK, ConnectCtrl
  <2>2. CASE ConnectData(k)
    <3>1. pend' \in [Chans -> Seq(Controllers)]
      BY <2>2 DEF IInv, WorldOK, ConnectData, Chans
    <3> QED BY <2>2, <3>1 DEF IInv, WorldOK, ConnectData
  <2>3. CASE Drop(k)
    BY <2>3, GoneWorld DEF IInv, Drop
  <2> QED BY <2>1, <2>2, <2>3
<1>3. FileOK' /\ Keeps(file')
  <2>1. CASE UNCHANGED file
    BY <2>1, SameKeeps DEF IInv, FileOK
  <2>2. CASE file' = Down(file, k)
    BY <2>2, DownKeeps DEF IInv, FileOK
  <2> QED BY <2>1, <2>2 DEF ConnectCtrl, ConnectData, Drop
<1> QED BY <1>1, <1>2, <1>3, TableKept DEF IInv

\* Steps of the loop that neither open nor close anything.
LEMMA LoopKeeps ==
  ASSUME IInv,
         \/ Poll \/ Initialize \/ CheckDone
         \/ \E ch \in Chans : NothingToAccept(ch) \/ CannotAccept(ch)
  PROVE  IInv'
<1>1. FileOK' /\ ClientOK' /\ Keeps(file') /\ UNCHANGED client
  BY SameKeeps DEF IInv, FileOK, ClientOK, Poll, Initialize, CheckDone, NothingToAccept,
                   CannotAccept
<1>2. WorldOK'
  <2>1. CASE Initialize
    BY <2>1 DEF IInv, WorldOK, LoopOK, ClientOK, TableOK, Noted, Initialize, Up,
                Chans, IsSocket, Socket
  <2>2. CASE ~ Initialize
    BY <2>2 DEF IInv, WorldOK, world, Poll, CheckDone, NothingToAccept, CannotAccept
  <2> QED BY <2>1, <2>2
<1>3. LoopOK'
  <2>1. CASE Poll
    <3>1. poll' \in [ctrl : BOOLEAN, data : BOOLEAN, err : SUBSET Slots, in : SUBSET Slots]
      BY <2>1, SMTT(30) DEF Poll, InError, AtEnd, Reporting
    <3> QED BY <2>1, <3>1 DEF IInv, LoopOK, Poll
  <2>2. CASE Initialize
    BY <2>2, FirstSlot DEF IInv, LoopOK, Initialize
  <2>3. CASE CheckDone
    BY <2>3 DEF IInv, LoopOK, CheckDone, NoEvents
  <2>4. ASSUME NEW ch \in Chans, NothingToAccept(ch) \/ CannotAccept(ch)
        PROVE  LoopOK'
    BY <2>4 DEF IInv, LoopOK, NothingToAccept, CannotAccept, After
  <2> QED BY <2>1, <2>2, <2>3, <2>4
<1> QED BY <1>1, <1>2, <1>3, TableKept DEF IInv

LEMMA FullKeeps ==
  ASSUME IInv, NEW ch \in Chans, NewClientFull(ch)
  PROVE  IInv'
<1>1. PICK f \in Fds : Accepted(ch, f) /\ file' = [file EXCEPT ![f] = NewSocket(ch)]
  BY DEF NewClientFull
<1>2. WorldOK' /\ file[f] = Closed /\ NewSocket(ch) \in Socket
  BY <1>1, AcceptWorld DEF IInv
<1>3. FileOK' /\ Keeps(file')
  BY <1>1, <1>2, OpenKeeps DEF IInv
<1>4. ClientOK' /\ LoopOK' /\ UNCHANGED client
  BY DEF IInv, ClientOK, LoopOK, NewClientFull, After
<1> QED BY <1>2, <1>3, <1>4, TableKept DEF IInv

LEMMA StepOK == IInv /\ [Next]_vars => IInv'
<1> SUFFICES ASSUME IInv, [Next]_vars PROVE IInv'
  OBVIOUS
<1>1. ASSUME NEW k \in Controllers, ConnectCtrl(k) \/ ConnectData(k) \/ Drop(k)
      PROVE  IInv'
  BY <1>1, ControllerKeeps
<1>2. CASE \/ Poll \/ Initialize \/ CheckDone
           \/ \E ch \in Chans : NothingToAccept(ch) \/ CannotAccept(ch)
  BY <1>2, LoopKeeps
<1>3. ASSUME NEW ch \in Chans, NewClientFull(ch) PROVE IInv'
  BY <1>3, FullKeeps
<1>4. CASE NewCtrl
  BY <1>4, NewCtrlKeeps
<1>5. CASE NewData
  BY <1>5, NewDataKeeps
<1>6. ASSUME NEW i \in Slots, CloseClient(i) PROVE IInv'
  BY <1>6, CloseKeeps
<1>7. ASSUME NEW i \in Slots, Receive(i) PROVE IInv'
  BY <1>7, ReceiveKeeps
<1>8. CASE UNCHANGED vars
  BY <1>8, SameKeeps, TableKept DEF IInv, WorldOK, FileOK, ClientOK, LoopOK, vars, world
<1> QED BY <1>1, <1>2, <1>3, <1>4, <1>5, <1>6, <1>7, <1>8, Zenon DEF Next, MainLoop

LEMMA Invariance == Spec => []IInv
BY InitOK, StepOK, PTL DEF Spec

\* Every variable of sixaxisd keeps its type (sixsrv.c:281-384); a controller is
\* initialised only with both its channels in the table.
THEOREM TypeCorrect == Spec => []TypeOK
<1>1. IInv => TypeOK
  BY TypeParts DEF IInv
<1> QED BY <1>1, Invariance, PTL

\* newclient and the closing of a client keep the table right: one place for each
\* controller, and only its own open channels noted there (sixsrv.c:146-171, 362-369).
THEOREM OwnSocketsSafe == Spec => []OwnSockets
<1>1. IInv => OwnSockets
  BY DEF IInv, TableOK, OnePlace, Noted, OwnSockets
<1> QED BY <1>1, Invariance, PTL

\* What the first controller sends goes to an open input device, or nowhere
\* (sixsrv.c:165, 200, 371-374).
THEOREM FirstDeviceSafe == Spec => []FirstHasDevice
<1>1. IInv => FirstHasDevice
  <2> SUFFICES ASSUME IInv, client[1].data # -1, client[1].out # -1
               PROVE  client[1].out > 0 /\ file[client[1].out] = Device
    BY DEF FirstHasDevice
  <2>1. client[1].out \in Fds
    BY FirstSlot DEF IInv, ClientOK, TableOK, DeviceKept
  <2>2. client[1].out > 0
    BY <2>1, SixaxisAssumption DEF Fds
  <2> QED BY <2>1, <2>2 DEF IInv, TableOK, DeviceKept
<1> QED BY <1>1, Invariance, PTL

=============================================================================
