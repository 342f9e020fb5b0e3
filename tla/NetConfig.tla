----------------------------- MODULE NetConfig -----------------------------
(***************************************************************************)
(* netconfig: a window that shows the settings of one network interface    *)
(* and rewrites /etc/network/interfaces.  The file belongs to all          *)
(* interfaces; the program copies it without the stanza of the selected    *)
(* one, writes a new stanza at the end and renames the copy.  Both the     *)
(* reader and the copying loop take a stanza to end at an empty line.      *)
(*                                                                         *)
(* A line is abstracted to its first word, the interface or value in the   *)
(* second, and the method in the fourth.  An `auto' names one interface,   *)
(* as all those of the shipped file do.  Hostname and resolv.conf, which   *)
(* the button rewrites in place, say nothing of interfaces and are left    *)
(* out.                                                                    *)
(***************************************************************************)
EXTENDS Integers, Sequences, SequencesExt

CONSTANTS
  Names,        \* the interfaces of /proc/net/dev but lo and ppp*
  Wireless,     \* those in /proc/net/wireless as well
  Values,       \* what can be typed
  FirstWord,    \* FirstWord[v]: v up to its first space
  DefaultMask,  \* 255.255.255.0
  FirstMode,    \* the mode the window comes up with
  Typed,        \* Typed[o]: what the user may type for option o
  Files,        \* what /etc/network/interfaces may contain at first
  MaxEdits,     \* bound: things the user types, chooses or selects
  MaxApplies,   \* bound: how often Apply is pressed
  Null          \* NULL, an empty entry, no file

Address  == {"address", "netmask", "gateway"}
Radio    == {"wireless-mode", "wireless-essid", "wireless-key"}
Options  == Address \cup Radio
Settings == [dhcp : BOOLEAN, opt : [Options -> Values \cup {Null}]]

Line == [key : {"blank", "auto", "iface", "other"} \cup Options,
         arg : Names \cup Values \cup {"lo", Null},
         how : {"dhcp", "static", "loopback", Null}]

ASSUME NetAssumption ==
  /\ Wireless \subseteq Names /\ "lo" \notin Names
  /\ Null \notin Values \cup Names
  /\ DefaultMask \in Values
  /\ FirstWord \in [Values -> Values]
  /\ \A v \in Values : FirstWord[FirstWord[v]] = FirstWord[v]
  /\ Typed \in [Options -> SUBSET (Values \cup {Null})]
  /\ FirstMode \in Values /\ Null \notin Typed["wireless-mode"]
  /\ Files \subseteq Seq(Line)
  /\ \A f \in Files : \A i \in DOMAIN f : f[i].key \in Options => f[i].arg \in Values
  /\ MaxEdits \in Nat /\ MaxApplies \in Nat

VARIABLES
  netPc,      \* "form", or in apply_iface: "written", "renamed"
  etc,        \* /etc/network/interfaces
  tmp,        \* interfaces.tmp, or Null
  name,       \* what the combo box shows
  iface,      \* data->iface
  entry,      \* the entries and the combo box of the mode
  touched,    \* the user has changed something since the last selection
  edits, applies

netVars == <<netPc, etc, tmp, name, iface, entry, touched, edits, applies>>

Blank == [key |-> "blank", arg |-> Null, how |-> Null]
NoOptions == [o \in Options |-> Null]

-----------------------------------------------------------------------------
(* The two loops.                                                          *)

\* Mutant: the loop stops at the end of the stanza.
CopyLineForgets(n, s, l) ==
  IF s.found THEN s
  ELSE CASE l.key = "auto" /\ l.arg = n  -> [s EXCEPT !.text = TRUE]
         [] l.key = "iface" /\ l.arg = n -> [s EXCEPT !.text = TRUE, !.found = TRUE]
         [] OTHER -> [s EXCEPT !.text = l.key # "blank", !.out = Append(@, l)]

\* One round of write_iface_config's loop.  text is v[0] # NULL.
CopyLine(n, s, l) ==
  IF s.found THEN [s EXCEPT !.text = FALSE, !.found = l.key # "blank"]
  ELSE CASE l.key = "auto" /\ l.arg = n  -> [s EXCEPT !.text = TRUE]
         [] l.key = "iface" /\ l.arg = n -> [s EXCEPT !.text = TRUE, !.found = TRUE]
         [] OTHER -> [s EXCEPT !.text = l.key # "blank", !.out = Append(@, l)]

\* The loop, after the first i lines.  v is not initialised: v0 stands for it.
Copying(n, lines, v0) ==
  LET s[i \in 0 .. Len(lines)] ==
        IF i = 0 THEN [out |-> <<>>, found |-> FALSE, text |-> v0]
        ELSE CopyLine(n, s[i - 1], lines[i])
  IN  s

\* The lines of the others, and an empty line unless the last one was empty or
\* belonged to n.
Others(n, lines, v0) ==
  LET s == Copying(n, lines, v0)[Len(lines)]
  IN  IF s.text THEN Append(s.out, Blank) ELSE s.out

\* The stanza of n.  An entry that is empty is not written.
Stanza(n, set, wifi) ==
  LET written(o) == /\ set.opt[o] # Null
                    /\ IF o \in Radio THEN wifi ELSE ~ set.dhcp
      line(o) == IF written(o) THEN <<[key |-> o, arg |-> set.opt[o], how |-> Null]>>
                 ELSE <<>>
  IN  <<[key |-> "auto", arg |-> n, how |-> Null],
        [key |-> "iface", arg |-> n, how |-> IF set.dhcp THEN "dhcp" ELSE "static"]>>
      \o line("address") \o line("netmask") \o line("gateway")
      \o line("wireless-mode") \o line("wireless-essid") \o line("wireless-key")

\* Mutant: the reader goes on behind the empty line.
ReadLineGoesOn(n, s, l) ==
  CASE s.found /\ l.key \in Options -> [s EXCEPT !.set.opt[l.key] = FirstWord[l.arg]]
    [] ~ s.found /\ l.key = "iface" /\ l.arg = n ->
         [s EXCEPT !.found = TRUE, !.set.dhcp = l.how = "dhcp"]
    [] OTHER -> s

\* One round of read_iface_config's loop.
ReadLine(n, s, l) ==
  IF s.ended THEN s
  ELSE CASE s.found /\ l.key = "blank" -> [s EXCEPT !.ended = TRUE]
         [] s.found /\ l.key \in Options ->
              [s EXCEPT !.set.opt[l.key] = FirstWord[l.arg]]
         [] ~ s.found /\ l.key = "iface" /\ l.arg = n ->
              [s EXCEPT !.found = TRUE, !.set.dhcp = l.how = "dhcp"]
         [] OTHER -> s

\* The loop, after the first i lines.
Reading(n, lines) ==
  LET s[i \in 0 .. Len(lines)] ==
        IF i = 0 THEN [found |-> FALSE, ended |-> FALSE,
                       set |-> [dhcp |-> FALSE, opt |-> NoOptions]]
        ELSE ReadLine(n, s[i - 1], lines[i])
  IN  s

ReadIface(n, lines) == Reading(n, lines)[Len(lines)].set

-----------------------------------------------------------------------------
(* The callbacks.                                                          *)

\* Mutant: what the file does not say stays as it was.
ShowingWhatIsSet(n, set, old) ==
  [o \in Options |->
     IF (o \in Address \/ (n \in Wireless /\ o # "wireless-mode")) /\ set.opt[o] # Null
     THEN set.opt[o] ELSE old[o]]

\* update_iface_fields.  The radio entries of a wired interface keep what they
\* had, and the mode is not set from the file.
Showing(n, set, old) ==
  [o \in Options |->
     IF o \in Address \/ (n \in Wireless /\ o # "wireless-mode")
     THEN set.opt[o] ELSE old[o]]

Unfilled == [NoOptions EXCEPT !["wireless-mode"] = FirstMode]

\* The first interface is selected before the window appears.
NetInit ==
  /\ netPc = "form" /\ tmp = Null
  /\ etc \in Files
  /\ name \in Names
  /\ iface = ReadIface(name, etc)
  /\ entry = Showing(name, iface, Unfilled)
  /\ touched = FALSE /\ edits = 0 /\ applies = 0

Edited ==
  /\ netPc = "form" /\ edits < MaxEdits
  /\ edits' = edits + 1
  /\ UNCHANGED <<netPc, etc, tmp, applies>>

Select(n) ==
  /\ Edited
  /\ name' = n
  /\ iface' = ReadIface(n, etc)
  /\ entry' = Showing(n, iface', entry)
  /\ touched' = FALSE

Type(o, v) ==
  /\ o \in Address => ~ iface.dhcp      \* else it is not sensitive
  /\ o \in Radio => name \in Wireless   \* else it is hidden
  /\ v \in Typed[o]
  /\ Edited
  /\ entry' = [entry EXCEPT ![o] = v]
  /\ touched' = TRUE
  /\ UNCHANGED <<name, iface>>

\* dhcp_toggled
Toggle ==
  /\ Edited
  /\ iface' = [iface EXCEPT !.dhcp = ~ @]
  /\ entry' = IF iface.dhcp THEN [entry EXCEPT !["netmask"] = DefaultMask] ELSE entry
  /\ touched' = TRUE
  /\ UNCHANGED name

\* What apply_iface takes from the entries: with dhcp no address, without wifi
\* no radio.
Collected ==
  [dhcp |-> iface.dhcp,
   opt  |-> [o \in Options |->
               IF (o \in Address /\ ~ iface.dhcp) \/ (o \in Radio /\ name \in Wireless)
               THEN entry[o] ELSE Null]]

\* apply_iface: free, collect, write_iface_config up to fclose ...
ApplyWrite ==
  /\ netPc = "form" /\ applies < MaxApplies
  /\ applies' = applies + 1
  /\ netPc' = "written"
  /\ iface' = Collected
  /\ \E v0 \in IF etc = <<>> THEN BOOLEAN ELSE {FALSE} :
       tmp' = Others(name, etc, v0) \o Stanza(name, Collected, name \in Wireless)
  /\ UNCHANGED <<etc, name, entry, touched, edits>>

\* ... rename, ...
ApplyRename ==
  /\ netPc = "written"
  /\ netPc' = "renamed"
  /\ etc' = tmp /\ tmp' = Null
  /\ UNCHANGED <<name, iface, entry, touched, edits, applies>>

\* ... ifdown and ifup.
ApplyUp ==
  /\ netPc = "renamed"
  /\ netPc' = "form"
  /\ UNCHANGED <<etc, tmp, name, iface, entry, touched, edits, applies>>

\* The program is killed, or the window closed, and started again.
Reopen ==
  /\ edits < MaxEdits
  /\ edits' = edits + 1
  /\ netPc' = "form"
  /\ name' \in Names
  /\ iface' = ReadIface(name', etc)
  /\ entry' = Showing(name', iface', Unfilled)
  /\ touched' = FALSE
  /\ UNCHANGED <<etc, tmp, applies>>

NetNext ==
  \/ \E n \in Names : Select(n)
  \/ \E o \in Options : \E v \in Typed[o] : Type(o, v)
  \/ Toggle \/ ApplyWrite \/ ApplyRename \/ ApplyUp \/ Reopen

NetSpec == NetInit /\ [][NetNext]_netVars

-----------------------------------------------------------------------------
(* Properties                                                              *)

\* The lines from the header of a stanza up to the next empty line.
Body(n, lines) ==
  LET heads  == {i \in DOMAIN lines : lines[i].key = "iface" /\ lines[i].arg = n}
      ends   == {i \in DOMAIN lines : lines[i].key = "blank"} \cup {Len(lines) + 1}
      from   == Min(heads)
  IN  IF heads = {} THEN <<>>
      ELSE SubSeq(lines, from, Min({e \in ends : e > from}) - 1)

\* What the file says of n.
Row(n, lines) ==
  [body |-> Body(n, lines),
   up   |-> \E i \in DOMAIN lines : lines[i].key = "auto" /\ lines[i].arg = n]

\* No interface is named twice: old stanzas do not pile up.
OneStanza(lines) ==
  \A i, j \in DOMAIN lines :
    /\ lines[i].key \in {"auto", "iface"}
    /\ lines[i].key = lines[j].key /\ lines[i].arg = lines[j].arg
    => i = j

\* Stanzas are separated by empty lines.
Apart(lines) ==
  \A i, j \in DOMAIN lines :
    i < j /\ lines[i].key = "iface" /\ lines[j].key \in {"auto", "iface"} =>
      \E k \in i + 1 .. j - 1 : lines[k].key = "blank"

\* Of n nothing is set that the window would not write.
Fitting(n, lines) ==
  LET body == Body(n, lines) IN
  \A i \in DOMAIN body :
    /\ body[i].key \in Address => body[1].how # "dhcp"
    /\ body[i].key \in Radio   => n \in Wireless

Table == INSTANCE NetSettings
  WITH Names <- Names \cup {"lo"},
       table <- [n \in Names \cup {"lo"} |-> Row(n, etc)],
       selected <- name,
       shown <- [body |-> Tail(Stanza(name, Collected, name \in Wireless)), up |-> TRUE]

\* The rewriting loop is an update of one row: what the window shows replaces
\* the stanza of the selected interface, and no other interface gains or loses a
\* line, wherever in the file its stanza is, however often the file was
\* rewritten, and wherever the program was killed.  (Of files whose stanzas are
\* separated by empty lines.)
NetTable == Table!Spec

\* The reading loop finds the stanza that the rewriting loop wrote, or left
\* alone: all of its settings, of a value in two words the first, and none of
\* any other stanza; and there is one stanza to find.
ReadsRow ==
  /\ OneStanza(etc)
  /\ \A n \in Names :
       LET body == Body(n, etc)
           of(o) == {i \in DOMAIN body : body[i].key = o}
           set  == ReadIface(n, etc)
       IN  /\ set.dhcp <=> body # <<>> /\ Head(body).how = "dhcp"
           /\ \A o \in Options :
                set.opt[o] = IF of(o) = {} THEN Null
                             ELSE FirstWord[body[Max(of(o))].arg]

\* To open the window or select an interface and to press Apply leaves the value
\* of every setting but the mode, which is not read into the window.  (An interface
\* without a stanza is given one by it.)
ApplyIsIdle ==
  netPc = "form" /\ ~ touched =>
    LET now == ReadIface(name, etc) IN
    /\ Collected.dhcp = now.dhcp
    /\ \A o \in Options \ {"wireless-mode"} : Collected.opt[o] = now.opt[o]

\* Whoever presses Apply changes the settings of the interface that is selected
\* and of no other.  (The violation run starts from the file the image ships.)
OthersKept ==
  [][\A n \in Names \ {name} : Row(n, etc') = Row(n, etc)]_netVars
=============================================================================
