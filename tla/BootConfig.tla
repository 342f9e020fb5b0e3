----------------------------- MODULE BootConfig -----------------------------
(***************************************************************************)
(* The readers of boot configurations in ps3boot's parse-config.c: kboot,  *)
(* yaboot, ps3boot, syslinux and grub.  A file is read line by line; a     *)
(* section begins with its header and ends where the reader's inner loop   *)
(* meets a line that ends it.  That line has been read, and all readers    *)
(* but syslinux drop it.                                                   *)
(*                                                                         *)
(* A line is abstracted to what the readers tell apart: whether it is      *)
(* blank, indented or neither, what it sets, and to which of few values.   *)
(* What an entry contains is abstracted to the numbers of the lines it was *)
(* taken from.  The file is made up while it is read.                      *)
(***************************************************************************)
EXTENDS Integers, Sequences

CONSTANTS
  Labels,
  Timeouts,
  Lines,       \* Lines[r]: the lines that may be in a file of reader r
  None,
  MaxLines     \* bound: the length of a file

Readers == {"kboot", "yaboot", "ps3boot", "syslinux", "grub"}

\* head: image=, label=, title, and the lines of kboot with an =.  message is
\* syslinux's display, which may name a file.  What else a reader passes over
\* in the first column is other, in a section arg stands for append, exec...; a message
\* or an arg without the value that it needs has None.
FirstColumn == {"comment", "timeout", "default", "message", "head", "other"}
Indented    == {"label", "kernel", "arg"}
Line == [kind : FirstColumn \cup Indented \cup {"blank"},
         val  : Labels \cup Timeouts \cup Nat \cup {None}]

\* An entry, and what bootdevice_default_config notes of it.
Entry == [label : Labels \cup {None}, at : Nat, kernel : Nat, args : SUBSET Nat]

Default == [entry : Entry, timeout : Timeouts \cup {0}]

\* default of grub is a position, for the others it is a label.  syslinux has none,
\* and only yaboot has the label in a line of its own.
ASSUME BootConfigAssumption ==
  /\ None \notin Labels \cup Timeouts \cup Int
  /\ \A l \in Labels : l \notin Int
  /\ None \notin Default
  /\ 0 \notin Timeouts
  /\ Lines \in [Readers -> SUBSET Line]
  /\ \A r \in Readers : \A l \in Lines[r] :
       /\ l.kind \in {"label", "head"} => l.val \in Labels \cup {None}
       /\ l.kind = "timeout" => l.val \in Timeouts
       /\ l.kind = "default" => l.val \in IF r = "grub" THEN Nat ELSE Labels
       /\ l.kind \in {"timeout", "default"} => r # "syslinux"
       /\ l.kind = "label" => r = "yaboot"
       /\ l.kind = "kernel" => r \in {"syslinux", "grub"}
  /\ MaxLines \in Nat

VARIABLES
  reader,
  file,      \* the lines read so far
  eof,
  pc,        \* "outer" loop, "again" (syslinux), "section" (inner loop), "done", "crashed"
  sec,       \* the section that is being read
  conf,      \* dev->conf
  def,       \* dev->def; def_pos of grub
  timeout,   \* dev->timeout
  auto       \* what bootdevice_default_config noted

source == <<reader, eof, file>>
result == <<conf, def, timeout, auto>>
vars   == <<source, pc, sec, result>>

TypeOK ==
  /\ reader \in Readers /\ eof \in BOOLEAN
  /\ file \in Seq(Lines[reader])
  /\ pc \in {"outer", "again", "section", "done", "crashed"}
  /\ pc \in {"again", "section"} => file # <<>>
  /\ sec \in Entry
  /\ conf \in Seq({e \in Entry : e.label # None})
  /\ def \in IF reader = "grub" THEN Int ELSE Labels \cup {None}
  /\ timeout \in Timeouts \cup {0}
  /\ auto = None \/ auto \in Default

NoSection == [label |-> None, at |-> 0, kernel |-> 0, args |-> {}]

\* bootdevice_create takes the first reader that finds its file.
Init ==
  /\ reader \in Readers
  /\ file = <<>> /\ eof = FALSE
  /\ pc = "outer"
  /\ sec = NoSection
  /\ conf = <<>>
  /\ def = IF reader = "grub" THEN -1 ELSE None
  /\ timeout = 0
  /\ auto = None

-----------------------------------------------------------------------------
(* Reading.                                                                *)

Here == Len(file)

Fgets(l) ==
  /\ ~ eof /\ Here < MaxLines
  /\ l \in Lines[reader]
  /\ file' = Append(file, l)
  /\ UNCHANGED <<reader, eof>>

FgetsNull == eof' = TRUE /\ UNCHANGED <<reader, file>>

\* bootdevice_default_config: the first default stands.
Noted(s) == IF auto = None THEN [entry |-> s, timeout |-> timeout] ELSE auto

\* Mutant: the second entry for the first.
SecondIsDefault(s) == IF reader = "grub" THEN def = 1 ELSE def = s.label

IsDefault(s) == IF reader = "grub" THEN def = 0 ELSE def = s.label

\* bootdevice_add_config, and whether the entry is the default.
AddConfig(s) ==
  IF s.label = None THEN UNCHANGED result
  ELSE /\ conf' = Append(conf, s)
       /\ auto' = IF IsDefault(s) THEN Noted(s) ELSE auto
       /\ def'  = IF reader = "grub" THEN def - 1 ELSE def
       /\ UNCHANGED timeout

\* get_str_val returns NULL for a line without a value, and these readers go through
\* it: in search of \n in a message, or with strcat in a section.
NullValue(l) ==
  /\ l.val = None
  /\ \/ pc = "outer" /\ l.kind = "message" /\ reader \in {"yaboot", "ps3boot"}
     \/ pc = "section" /\ l.kind = "arg" /\ reader \in {"yaboot", "ps3boot", "syslinux"}

\* ps3boot, which reads the file, ends with a SIGSEGV.
Crash(l) ==
  /\ NullValue(l)
  /\ Fgets(l)
  /\ pc' = "crashed"
  /\ UNCHANGED <<sec, result>>

-----------------------------------------------------------------------------
(* The outer loop.                                                         *)

SetTimeout(l) ==
  /\ pc = "outer" /\ l.kind = "timeout"
  /\ Fgets(l)
  /\ timeout' = l.val
  /\ UNCHANGED <<pc, sec, conf, def, auto>>

SetDefault(l) ==
  /\ pc = "outer" /\ l.kind = "default"
  /\ Fgets(l)
  /\ def' = l.val
  /\ UNCHANGED <<pc, sec, conf, timeout, auto>>

Skip(l) ==
  /\ pc = "outer" /\ reader # "syslinux"
  /\ l.kind \notin {"timeout", "default", "head"} /\ ~ NullValue(l)
  /\ Fgets(l)
  /\ UNCHANGED <<pc, sec, result>>

\* An entry of kboot is one line.
KbootEntry(l) ==
  /\ pc = "outer" /\ reader = "kboot" /\ l.kind = "head"
  /\ Fgets(l)
  /\ AddConfig([label |-> l.val, at |-> Here + 1, kernel |-> Here + 1, args |-> {}])
  /\ UNCHANGED <<pc, sec>>

\* The header of yaboot names the kernel, the others' their label.
\* Mutant: the arguments are not cleared.
BeginKeepsArgs(l, n) ==
  [sec EXCEPT !.label = IF reader = "yaboot" THEN None ELSE l.val,
              !.at = n, !.kernel = IF reader = "yaboot" THEN n ELSE 0]

Begin(l, n) ==
  [label |-> IF reader = "yaboot" THEN None ELSE l.val, at |-> n,
   kernel |-> IF reader = "yaboot" THEN n ELSE 0, args |-> {}]

Header(l) ==
  /\ pc = "outer" /\ reader \in {"yaboot", "ps3boot", "grub"} /\ l.kind = "head"
  /\ Fgets(l)
  /\ sec' = Begin(l, Here + 1)
  /\ pc' = "section"
  /\ UNCHANGED result

EndOfFile ==
  /\ pc = "outer"
  /\ FgetsNull
  /\ pc' = "done"
  /\ UNCHANGED <<sec, result>>

\* Every line of syslinux goes to its while (1), also the one that ended a
\* section.
SyslinuxLine(l) ==
  /\ pc = "outer" /\ reader = "syslinux"
  /\ Fgets(l)
  /\ pc' = "again"
  /\ UNCHANGED <<sec, result>>

\* A comment, or a display without a name, is continued with and never left: no
\* step changes anything any more.
Continued(l) == l.kind = "comment" \/ (l.kind = "message" /\ l.val = None)

\* Mutant: break only where a message was shown.
LeaveMessage ==
  /\ pc = "again"
  /\ file[Here].kind = "message" /\ ~ Continued(file[Here])
  /\ pc' = "outer"
  /\ UNCHANGED <<source, sec, result>>

Leave ==
  /\ pc = "again"
  /\ file[Here].kind # "head" /\ ~ Continued(file[Here])
  /\ pc' = "outer"
  /\ UNCHANGED <<source, sec, result>>

\* When the file ends with a header its line stays in the buffer, and the entry is
\* added for ever.
AgainHeader ==
  /\ pc = "again"
  /\ file[Here].kind = "head"
  /\ Len(conf) < MaxLines
  /\ sec' = Begin(file[Here], Here)
  /\ pc' = "section"
  /\ UNCHANGED <<source, result>>

-----------------------------------------------------------------------------
(* The inner loop.                                                         *)

\* grub looks for a blank line only, syslinux passes over blank lines.
EndsSection(r, l) ==
  \/ l.kind \in FirstColumn /\ r # "grub"
  \/ l.kind = "blank" /\ r # "syslinux"

After == IF reader = "syslinux" THEN "again" ELSE "outer"

Taken(l, n) ==
  [sec EXCEPT !.label  = IF l.kind = "label"  THEN l.val ELSE @,
              !.kernel = IF l.kind = "kernel" THEN n ELSE @,
              !.args   = IF l.kind = "arg"    THEN @ \cup {n} ELSE @]

InSection(l) ==
  /\ pc = "section"
  /\ Fgets(l)
  /\ ~ EndsSection(reader, l) /\ ~ NullValue(l)
  /\ sec' = Taken(l, Here + 1)
  /\ UNCHANGED <<pc, result>>

SectionEnds(l) ==
  /\ pc = "section"
  /\ Fgets(l)
  /\ EndsSection(reader, l)
  /\ AddConfig(sec)
  /\ pc' = After
  /\ UNCHANGED sec

\* Mutant: a section that the file ends with is lost.
LosesLastSection ==
  /\ pc = "section"
  /\ FgetsNull
  /\ pc' = After
  /\ UNCHANGED <<sec, result>>

FileEndsInSection ==
  /\ pc = "section"
  /\ FgetsNull
  /\ AddConfig(sec)
  /\ pc' = After
  /\ UNCHANGED sec

Next ==
  \/ \E l \in Lines[reader] :
       \/ SetTimeout(l) \/ SetDefault(l) \/ Skip(l) \/ KbootEntry(l) \/ Header(l)
       \/ SyslinuxLine(l) \/ InSection(l) \/ SectionEnds(l) \/ Crash(l)
  \/ EndOfFile \/ Leave \/ AgainHeader \/ FileEndsInSection

Spec == Init /\ [][Next]_vars

\* ps3boot reads on.
FairSpec == Spec /\ WF_vars(Next)

-----------------------------------------------------------------------------
(* Properties.                                                             *)

Headers == {h \in DOMAIN file : file[h].kind = "head"}

\* What a section says, read from the file as a whole.
Body(h) == {i \in h + 1 .. Here : \A j \in h + 1 .. i : ~ EndsSection(reader, file[j])}
Of(h, kind)  == {i \in Body(h) : file[i].kind = kind}
LastOf(S) == IF S = {} THEN 0 ELSE CHOOSE i \in S : \A j \in S : j <= i

EntryAt(h) ==
  CASE reader = "kboot" ->
         [label |-> file[h].val, at |-> h, kernel |-> h, args |-> {}]
    [] reader = "yaboot" ->
         [label |-> IF Of(h, "label") = {} THEN None ELSE file[LastOf(Of(h, "label"))].val,
          at |-> h, kernel |-> h, args |-> Of(h, "arg")]
    [] OTHER ->
         [label |-> file[h].val, at |-> h, kernel |-> LastOf(Of(h, "kernel")),
          args |-> Of(h, "arg")]

\* Between two sections there is a blank line, as in the files of ps3boot/test and
\* generic/ps3fastboot.  kboot and syslinux need none.
Separated ==
  \/ reader \in {"kboot", "syslinux"}
  \/ \A g, h \in Headers : g < h => \E j \in g + 1 .. h - 1 : file[j].kind = "blank"

\* Of a file whose sections are separated every one with a label becomes an entry,
\* once, in order, with its own lines, also the last one and the one that follows a
\* line which ended another (parse-config.c:235-284, 336-358, 430-458, 503-527).
Complete ==
  pc = "done" /\ Separated =>
    /\ {conf[i] : i \in DOMAIN conf} = {e \in {EntryAt(h) : h \in Headers} : e.label # None}
    /\ \A i, j \in DOMAIN conf : i < j => conf[i].at < conf[j].at

OnlyOwn(e) ==
  \A n \in e.args \cup ({e.kernel} \ {0}) :
    /\ e.at <= n /\ n <= Here
    /\ \A h \in Headers : ~ (e.at < h /\ h <= n)

\* Whatever the file, an entry never has lines of another section; grub, which
\* looks for blank lines only, is the exception.
OwnLines ==
  reader # "grub" => \A i \in DOMAIN conf : OnlyOwn(conf[i])

\* If timeout and default stand before the first section, the countdown is for the
\* first entry that default names, or at its position, with that timeout
\* (parse-config.c:173-177, 279-283, 353-357, 523-526).
SettingsFirst ==
  \A i \in DOMAIN file, h \in Headers : file[i].kind \in {"timeout", "default"} => i < h
Setting(kind) == LastOf({i \in DOMAIN file : file[i].kind = kind})
Chosen ==
  LET d == Setting("default")
      named == {i \in DOMAIN conf : IF reader = "grub" THEN i = file[d].val + 1
                                    ELSE conf[i].label = file[d].val}
  IN  IF d = 0 \/ named = {} THEN None
      ELSE [entry   |-> conf[CHOOSE i \in named : \A j \in named : i <= j],
            timeout |-> IF Setting("timeout") = 0 THEN 0 ELSE file[Setting("timeout")].val]
DefaultBoots == pc = "done" /\ Separated /\ SettingsFirst => auto = Chosen

\* A reader comes to the end of its file.  Excepted are, for syslinux, a comment, a
\* display without a name and a header at the end, which it never leaves; and for
\* yaboot, ps3boot and syslinux the first line without a value where one is needed: a
\* message outside the sections, or an append, exec... in one.  It goes no further.
Endless ==
  /\ reader = "syslinux" /\ file # <<>>
  /\ Continued(file[Here]) \/ (eof /\ file[Here].kind = "head")
Valueless ==
  /\ reader \in {"yaboot", "ps3boot", "syslinux"} /\ file[Here].val = None
  /\ \/ /\ file[Here].kind = "message" /\ reader # "syslinux"
        /\ \A h \in Headers : Here \notin Body(h)
     \/ /\ file[Here].kind = "arg"
        /\ \E h \in Headers : Here \in Body(h)
Ends == <>(pc = "done" \/ Endless \/ (pc = "crashed" /\ Valueless))
=============================================================================
