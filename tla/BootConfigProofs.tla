--------------------------- MODULE BootConfigProofs ---------------------------
(***************************************************************************)
(* Theorems about BootConfig, for any labels, timeouts, lines and length   *)
(* of a file: its types; that an entry has no lines of another section;    *)
(* that every section becomes an entry with all its lines; and that the    *)
(* default that is noted is the entry which the file names.                *)
(***************************************************************************)
EXTENDS BootConfig, TLAPS, WellFoundedInduction

\* What the lines of a reader may set.
LEMMA LineFacts ==
  ASSUME NEW r \in Readers, NEW l \in Lines[r]
  PROVE  /\ l \in Line
         /\ l.kind \in {"label", "head"} => l.val \in Labels \cup {None}
         /\ l.kind = "timeout" => l.val \in Timeouts
         /\ l.kind = "default" => l.val \in IF r = "grub" THEN Nat ELSE Labels
BY BootConfigAssumption

\* A line is appended or not.
LEMMA ReadType ==
  ASSUME TypeOK, NEW l \in Lines[reader], Fgets(l)
  PROVE  /\ reader' = reader /\ eof' \in BOOLEAN
         /\ file' = Append(file, l) /\ file' \in Seq(Lines[reader]) /\ file' # <<>>
         /\ Here \in Nat
BY DEF TypeOK, Fgets, Here

\* What bootdevice_add_config is given, it keeps.
LEMMA AddType ==
  ASSUME TypeOK, NEW s \in Entry, AddConfig(s)
  PROVE  /\ conf' \in Seq({e \in Entry : e.label # None})
         /\ def' \in IF reader = "grub" THEN Int ELSE Labels \cup {None}
         /\ timeout' = timeout
         /\ auto' = None \/ auto' \in Default
<1>1. CASE s.label = None
  BY <1>1 DEF TypeOK, AddConfig, result
<1>2. CASE s.label # None
  <2>1. /\ conf' = Append(conf, s)
        /\ auto' = IF IsDefault(s) THEN Noted(s) ELSE auto
        /\ def'  = IF reader = "grub" THEN def - 1 ELSE def
        /\ timeout' = timeout
    BY <1>2 DEF AddConfig
  <2>2. Noted(s) = auto \/ Noted(s) \in Default
    BY DEF Noted, TypeOK, Default
  <2>3. s \in {e \in Entry : e.label # None}
    BY <1>2
  <2> QED
    BY <2>1, <2>2, <2>3 DEF TypeOK
<1> QED
  BY <1>1, <1>2

\* The entry a header begins.
LEMMA BeginType ==
  ASSUME NEW r \in Readers, reader = r, NEW l \in Line,
         l.val \in Labels \cup {None}, NEW n \in Nat
  PROVE  Begin(l, n) \in Entry /\ Begin(l, n).at = n /\ Begin(l, n).args = {}
         /\ Begin(l, n).kernel \in {0, n}
BY DEF Begin, Entry

\* A line gives an entry nothing but its own number.
LEMMA TakenType ==
  ASSUME TypeOK, NEW l \in Lines[reader], NEW n \in Nat
  PROVE  /\ Taken(l, n) \in Entry
         /\ Taken(l, n).at = sec.at
         /\ Taken(l, n).kernel \in {sec.kernel, n}
         /\ Taken(l, n).args \subseteq sec.args \cup {n}
<1>1. sec \in Entry
  BY DEF TypeOK
<1>2. l.kind = "label" => l.val \in Labels \cup {None}
  BY LineFacts DEF TypeOK
<1> QED
  BY <1>1, <1>2 DEF Taken, Entry

-----------------------------------------------------------------------------
(* The invariant: while a section is read, it has only its own lines, and     *)
(* its header is the last one.                                               *)

OwnSection ==
  pc = "section" /\ reader # "grub" =>
    /\ sec.at <= Here
    /\ OnlyOwn(sec)
    /\ \A h \in Headers : h <= sec.at

IInv == TypeOK /\ OwnLines /\ OwnSection

\* What has only its own lines keeps that when a line is read.
LEMMA OwnStays ==
  ASSUME TypeOK, NEW l \in Lines[reader], NEW e \in Entry, OnlyOwn(e),
         file' = Append(file, l)
  PROVE  OnlyOwn(e)'
<1>1. Here \in Nat /\ Here' = Here + 1
  BY DEF TypeOK, Here
<1>2. ASSUME NEW h \in Headers', h # Here + 1 PROVE h \in Headers
  BY <1>1, <1>2 DEF TypeOK, Headers, Here
<1>3. ASSUME NEW n \in e.args \cup ({e.kernel} \ {0})
      PROVE  /\ e.at <= n /\ n <= Here'
             /\ \A h \in Headers' : ~ (e.at < h /\ h <= n)
  <2>1. n \in Nat /\ e.at \in Nat
    BY DEF Entry
  <2>2. e.at <= n /\ n <= Here /\ \A h \in Headers : ~ (e.at < h /\ h <= n)
    BY DEF OnlyOwn
  <2>3. ASSUME NEW h \in Headers', e.at < h, h <= n PROVE FALSE
    BY <1>1, <1>2, <2>1, <2>2, <2>3
  <2> QED
    BY <1>1, <2>1, <2>2, <2>3
<1> QED
  BY <1>3 DEF OnlyOwn

\* The file grows by a line, or not at all.
Grows == \/ \E l \in Lines[reader] : file' = Append(file, l)
         \/ file' = file

LEMMA OwnKept ==
  ASSUME TypeOK, NEW e \in Entry, OnlyOwn(e), Grows
  PROVE  OnlyOwn(e)'
<1>1. CASE file' = file
  BY <1>1 DEF OnlyOwn, Headers, Here
<1> QED
  BY <1>1, OwnStays DEF Grows

\* The entries that are there keep it.
LEMMA EntriesKeep ==
  ASSUME TypeOK, OwnLines, Grows, reader' = reader, conf' = conf
  PROVE  OwnLines'
<1> SUFFICES ASSUME reader # "grub", NEW i \in DOMAIN conf PROVE OnlyOwn(conf[i])'
  BY DEF OwnLines
<1>1. PICK e \in Entry : e = conf[i]
  BY DEF TypeOK
<1>2. OnlyOwn(e)
  BY <1>1 DEF OwnLines
<1>3. OnlyOwn(e)'
  BY <1>2, OwnKept
<1> QED
  BY <1>1, <1>3

\* An entry is added that has it.
LEMMA EntryAdded ==
  ASSUME TypeOK, OwnLines, Grows, reader' = reader,
         NEW s \in Entry, AddConfig(s), reader # "grub" => OnlyOwn(s)'
  PROVE  OwnLines'
<1>1. CASE conf' = conf
  BY <1>1, EntriesKeep
<1>2. CASE conf' = Append(conf, s)
  <2> SUFFICES ASSUME reader # "grub", NEW i \in DOMAIN conf' PROVE OnlyOwn(conf[i])'
    BY DEF OwnLines
  <2>1. conf \in Seq(Entry)
    BY DEF TypeOK
  <2>2. CASE i = Len(conf) + 1
    <3>1. conf'[i] = s
      BY <1>2, <2>1, <2>2
    <3> QED
      BY <3>1
  <2>3. CASE i \in DOMAIN conf
    <3>1. PICK e \in Entry : e = conf[i]
      BY <2>1, <2>3
    <3>2. conf'[i] = e
      BY <1>2, <2>1, <2>3, <3>1
    <3>3. OnlyOwn(e)
      BY <2>3, <3>1 DEF OwnLines
    <3>4. OnlyOwn(e)'
      BY <3>3, OwnKept
    <3> QED
      BY <3>2, <3>4
  <2> QED
    BY <1>2, <2>1, <2>2, <2>3
<1> QED
  BY <1>1, <1>2 DEF AddConfig, result

\* A section that is begun has no lines yet but, in yaboot, its header.
LEMMA Begun ==
  ASSUME TypeOK, NEW l \in Line, l.val \in Labels \cup {None}, NEW n \in Nat,
         file' \in Seq(Lines[reader]), n <= Len(file'), sec' = Begin(l, n),
         \A h \in Headers' : h <= n
  PROVE  OwnSection'
<1>1. PICK e \in Entry : e = Begin(l, n)
  BY BeginType DEF TypeOK
<1>2. e.at = n /\ e.args = {} /\ e.kernel \in {0, n}
  BY <1>1, BeginType DEF TypeOK
<1>3. \A m \in e.args \cup ({e.kernel} \ {0}) : m = n
  BY <1>2
<1>4. n <= Here' /\ \A h \in Headers' : ~ (n < h /\ h <= n)
  BY DEF Headers, Here
<1>5. OnlyOwn(e)'
  BY <1>2, <1>3, <1>4 DEF OnlyOwn
<1> QED
  BY <1>1, <1>2, <1>4, <1>5 DEF OwnSection

\* A line of the section is put to it, and it is no header.
LEMMA Grown ==
  ASSUME TypeOK, OwnSection, pc = "section", reader' = reader,
         NEW l \in Lines[reader], Fgets(l), ~ EndsSection(reader, l),
         sec' = Taken(l, Here + 1)
  PROVE  OwnSection'
<1> SUFFICES ASSUME reader # "grub"
             PROVE  sec'.at <= Here' /\ OnlyOwn(sec)' /\ \A h \in Headers' : h <= sec'.at
  BY DEF OwnSection
<1>1. /\ Here \in Nat /\ Here' = Here + 1 /\ file' = Append(file, l)
      /\ file \in Seq(Line) /\ l \in Line
  BY ReadType, LineFacts DEF TypeOK, Here
<1>2. l.kind # "head"
  BY DEF EndsSection, FirstColumn
<1>3. Headers' = Headers
  BY <1>1, <1>2 DEF Headers, Here
<1>4. PICK old \in Entry : old = sec
  BY DEF TypeOK
<1>5. PICK new \in Entry : new = Taken(l, Here + 1)
  BY <1>1, TakenType
<1>6. /\ new.at = old.at /\ new.kernel \in {old.kernel, Here + 1}
      /\ new.args \subseteq old.args \cup {Here + 1}
  BY <1>1, <1>4, <1>5, TakenType
<1>7. /\ old.at \in Nat /\ old.at <= Here
      /\ OnlyOwn(old) /\ \A h \in Headers : h <= old.at
  BY <1>4 DEF OwnSection, Entry
<1>8. OnlyOwn(new)'
  <2> SUFFICES ASSUME NEW n \in new.args \cup ({new.kernel} \ {0})
               PROVE  /\ new.at <= n /\ n <= Here'
                      /\ \A h \in Headers' : ~ (new.at < h /\ h <= n)
    BY DEF OnlyOwn
  <2>1. n \in old.args \cup ({old.kernel} \ {0}) \/ n = Here + 1
    BY <1>6
  <2>2. n \in Nat
    BY DEF Entry
  <2>3. old.at <= n /\ n <= Here + 1
    <3>1. CASE n = Here + 1
      BY <1>1, <1>7, <3>1
    <3>2. CASE n \in old.args \cup ({old.kernel} \ {0})
      <4>1. old.at <= n /\ n <= Here
        BY <1>7, <3>2 DEF OnlyOwn
      <4> QED
        BY <1>1, <2>2, <4>1
    <3> QED
      BY <2>1, <3>1, <3>2
  <2>4. \A h \in Headers : h \in Nat
    BY <1>1 DEF Headers
  <2> QED
    BY <1>1, <1>3, <1>6, <1>7, <2>3, <2>4
<1> QED
  BY <1>1, <1>3, <1>5, <1>6, <1>7, <1>8

-----------------------------------------------------------------------------
(* The steps.                                                                *)

\* What a step leaves of the file and of the result has its type.
SourceType ==
  /\ reader \in Readers /\ eof \in BOOLEAN /\ file \in Seq(Lines[reader])
ResultType ==
  /\ conf \in Seq({e \in Entry : e.label # None})
  /\ def \in IF reader = "grub" THEN Int ELSE Labels \cup {None}
  /\ timeout \in Timeouts \cup {0}
  /\ auto = None \/ auto \in Default
SectionType ==
  /\ pc \in {"outer", "again", "section", "done", "crashed"}
  /\ pc \in {"again", "section"} => file # <<>>
  /\ sec \in Entry

\* The parts make up the whole.
LEMMA TypeParts ==
  ASSUME SourceType', ResultType', SectionType'
  PROVE  TypeOK'
BY DEF TypeOK, SourceType, ResultType, SectionType

\* Adding an entry changes the result only.
LEMMA AddTypes ==
  ASSUME TypeOK, NEW s \in Entry, AddConfig(s), reader' = reader
  PROVE  ResultType'
BY AddType DEF ResultType, TypeOK

\* A step that adds nothing leaves the result.
LEMMA SameResult == TypeOK /\ UNCHANGED result /\ reader' = reader => ResultType'
BY DEF TypeOK, ResultType, result

\* Reading a line changes the file only.
LEMMA ReadTypes ==
  ASSUME TypeOK, NEW l \in Lines[reader], Fgets(l)
  PROVE  SourceType' /\ reader' = reader /\ file' # <<>>
BY ReadType DEF SourceType, TypeOK

\* The steps that read a line keep the types.
LEMMA LineStepType ==
  ASSUME TypeOK, NEW l \in Lines[reader],
         \/ SetTimeout(l) \/ SetDefault(l) \/ Skip(l) \/ KbootEntry(l)
         \/ Header(l) \/ SyslinuxLine(l) \/ InSection(l) \/ SectionEnds(l)
  PROVE  TypeOK'
<1>1. Fgets(l)
  BY DEF SetTimeout, SetDefault, Skip, KbootEntry, Header, SyslinuxLine,
         InSection, SectionEnds
<1>2. SourceType' /\ reader' = reader /\ file' # <<>>
  BY <1>1, ReadTypes
<1>3. /\ l \in Line /\ Here \in Nat /\ Here + 1 \in Nat
      /\ l.kind \in {"label", "head"} => l.val \in Labels \cup {None}
      /\ l.kind = "timeout" => l.val \in Timeouts
      /\ l.kind = "default" => l.val \in IF reader = "grub" THEN Nat ELSE Labels
  BY <1>1, ReadType, LineFacts DEF TypeOK
<1>4. sec \in Entry /\ pc \in {"outer", "again", "section", "done", "crashed"}
  BY DEF TypeOK
<1>5. CASE SetTimeout(l)
  <2>1. ResultType'
    BY <1>2, <1>3, <1>5 DEF SetTimeout, ResultType, TypeOK
  <2> QED
    BY <1>2, <1>4, <1>5, <2>1, TypeParts DEF SetTimeout, SectionType
<1>6. CASE SetDefault(l)
  <2>1. ResultType'
    BY <1>2, <1>3, <1>6 DEF SetDefault, ResultType, TypeOK
  <2> QED
    BY <1>2, <1>4, <1>6, <2>1, TypeParts DEF SetDefault, SectionType
<1>7. CASE Skip(l)
  BY <1>2, <1>4, <1>7, SameResult, TypeParts DEF Skip, SectionType
<1>8. CASE KbootEntry(l)
  <2>1. [label |-> l.val, at |-> Here + 1, kernel |-> Here + 1, args |-> {}] \in Entry
    BY <1>3, <1>8 DEF KbootEntry, Entry
  <2> QED
    BY <1>2, <1>4, <1>8, <2>1, AddTypes, TypeParts DEF KbootEntry, SectionType
<1>9. CASE Header(l)
  <2>1. Begin(l, Here + 1) \in Entry
    BY <1>3, <1>9, BeginType DEF Header, TypeOK
  <2> QED
    BY <1>2, <1>9, <2>1, SameResult, TypeParts DEF Header, SectionType
<1>10. CASE SyslinuxLine(l)
  BY <1>2, <1>4, <1>10, SameResult, TypeParts DEF SyslinuxLine, SectionType
<1>11. CASE InSection(l)
  BY <1>2, <1>3, <1>4, <1>11, TakenType, SameResult, TypeParts DEF InSection, SectionType
<1>12. CASE SectionEnds(l)
  BY <1>2, <1>4, <1>12, AddTypes, TypeParts DEF SectionEnds, SectionType, After
<1> QED
  BY <1>5, <1>6, <1>7, <1>8, <1>9, <1>10, <1>11, <1>12

\* So do the others.
LEMMA OtherStepType ==
  ASSUME TypeOK, EndOfFile \/ Leave \/ AgainHeader \/ FileEndsInSection
  PROVE  TypeOK'
<1>1. reader' = reader /\ file' = file /\ SourceType'
  BY DEF EndOfFile, Leave, AgainHeader, FileEndsInSection, FgetsNull, source,
         SourceType, TypeOK
<1>2. sec \in Entry /\ file \in Seq(Lines[reader]) /\ reader \in Readers
  BY DEF TypeOK
<1>3. CASE EndOfFile
  BY <1>1, <1>2, <1>3, SameResult, TypeParts DEF EndOfFile, SectionType
<1>4. CASE Leave
  BY <1>1, <1>2, <1>4, SameResult, TypeParts DEF Leave, SectionType
<1>5. CASE AgainHeader
  <2>1. file # <<>>
    BY <1>5 DEF AgainHeader, TypeOK
  <2>2. Here \in Nat /\ Here \in DOMAIN file
    BY <1>2, <2>1 DEF Here
  <2>3. PICK l \in Lines[reader] : l = file[Here]
    BY <1>2, <2>2
  <2>4. Begin(l, Here) \in Entry
    BY <1>2, <1>5, <2>2, <2>3, LineFacts, BeginType DEF AgainHeader
  <2> QED
    BY <1>1, <1>5, <2>1, <2>3, <2>4, SameResult, TypeParts DEF AgainHeader, SectionType
<1>6. CASE FileEndsInSection
  BY <1>1, <1>2, <1>6, AddTypes, TypeParts DEF FileEndsInSection, SectionType, After, TypeOK
<1> QED
  BY <1>3, <1>4, <1>5, <1>6

\* A header is a line of the file.
LEMMA HeadersBound ==
  ASSUME TypeOK'
  PROVE  \A h \in Headers' : h <= Len(file')
BY DEF TypeOK, Headers

\* A line that is read leaves every entry, and the section, with its own lines.
LEMMA LineStepOwn ==
  ASSUME IInv, TypeOK', NEW l \in Lines[reader],
         \/ SetTimeout(l) \/ SetDefault(l) \/ Skip(l) \/ KbootEntry(l)
         \/ Header(l) \/ SyslinuxLine(l) \/ InSection(l) \/ SectionEnds(l)
  PROVE  OwnLines' /\ OwnSection'
<1>1. TypeOK /\ OwnLines /\ OwnSection
  BY DEF IInv
<1>2. Fgets(l)
  BY DEF SetTimeout, SetDefault, Skip, KbootEntry, Header, SyslinuxLine,
         InSection, SectionEnds
<1>3. /\ reader' = reader /\ reader \in Readers /\ Here \in Nat
      /\ file' = Append(file, l) /\ file \in Seq(Lines[reader])
      /\ file' \in Seq(Lines[reader])
  BY <1>1, <1>2, ReadType DEF TypeOK
<1>4. Grows
  BY <1>3 DEF Grows
<1>5. Len(file') = Here + 1 /\ Here' = Here + 1
  BY <1>3 DEF Here
<1>6. CASE SetTimeout(l) \/ SetDefault(l) \/ Skip(l) \/ SyslinuxLine(l)
  <2>1. conf' = conf /\ pc' # "section"
    BY <1>6 DEF SetTimeout, SetDefault, Skip, SyslinuxLine, result
  <2> QED
    BY <1>1, <1>3, <1>4, <2>1, EntriesKeep DEF OwnSection
<1>7. CASE KbootEntry(l)
  <2>1. PICK e \in Entry :
          e = [label |-> l.val, at |-> Here + 1, kernel |-> Here + 1, args |-> {}]
    BY <1>1, <1>3, <1>7, LineFacts DEF KbootEntry, Entry
  <2>2. e.at = Here + 1 /\ \A n \in e.args \cup ({e.kernel} \ {0}) : n = Here + 1
    BY <2>1
  <2>3. \A h \in Headers' : ~ (Here + 1 < h /\ h <= Here + 1)
    BY <1>3 DEF Headers
  <2>4. OnlyOwn(e)'
    BY <1>3, <1>5, <2>2, <2>3 DEF OnlyOwn
  <2>5. AddConfig(e) /\ pc' # "section"
    BY <1>7, <2>1 DEF KbootEntry
  <2> QED
    BY <1>1, <1>3, <1>4, <2>4, <2>5, EntryAdded DEF OwnSection
<1>8. CASE Header(l)
  <2>1. l \in Line /\ l.val \in Labels \cup {None} /\ Here + 1 \in Nat
    BY <1>3, <1>8, LineFacts DEF Header
  <2>2. sec' = Begin(l, Here + 1) /\ conf' = conf
    BY <1>8 DEF Header, result
  <2>3. \A h \in Headers' : h <= Here + 1
    BY <1>5, HeadersBound
  <2>4. OwnSection'
    BY <1>1, <1>3, <1>5, <2>1, <2>2, <2>3, Begun
  <2> QED
    BY <1>1, <1>3, <1>4, <2>2, <2>4, EntriesKeep
<1>9. CASE InSection(l)
  <2>1. conf' = conf
    BY <1>9 DEF InSection, result
  <2>2. OwnSection'
    BY <1>1, <1>2, <1>3, <1>9, Grown DEF InSection
  <2> QED
    BY <1>1, <1>3, <1>4, <2>1, <2>2, EntriesKeep
<1>10. CASE SectionEnds(l)
  <2>1. pc = "section" /\ AddConfig(sec) /\ pc' # "section"
    BY <1>10 DEF SectionEnds, After
  <2>2. PICK e \in Entry : e = sec
    BY <1>1 DEF TypeOK
  <2>3. reader # "grub" => OnlyOwn(e)
    BY <1>1, <2>1, <2>2 DEF OwnSection
  <2>4. reader # "grub" => OnlyOwn(e)'
    BY <1>1, <1>4, <2>3, OwnKept
  <2> QED
    BY <1>1, <1>3, <1>4, <2>1, <2>2, <2>4, EntryAdded DEF OwnSection
<1> QED
  BY <1>6, <1>7, <1>8, <1>9, <1>10

\* So do the steps that read none.
LEMMA OtherStepOwn ==
  ASSUME IInv, TypeOK', EndOfFile \/ Leave \/ AgainHeader \/ FileEndsInSection
  PROVE  OwnLines' /\ OwnSection'
<1>1. TypeOK /\ OwnLines /\ OwnSection
  BY DEF IInv
<1>2. reader' = reader /\ file' = file
  BY DEF EndOfFile, Leave, AgainHeader, FileEndsInSection, FgetsNull, source
<1>3. Grows
  BY <1>2 DEF Grows
<1>4. CASE EndOfFile \/ Leave
  <2>1. conf' = conf /\ pc' # "section"
    BY <1>4 DEF EndOfFile, Leave, result
  <2> QED
    BY <1>1, <1>2, <1>3, <2>1, EntriesKeep DEF OwnSection
<1>5. CASE AgainHeader
  <2>1. /\ file # <<>> /\ file \in Seq(Lines[reader]) /\ reader \in Readers
        /\ file[Here].kind = "head" /\ sec' = Begin(file[Here], Here) /\ conf' = conf
    BY <1>1, <1>5 DEF AgainHeader, TypeOK, result
  <2>2. Here \in Nat /\ Here \in DOMAIN file
    BY <2>1 DEF Here
  <2>3. PICK l \in Lines[reader] : l = file[Here]
    BY <2>1, <2>2
  <2>4. l \in Line /\ l.val \in Labels \cup {None}
    BY <2>1, <2>3, LineFacts
  <2>5. Len(file') = Here /\ \A h \in Headers' : h <= Here
    BY <1>2, HeadersBound DEF Here
  <2>6. OwnSection'
    BY <1>1, <1>2, <2>1, <2>2, <2>3, <2>4, <2>5, Begun
  <2> QED
    BY <1>1, <1>2, <1>3, <2>1, <2>6, EntriesKeep
<1>6. CASE FileEndsInSection
  <2>1. pc = "section" /\ AddConfig(sec) /\ pc' # "section"
    BY <1>6 DEF FileEndsInSection, After
  <2>2. PICK e \in Entry : e = sec
    BY <1>1 DEF TypeOK
  <2>3. reader # "grub" => OnlyOwn(e)'
    BY <1>1, <1>3, <2>1, <2>2, OwnKept DEF OwnSection
  <2> QED
    BY <1>1, <1>2, <1>3, <2>1, <2>2, <2>3, EntryAdded DEF OwnSection
<1> QED
  BY <1>4, <1>5, <1>6

\* A line is read: the file as it was, and what became of it.
Reads(l) ==
  /\ reader' = reader /\ reader \in Readers
  /\ l \in Lines[reader] /\ file \in Seq(Lines[reader])
  /\ file' = Append(file, l) /\ ~ eof

\* The line at which the reader ends is read, and adds nothing.
LEMMA CrashParts ==
  ASSUME TypeOK, NEW l \in Lines[reader], Crash(l)
  PROVE  /\ Fgets(l) /\ Reads(l) /\ reader' = reader
         /\ pc \in {"outer", "section"} /\ pc' = "crashed" /\ UNCHANGED <<sec, result>>
         /\ l.kind \notin {"timeout", "default"}
BY DEF Crash, NullValue, TypeOK, Fgets, Reads

LEMMA CrashInv ==
  ASSUME IInv, NEW l \in Lines[reader], Crash(l)
  PROVE  IInv'
<1>1. TypeOK /\ OwnLines
  BY DEF IInv
<1>2. /\ Fgets(l) /\ reader' = reader /\ file' = Append(file, l)
      /\ pc' = "crashed" /\ sec' = sec /\ conf' = conf /\ UNCHANGED result
  BY <1>1, CrashParts DEF Reads, result
<1>3. TypeOK'
  <2>1. SourceType' /\ file' # <<>>
    BY <1>1, <1>2, ReadTypes
  <2>2. sec \in Entry
    BY <1>1 DEF TypeOK
  <2> QED
    BY <1>1, <1>2, <2>1, <2>2, SameResult, TypeParts DEF SectionType
<1>4. OwnLines'
  BY <1>1, <1>2, EntriesKeep DEF Grows
<1> QED
  BY <1>2, <1>3, <1>4 DEF IInv, OwnSection

\* The invariant holds before anything is read, and every step keeps it.
LEMMA InitInv == Init => IInv
<1> SUFFICES ASSUME Init PROVE IInv
  OBVIOUS
<1>1. NoSection \in Entry
  BY DEF NoSection, Entry
<1>2. /\ file = <<>> /\ file \in Seq(Lines[reader])
      /\ conf = <<>> /\ conf \in Seq({e \in Entry : e.label # None})
  BY DEF Init
<1>3. def \in IF reader = "grub" THEN Int ELSE Labels \cup {None}
  BY DEF Init
<1>4. TypeOK
  BY <1>1, <1>2, <1>3 DEF Init, TypeOK
<1> QED
  BY <1>4 DEF Init, IInv, OwnLines, OwnSection

LEMMA NextInv ==
  ASSUME IInv, [Next]_vars
  PROVE  IInv'
<1>1. CASE UNCHANGED vars
  <2>1. /\ reader' = reader /\ eof' = eof /\ file' = file /\ pc' = pc /\ sec' = sec
        /\ conf' = conf /\ def' = def /\ timeout' = timeout /\ auto' = auto
    BY <1>1 DEF vars, source, result
  <2>2. TypeOK'
    BY <2>1 DEF IInv, TypeOK
  <2>3. OwnLines'
    BY <2>1, EntriesKeep DEF IInv, Grows
  <2>4. OwnSection'
    BY <2>1 DEF IInv, OwnSection, OnlyOwn, Headers, Here
  <2> QED
    BY <2>2, <2>3, <2>4 DEF IInv
<1>2. ASSUME NEW l \in Lines[reader],
             \/ SetTimeout(l) \/ SetDefault(l) \/ Skip(l) \/ KbootEntry(l)
             \/ Header(l) \/ SyslinuxLine(l) \/ InSection(l) \/ SectionEnds(l)
      PROVE  IInv'
  BY <1>2, LineStepType, LineStepOwn DEF IInv
<1>3. ASSUME NEW l \in Lines[reader], Crash(l)
      PROVE  IInv'
  BY <1>3, CrashInv
<1>4. CASE EndOfFile \/ Leave \/ AgainHeader \/ FileEndsInSection
  BY <1>4, OtherStepType, OtherStepOwn DEF IInv
<1> QED
  BY <1>1, <1>2, <1>3, <1>4 DEF Next

\* The strengthened invariant, from which the theorems follow.
THEOREM InvariantHolds == Spec => []IInv
BY InitInv, NextInv, PTL DEF Spec

\* What the readers keep of a file has its type: in particular every entry they
\* list has a label, as bootdevice_add_config is called for no other, and a
\* section is only read after its header (parse-config.c:21-535).
THEOREM TypeCorrect == Spec => []TypeOK
<1>1. IInv => TypeOK
  BY DEF IInv
<1> QED
  BY <1>1, InvariantHolds, PTL

\* For any file, of any length, no reader but grub's gives an entry a line that
\* stands before its header or after the next one (parse-config.c:235-276,
\* 336-350, 430-446).
THEOREM OwnLinesSafe == Spec => []OwnLines
<1>1. IInv => OwnLines
  BY DEF IInv
<1> QED
  BY <1>1, InvariantHolds, PTL

-----------------------------------------------------------------------------
(* What a file says.                                                         *)

\* A set of naturals has a least element.
LEMMA HasLeast ==
  ASSUME NEW T, T \subseteq Nat, T # {}
  PROVE  \E m \in T : \A k \in T : m <= k
<1> DEFINE R == {ss \in Nat \X Nat : ss[1] < ss[2]}
<1>1. OpToRel(<, Nat) = R
  BY DEF OpToRel
<1>2. IsWellFoundedOn(R, Nat)
  BY <1>1, NatLessThanWellFounded
<1>3. \E m \in T : \A k \in T : ~ (<<k, m>> \in R)
  <2> HIDE DEF R
  <2> QED
    BY <1>2, WFMin
<1>4. PICK m \in T : \A k \in T : ~ (<<k, m>> \in R)
  BY <1>3
<1>5. ASSUME NEW k \in T PROVE m <= k
  <2>1. k \in Nat /\ m \in Nat
    OBVIOUS
  <2>2. ~ (<<k, m>> \in R)
    BY <1>4
  <2>3. ~ (k < m)
    BY <2>1, <2>2
  <2> QED
    BY <2>1, <2>3
<1> QED
  BY <1>5

\* LastOf is the last, where there is one.
LEMMA LastOfIs ==
  ASSUME NEW S, S \subseteq Int, NEW m \in S, \A j \in S : j <= m
  PROVE  LastOf(S) = m
<1>1. \E i \in S : \A j \in S : j <= i
  OBVIOUS
<1>2. LastOf(S) \in S /\ \A j \in S : j <= LastOf(S)
  BY <1>1, Zenon DEF LastOf
<1>3. LastOf(S) \in Int /\ m \in Int /\ LastOf(S) <= m /\ m <= LastOf(S)
  BY <1>2
<1> QED
  BY <1>3

LEMMA LastOfIn ==
  ASSUME NEW n \in Nat, NEW S, S \subseteq 1 .. n, S # {}
  PROVE  LastOf(S) \in S /\ \A j \in S : j <= LastOf(S)
<1> DEFINE T == {n - i : i \in S}
<1>1. PICK s \in S : TRUE
  OBVIOUS
<1>6. \A i \in S : i \in 1 .. n /\ n - i \in Nat
  OBVIOUS
<1>7. T \subseteq Nat /\ T # {}
  BY <1>1, <1>6
<1>2. PICK m \in T : \A k \in T : m <= k
  BY <1>7, HasLeast
<1>3. PICK i \in S : m = n - i
  BY <1>2
<1>4. \A j \in S : j <= i
  <2> SUFFICES ASSUME NEW j \in S PROVE j <= i
    OBVIOUS
  <2>1. m <= n - j
    BY <1>2
  <2>2. n - i <= n - j /\ i \in Nat /\ j \in Nat
    BY <1>3, <1>6, <2>1
  <2> QED
    BY <2>2
<1>5. LastOf(S) = i
  <2>1. S \subseteq Int
    BY <1>6
  <2> QED
    BY <1>4, <2>1, LastOfIs
<1> QED
  BY <1>4, <1>5

LEMMA ReadFacts ==
  ASSUME NEW l, Reads(l)
  PROVE  /\ Here \in Nat /\ Here' = Here + 1
         /\ DOMAIN file = 1 .. Here /\ DOMAIN file' = 1 .. Here + 1
         /\ \A i \in 1 .. Here : file'[i] = file[i]
         /\ file'[Here + 1] = l
         /\ l \in Line /\ file \in Seq(Line)
<1>1. l \in Line /\ Lines[reader] \subseteq Line
  BY LineFacts DEF Reads
<1>2. file \in Seq(Line) /\ file' = Append(file, l)
  BY <1>1 DEF Reads
<1>3. Here' = Len(file')
  BY DEF Here
<1> QED
  BY <1>1, <1>2, <1>3 DEF Here

LEMMA FgetsReads ==
  ASSUME TypeOK, NEW l \in Lines[reader], Fgets(l)
  PROVE  Reads(l)
BY DEF TypeOK, Fgets, Reads

LEMMA HeadersGrow ==
  ASSUME NEW l, Reads(l)
  PROVE  /\ Headers' = IF l.kind = "head" THEN Headers \cup {Here + 1} ELSE Headers
         /\ Headers \subseteq 1 .. Here
<1>1. /\ Here \in Nat /\ DOMAIN file = 1 .. Here /\ DOMAIN file' = 1 .. Here + 1
      /\ \A i \in 1 .. Here : file'[i] = file[i]
      /\ file'[Here + 1] = l
  BY ReadFacts
<1>2. /\ Headers = {h \in 1 .. Here : file[h].kind = "head"}
      /\ Headers' = {h \in 1 .. Here + 1 : file'[h].kind = "head"}
  BY <1>1 DEF Headers
<1>3. \A h \in 1 .. Here + 1 : h = Here + 1 \/ h \in 1 .. Here
  BY <1>1
<1>4. CASE l.kind = "head"
  BY <1>1, <1>2, <1>3, <1>4
<1>5. CASE l.kind # "head"
  BY <1>1, <1>2, <1>3, <1>5
<1> QED
  BY <1>2, <1>4, <1>5

\* What ends a section stays, and so does what the section says.
LEMMA BodyKept ==
  ASSUME NEW l, Reads(l), NEW h \in 1 .. Here,
         \E j \in h + 1 .. Here : EndsSection(reader, file[j])
  PROVE  Body(h)' = Body(h)
<1>1. PICK j \in h + 1 .. Here : EndsSection(reader, file[j])
  OBVIOUS
<1>2. /\ Here \in Nat /\ Here' = Here + 1 /\ reader' = reader
      /\ \A i \in 1 .. Here : file'[i] = file[i]
  BY ReadFacts DEF Reads
<1>3. EndsSection(reader', file'[j])
  BY <1>1, <1>2
<1>4. Body(h)' = {i \in h + 1 .. Here + 1 :
                    \A k \in h + 1 .. i : ~ EndsSection(reader, file'[k])}
  BY <1>2 DEF Body, EndsSection
<1>5. Here + 1 \notin Body(h)'
  BY <1>1, <1>2, <1>3, <1>4
<1>6. ASSUME NEW i \in h + 1 .. Here
      PROVE  i \in Body(h)' <=> i \in Body(h)
  <2>1. \A k \in h + 1 .. i : file'[k] = file[k]
    BY <1>2
  <2> QED
    BY <1>2, <1>4, <2>1 DEF Body
<1>7. Body(h) \subseteq h + 1 .. Here /\ Body(h)' \subseteq h + 1 .. Here + 1
  BY <1>4 DEF Body
<1> QED
  BY <1>2, <1>5, <1>6, <1>7

\* An entry follows from the header, the body and their lines.
LEMMA EntryKept ==
  ASSUME Here \in Nat, reader' = reader, NEW h \in 1 .. Here, Body(h)' = Body(h),
         \A i \in 1 .. Here : file'[i] = file[i]
  PROVE  EntryAt(h)' = EntryAt(h)
<1>1. Body(h) \subseteq 1 .. Here
  BY DEF Body
<1>2. ASSUME NEW kind PROVE Of(h, kind)' = Of(h, kind)
  BY <1>1 DEF Of
<1>3. Of(h, "label") # {} => LastOf(Of(h, "label")) \in 1 .. Here
  <2>1. Of(h, "label") \subseteq 1 .. Here
    BY <1>1 DEF Of
  <2> QED
    BY <2>1, LastOfIn
<1>4. Of(h, "label") # {} =>
        file'[LastOf(Of(h, "label"))] = file[LastOf(Of(h, "label"))]
  BY <1>3
<1>5. /\ Of(h, "label")' = Of(h, "label") /\ Of(h, "kernel")' = Of(h, "kernel")
      /\ Of(h, "arg")' = Of(h, "arg")
  BY <1>2
<1>6. file'[h] = file[h]
  OBVIOUS
<1>7. CASE reader = "kboot"
  BY <1>6, <1>7 DEF EntryAt
<1>8. CASE reader = "yaboot"
  BY <1>4, <1>5, <1>6, <1>8 DEF EntryAt
<1>9. CASE reader \notin {"kboot", "yaboot"}
  BY <1>5, <1>6, <1>9 DEF EntryAt
<1> QED
  BY <1>7, <1>8, <1>9

\* A section that has been closed says the same when a line is read.
LEMMA ClosedKept ==
  ASSUME NEW l, Reads(l), NEW h \in 1 .. Here,
         reader = "kboot" \/ \E j \in h + 1 .. Here : EndsSection(reader, file[j])
  PROVE  EntryAt(h)' = EntryAt(h)
<1>1. /\ Here \in Nat /\ reader' = reader
      /\ \A i \in 1 .. Here : file'[i] = file[i]
  BY ReadFacts DEF Reads
<1>2. CASE reader = "kboot"
  BY <1>1, <1>2 DEF EntryAt
<1>3. CASE \E j \in h + 1 .. Here : EndsSection(reader, file[j])
  BY <1>1, <1>3, BodyKept, EntryKept
<1> QED
  BY <1>2, <1>3

\* What an entry is while its section is empty.
LEMMA EntryBegun ==
  ASSUME NEW h, Body(h)' = {}, reader' = reader, reader # "kboot"
  PROVE  EntryAt(h)' = Begin(file'[h], h)
<1>1. ASSUME NEW kind PROVE Of(h, kind)' = {}
  BY DEF Of
<1>2. LastOf({}) = 0
  BY DEF LastOf
<1>3. Of(h, "label")' = {} /\ Of(h, "kernel")' = {} /\ Of(h, "arg")' = {}
  BY <1>1
<1>4. CASE reader = "yaboot"
  BY <1>3, <1>4 DEF EntryAt, Begin
<1>5. CASE reader # "yaboot"
  BY <1>2, <1>3, <1>5 DEF EntryAt, Begin
<1> QED
  BY <1>4, <1>5

\* An entry stands at its header.
LEMMA EntryPlace ==
  ASSUME NEW h PROVE EntryAt(h).at = h
<1>1. CASE reader = "kboot"
  BY <1>1 DEF EntryAt
<1>2. CASE reader = "yaboot"
  BY <1>2 DEF EntryAt
<1>3. CASE reader \notin {"kboot", "yaboot"}
  BY <1>3 DEF EntryAt
<1> QED
  BY <1>1, <1>2, <1>3

\* The lines of an open section are all lines from its header on.
LEMMA BodyOpen ==
  ASSUME NEW h \in Nat, \A j \in h + 1 .. Here : ~ EndsSection(reader, file[j]),
         Here \in Nat
  PROVE  Body(h) = h + 1 .. Here
BY DEF Body

LEMMA BodyGrows ==
  ASSUME NEW l, Reads(l), NEW h \in 1 .. Here, ~ EndsSection(reader, l),
         \A j \in h + 1 .. Here : ~ EndsSection(reader, file[j])
  PROVE  /\ \A j \in h + 1 .. Here + 1 : ~ EndsSection(reader, file'[j])
         /\ Body(h)' = h + 1 .. Here + 1
<1>1. /\ Here \in Nat /\ Here' = Here + 1 /\ reader' = reader
      /\ \A i \in 1 .. Here : file'[i] = file[i]
      /\ file'[Here + 1] = l
  BY ReadFacts DEF Reads
<1>2. ASSUME NEW j \in h + 1 .. Here + 1 PROVE ~ EndsSection(reader, file'[j])
  <2>1. CASE j = Here + 1
    BY <1>1, <2>1
  <2>2. CASE j \in h + 1 .. Here
    BY <1>1, <2>2
  <2> QED
    BY <1>1, <2>1, <2>2
<1>3. Body(h)' = {i \in h + 1 .. Here + 1 :
                    \A k \in h + 1 .. i : ~ EndsSection(reader, file'[k])}
  BY <1>1 DEF Body, EndsSection
<1> QED
  BY <1>1, <1>2, <1>3

\* The parts of what is taken.
LEMMA TakenParts ==
  ASSUME NEW l, NEW n, NEW a, NEW b, NEW c, NEW d,
         sec = [label |-> a, at |-> b, kernel |-> c, args |-> d]
  PROVE  Taken(l, n) = [label  |-> IF l.kind = "label" THEN l.val ELSE a,
                        at     |-> b,
                        kernel |-> IF l.kind = "kernel" THEN n ELSE c,
                        args   |-> IF l.kind = "arg" THEN d \cup {n} ELSE d]
<1> DEFINE S == [label : {a, l.val}, at : {b}, kernel : {c, n}, args : {d, d \cup {n}}]
<1>1. sec \in S /\ sec.label = a /\ sec.at = b /\ sec.kernel = c /\ sec.args = d
  OBVIOUS
<1>2. Taken(l, n) \in S
  BY <1>1 DEF Taken
<1>3. /\ Taken(l, n).label = IF l.kind = "label" THEN l.val ELSE a
      /\ Taken(l, n).at = b
      /\ Taken(l, n).kernel = IF l.kind = "kernel" THEN n ELSE c
      /\ Taken(l, n).args = IF l.kind = "arg" THEN d \cup {n} ELSE d
  BY <1>1 DEF Taken
<1> QED
  BY <1>2, <1>3

\* What the reader takes from a line is what the line says of the entry.
LEMMA EntryGrows ==
  ASSUME NEW l, Reads(l), reader # "kboot", NEW h \in 1 .. Here,
         ~ EndsSection(reader, l), sec = EntryAt(h),
         \A j \in h + 1 .. Here : ~ EndsSection(reader, file[j])
  PROVE  EntryAt(h)' = Taken(l, Here + 1)
<1>1. /\ Here \in Nat /\ Here' = Here + 1 /\ reader' = reader
      /\ \A i \in 1 .. Here : file'[i] = file[i]
      /\ file'[Here + 1] = l /\ file'[h] = file[h]
  BY ReadFacts DEF Reads
<1>2. Body(h) = h + 1 .. Here /\ Body(h)' = h + 1 .. Here + 1
  BY <1>1, BodyOpen, BodyGrows
<1>3. ASSUME NEW kind
      PROVE  /\ Of(h, kind) \subseteq 1 .. Here
             /\ Of(h, kind)' = IF l.kind = kind THEN Of(h, kind) \cup {Here + 1}
                               ELSE Of(h, kind)
  BY <1>1, <1>2 DEF Of
<1>4. ASSUME NEW kind, l.kind = kind
      PROVE  LastOf(Of(h, kind)') = Here + 1
  <2>1. Of(h, kind)' \subseteq 1 .. Here + 1 /\ Here + 1 \in Of(h, kind)'
    BY <1>1, <1>3, <1>4
  <2> QED
    BY <1>1, <2>1, LastOfIs
<1>5. /\ l.kind = "label" => reader = "yaboot"
      /\ l.kind = "kernel" => reader \in {"syslinux", "grub"}
  BY BootConfigAssumption DEF Reads
<1>6. /\ Of(h, "label") \subseteq 1 .. Here
      /\ Of(h, "label")' = IF l.kind = "label" THEN Of(h, "label") \cup {Here + 1}
                           ELSE Of(h, "label")
      /\ Of(h, "kernel")' = IF l.kind = "kernel" THEN Of(h, "kernel") \cup {Here + 1}
                            ELSE Of(h, "kernel")
      /\ Of(h, "arg")' = IF l.kind = "arg" THEN Of(h, "arg") \cup {Here + 1}
                         ELSE Of(h, "arg")
  BY <1>3
<1>7. CASE reader = "yaboot"
  <2>1. sec = [label |-> IF Of(h, "label") = {} THEN None
                         ELSE file[LastOf(Of(h, "label"))].val,
               at |-> h, kernel |-> h, args |-> Of(h, "arg")]
    BY <1>7 DEF EntryAt
  <2>2. EntryAt(h)' = [label |-> IF Of(h, "label")' = {} THEN None
                                 ELSE file'[LastOf(Of(h, "label")')].val,
                       at |-> h, kernel |-> h, args |-> Of(h, "arg")']
    BY <1>1, <1>7 DEF EntryAt
  <2>3. Taken(l, Here + 1) =
          [label |-> IF l.kind = "label" THEN l.val ELSE sec.label,
           at |-> h, kernel |-> h,
           args |-> IF l.kind = "arg" THEN sec.args \cup {Here + 1} ELSE sec.args]
    <3> DEFINE old == IF Of(h, "label") = {} THEN None
                      ELSE file[LastOf(Of(h, "label"))].val
    <3> HIDE DEF old
    <3>1. sec = [label |-> old, at |-> h, kernel |-> h, args |-> Of(h, "arg")]
      BY <2>1 DEF old
    <3>2. Taken(l, Here + 1) =
            [label |-> IF l.kind = "label" THEN l.val ELSE old, at |-> h,
             kernel |-> IF l.kind = "kernel" THEN Here + 1 ELSE h,
             args |-> IF l.kind = "arg" THEN Of(h, "arg") \cup {Here + 1}
                      ELSE Of(h, "arg")]
      BY <3>1, TakenParts
    <3>3. l.kind # "kernel" /\ sec.label = old /\ sec.args = Of(h, "arg")
      BY <1>5, <1>7, <3>1
    <3> QED
      BY <3>2, <3>3
  <2>4. CASE l.kind = "label"
    <3>1. Of(h, "label")' # {} /\ LastOf(Of(h, "label")') = Here + 1
      BY <1>4, <1>6, <2>4
    <3>2. Of(h, "arg")' = Of(h, "arg") /\ sec.args = Of(h, "arg")
      BY <1>6, <2>1, <2>4
    <3>3. EntryAt(h)' = [label |-> l.val, at |-> h, kernel |-> h, args |-> sec.args]
      BY <1>1, <2>2, <3>1, <3>2
    <3> QED
      BY <2>3, <2>4, <3>3
  <2>5. CASE l.kind # "label"
    <3>1. Of(h, "label") # {} => LastOf(Of(h, "label")) \in 1 .. Here
      BY <1>1, <1>6, LastOfIn
    <3>2. Of(h, "label") # {} =>
            file'[LastOf(Of(h, "label"))] = file[LastOf(Of(h, "label"))]
      BY <1>1, <3>1
    <3>3. Of(h, "label")' = Of(h, "label")
      BY <1>6, <2>5
    <3>4. EntryAt(h)' = [label |-> sec.label, at |-> h, kernel |-> h,
                         args |-> Of(h, "arg")']
      BY <2>1, <2>2, <3>2, <3>3
    <3>5. Of(h, "arg")' = IF l.kind = "arg" THEN sec.args \cup {Here + 1} ELSE sec.args
      BY <1>6, <2>1
    <3> QED
      BY <2>3, <2>5, <3>4, <3>5
  <2> QED
    BY <2>4, <2>5
<1>8. CASE reader # "yaboot"
  <2>1. sec = [label |-> file[h].val, at |-> h, kernel |-> LastOf(Of(h, "kernel")),
               args |-> Of(h, "arg")]
    BY <1>8 DEF EntryAt
  <2>2. EntryAt(h)' = [label |-> file'[h].val, at |-> h,
                       kernel |-> LastOf(Of(h, "kernel")'), args |-> Of(h, "arg")']
    BY <1>1, <1>8 DEF EntryAt
  <2>3. Taken(l, Here + 1) =
          [label |-> file[h].val, at |-> h,
           kernel |-> IF l.kind = "kernel" THEN Here + 1 ELSE sec.kernel,
           args |-> IF l.kind = "arg" THEN sec.args \cup {Here + 1} ELSE sec.args]
    <3>1. Taken(l, Here + 1) =
            [label |-> IF l.kind = "label" THEN l.val ELSE file[h].val, at |-> h,
             kernel |-> IF l.kind = "kernel" THEN Here + 1 ELSE LastOf(Of(h, "kernel")),
             args |-> IF l.kind = "arg" THEN Of(h, "arg") \cup {Here + 1}
                      ELSE Of(h, "arg")]
      BY <2>1, TakenParts
    <3>2. /\ l.kind # "label" /\ sec.kernel = LastOf(Of(h, "kernel"))
          /\ sec.args = Of(h, "arg")
      BY <1>5, <1>8, <2>1
    <3> QED
      BY <3>1, <3>2
  <2>4. LastOf(Of(h, "kernel")') = IF l.kind = "kernel" THEN Here + 1 ELSE sec.kernel
    BY <1>4, <1>6, <2>1
  <2> QED
    <3>1. Of(h, "arg")' = IF l.kind = "arg" THEN sec.args \cup {Here + 1} ELSE sec.args
      BY <1>6, <2>1
    <3> QED
      BY <1>1, <2>2, <2>3, <2>4, <3>1
<1> QED
  BY <1>7, <1>8

-----------------------------------------------------------------------------
(* The invariant: the sections that have been closed, as the file says them,  *)
(* are what has been listed, and the open one is what has been taken so far.  *)

Open == IF pc = "section" THEN {sec.at}
        ELSE IF pc = "again" /\ file[Here].kind = "head" THEN {Here} ELSE {}
Closed == Headers \ Open

\* The syslinux files that end with a header: it is added for ever.
Stuck == /\ eof /\ file # <<>> /\ pc \in {"again", "section"}
         /\ file[Here].kind = "head"

PlaceOK ==
  /\ pc = "section" /\ eof => reader = "syslinux" /\ file[Here].kind = "head"
  /\ pc = "again" => reader = "syslinux"
  /\ pc = "section" => reader # "kboot" /\ sec.at \in Headers
  /\ Headers = {} => conf = <<>>

SectionOK ==
  pc = "section" =>
    /\ \A h \in Headers : h <= sec.at
    /\ sec = EntryAt(sec.at)
    /\ \A j \in sec.at + 1 .. Here : ~ EndsSection(reader, file[j])

ClosedOK ==
  \A h \in Closed : \/ eof \/ reader = "kboot"
                    \/ \E j \in h + 1 .. Here : EndsSection(reader, file[j])

ListedOK ==
  /\ \A i \in DOMAIN conf : \E h \in Closed : conf[i] = EntryAt(h)
  /\ \A h \in Closed : EntryAt(h).label # None =>
       \E i \in DOMAIN conf : conf[i] = EntryAt(h)
  /\ \A i, j \in DOMAIN conf : i < j => conf[i].at < conf[j].at

FileOK == SectionOK /\ ClosedOK /\ ListedOK
ReadOK == Separated /\ ~ Stuck /\ pc # "crashed" => FileOK

\* The list stays as long as the closed sections do.
LEMMA ListStays ==
  ASSUME ListedOK, conf' = conf, Closed' = Closed,
         \A h \in Closed : EntryAt(h)' = EntryAt(h)
  PROVE  ListedOK'
<1>1. ASSUME NEW i \in DOMAIN conf PROVE \E h \in Closed : conf[i] = EntryAt(h)'
  BY DEF ListedOK
<1>2. ASSUME NEW h \in Closed, EntryAt(h)'.label # None
      PROVE  \E i \in DOMAIN conf : conf[i] = EntryAt(h)'
  BY <1>2 DEF ListedOK
<1>3. \A i, j \in DOMAIN conf : i < j => conf[i].at < conf[j].at
  BY DEF ListedOK
<1> QED
  BY <1>1, <1>2, <1>3 DEF ListedOK

\* It grows by the entry of a section that is closed after all others.
LEMMA ListGrows ==
  ASSUME TypeOK, ListedOK, NEW s \in Entry, AddConfig(s), NEW h \in Nat,
         Closed' = Closed \cup {h}, EntryAt(h)' = s,
         \A g \in Closed : g < h /\ EntryAt(g)' = EntryAt(g)
  PROVE  ListedOK'
<1>1. CASE s.label = None
  <2>1. conf' = conf
    BY <1>1 DEF AddConfig, result
  <2>2. ASSUME NEW i \in DOMAIN conf PROVE \E g \in Closed' : conf[i] = EntryAt(g)'
    BY DEF ListedOK
  <2>3. ASSUME NEW g \in Closed', EntryAt(g)'.label # None
        PROVE  \E i \in DOMAIN conf : conf[i] = EntryAt(g)'
    <3>1. g \in Closed
      BY <1>1, <2>3
    <3> QED
      BY <2>3, <3>1 DEF ListedOK
  <2>4. \A i, j \in DOMAIN conf : i < j => conf[i].at < conf[j].at
    BY DEF ListedOK
  <2> QED
    BY <2>1, <2>2, <2>3, <2>4 DEF ListedOK
<1>2. CASE s.label # None
  <2>1. conf' = Append(conf, s) /\ conf \in Seq(Entry)
    BY <1>2 DEF AddConfig, TypeOK
  <2>2. /\ Len(conf) \in Nat /\ DOMAIN conf = 1 .. Len(conf)
        /\ DOMAIN conf' = 1 .. Len(conf) + 1
        /\ \A i \in DOMAIN conf : conf'[i] = conf[i]
        /\ conf'[Len(conf) + 1] = s
    BY <2>1
  <2>3. \A i \in DOMAIN conf' : i \in DOMAIN conf \/ i = Len(conf) + 1
    BY <2>2
  <2>4. ASSUME NEW i \in DOMAIN conf PROVE \E g \in Closed : conf[i] = EntryAt(g)'
    BY DEF ListedOK
  <2>5. ASSUME NEW i \in DOMAIN conf' PROVE \E g \in Closed' : conf'[i] = EntryAt(g)'
    BY <2>2, <2>3, <2>4
  <2>6. ASSUME NEW g \in Closed', EntryAt(g)'.label # None
        PROVE  \E i \in DOMAIN conf' : conf'[i] = EntryAt(g)'
    <3>1. CASE g = h
      BY <2>2, <3>1
    <3>2. CASE g \in Closed
      <4>1. PICK i \in DOMAIN conf : conf[i] = EntryAt(g)
        BY <2>6, <3>2 DEF ListedOK
      <4>2. conf'[i] = EntryAt(g)' /\ i \in DOMAIN conf'
        BY <2>2, <3>2, <4>1
      <4> QED
        BY <4>2
    <3> QED
      BY <3>1, <3>2
  <2>7. ASSUME NEW i \in DOMAIN conf PROVE conf[i].at < h
    <3>1. PICK g \in Closed : conf[i] = EntryAt(g)
      BY DEF ListedOK
    <3>2. conf[i].at = g
      BY <3>1, EntryPlace
    <3> QED
      BY <3>2
  <2>8. s.at = h
    <3>1. CASE reader' = "kboot"
      BY <3>1 DEF EntryAt
    <3>2. CASE reader' = "yaboot"
      BY <3>2 DEF EntryAt
    <3>3. CASE reader' \notin {"kboot", "yaboot"}
      BY <3>3 DEF EntryAt
    <3> QED
      BY <3>1, <3>2, <3>3
  <2>9. ASSUME NEW i \in DOMAIN conf', NEW j \in DOMAIN conf', i < j
        PROVE  conf'[i].at < conf'[j].at
    <3>1. i \in DOMAIN conf
      BY <2>2, <2>9
    <3>2. CASE j \in DOMAIN conf
      <4>1. conf[i].at < conf[j].at
        BY <2>9, <3>1, <3>2 DEF ListedOK
      <4> QED
        BY <2>2, <3>1, <3>2, <4>1
    <3>3. CASE j = Len(conf) + 1
      <4>1. conf[i].at < h /\ conf'[i] = conf[i] /\ conf'[j] = s
        BY <2>2, <2>7, <3>1, <3>3
      <4> QED
        BY <2>8, <4>1
    <3> QED
      BY <2>3, <3>2, <3>3
  <2> QED
    BY <2>5, <2>6, <2>9 DEF ListedOK
<1> QED
  BY <1>1, <1>2

\* What is separated was so before its last line.
LEMMA SeparatedBefore ==
  ASSUME NEW l, Reads(l), Separated'
  PROVE  Separated
<1>1. /\ Here \in Nat /\ reader' = reader
      /\ \A i \in 1 .. Here : file'[i] = file[i]
  BY ReadFacts DEF Reads
<1>2. Headers \subseteq 1 .. Here /\ Headers \subseteq Headers'
  BY HeadersGrow
<1>3. CASE reader \in {"kboot", "syslinux"}
  BY <1>3 DEF Separated
<1>4. CASE reader \notin {"kboot", "syslinux"}
  <2> SUFFICES ASSUME NEW g \in Headers, NEW h \in Headers, g < h
               PROVE  \E j \in g + 1 .. h - 1 : file[j].kind = "blank"
    BY DEF Separated
  <2>1. PICK j \in g + 1 .. h - 1 : file'[j].kind = "blank"
    BY <1>1, <1>2, <1>4 DEF Separated
  <2>2. g \in 1 .. Here /\ h \in 1 .. Here
    BY <1>2
  <2>3. j \in 1 .. Here
    BY <1>1, <2>2
  <2> QED
    BY <1>1, <2>1, <2>3
<1> QED
  BY <1>3, <1>4

\* A header that follows an open section without a blank line.
LEMMA NoHeaderInside ==
  ASSUME NEW l, Reads(l), Separated', NEW h \in Headers,
         reader \notin {"kboot", "syslinux"},
         \A j \in h + 1 .. Here : ~ EndsSection(reader, file[j])
  PROVE  l.kind # "head"
<1> SUFFICES ASSUME l.kind = "head" PROVE FALSE
  OBVIOUS
<1>1. /\ Here \in Nat /\ reader' = reader
      /\ \A i \in 1 .. Here : file'[i] = file[i]
  BY ReadFacts DEF Reads
<1>2. h \in 1 .. Here /\ h \in Headers' /\ Here + 1 \in Headers'
  BY HeadersGrow
<1>3. \A a, b \in Headers' : a < b => \E j \in a + 1 .. b - 1 : file'[j].kind = "blank"
  BY <1>1 DEF Separated
<1>4. PICK j \in h + 1 .. Here : file'[j].kind = "blank"
  <2>1. PICK n \in Headers' : n = Here + 1
    BY <1>2
  <2>2. h < n /\ n - 1 = Here
    BY <1>1, <1>2, <2>1
  <2>3. \E j \in h + 1 .. n - 1 : file'[j].kind = "blank"
    BY <1>2, <1>3, <2>2
  <2> QED
    BY <2>2, <2>3
<1>5. file[j].kind = "blank"
  BY <1>1, <1>2, <1>4
<1>6. EndsSection(reader, file[j])
  BY <1>5 DEF EndsSection
<1> QED
  BY <1>4, <1>6

\* What is closed stays so, and says the same, whatever is read.
LEMMA ClosedStays ==
  ASSUME NEW l, Reads(l), ClosedOK
  PROVE  \A h \in Closed : /\ h \in 1 .. Here
                           /\ EntryAt(h)' = EntryAt(h)
                           /\ \/ reader' = "kboot"
                              \/ \E j \in h + 1 .. Here' : EndsSection(reader', file'[j])
<1> SUFFICES ASSUME NEW h \in Closed
             PROVE  /\ h \in 1 .. Here
                    /\ EntryAt(h)' = EntryAt(h)
                    /\ \/ reader' = "kboot"
                       \/ \E j \in h + 1 .. Here' : EndsSection(reader', file'[j])
  OBVIOUS
<1>1. /\ Here \in Nat /\ Here' = Here + 1 /\ reader' = reader /\ ~ eof
      /\ \A i \in 1 .. Here : file'[i] = file[i]
  BY ReadFacts DEF Reads
<1>2. h \in 1 .. Here
  BY HeadersGrow DEF Closed
<1>3. reader = "kboot" \/ \E j \in h + 1 .. Here : EndsSection(reader, file[j])
  BY <1>1 DEF ClosedOK
<1>4. EntryAt(h)' = EntryAt(h)
  BY <1>2, <1>3, ClosedKept
<1>5. ASSUME NEW j \in h + 1 .. Here, EndsSection(reader, file[j])
      PROVE  j \in h + 1 .. Here' /\ EndsSection(reader', file'[j])
  BY <1>1, <1>2, <1>5
<1> QED
  BY <1>1, <1>2, <1>3, <1>4, <1>5

-----------------------------------------------------------------------------
(* The steps, again.                                                         *)

\* Between two sections everything is closed, and a line that is read opens at
\* most itself.
LEMMA OuterRead ==
  ASSUME NEW l, Reads(l), FileOK, pc = "outer", conf' = conf,
         Open' = IF l.kind = "head" THEN {Here + 1} ELSE {}
  PROVE  ClosedOK' /\ ListedOK'
<1>1. Closed = Headers
  BY DEF Closed, Open
<1>2. Headers' = (IF l.kind = "head" THEN Headers \cup {Here + 1} ELSE Headers)
      /\ Headers \subseteq 1 .. Here
  BY HeadersGrow
<1>3. Here \in Nat /\ Here + 1 \notin Headers
  BY <1>2, ReadFacts
<1>4. Closed' = Headers' \ Open'
  BY DEF Closed
<1>5. Closed' = Closed
  BY <1>1, <1>2, <1>3, <1>4
<1>6. \A h \in Closed : /\ EntryAt(h)' = EntryAt(h)
                        /\ \/ reader' = "kboot"
                           \/ \E j \in h + 1 .. Here' : EndsSection(reader', file'[j])
  BY ClosedStays DEF FileOK
<1>7. ListedOK'
  BY <1>5, <1>6, ListStays DEF FileOK
<1>8. ClosedOK'
  BY <1>5, <1>6 DEF ClosedOK
<1> QED
  BY <1>7, <1>8

\* The header of a section that is begun.
LEMMA SectionBegun ==
  ASSUME NEW n \in Nat, Here' = n, sec' = Begin(file'[n], n), reader' = reader,
         reader # "kboot", \A h \in Headers' : h <= n
  PROVE  SectionOK'
<1>1. Body(n)' = {}
  BY DEF Body
<1>2. EntryAt(n)' = sec'
  BY <1>1, EntryBegun
<1>3. sec'.at = n
  BY DEF Begin
<1> QED
  BY <1>2, <1>3 DEF SectionOK

LEMMA PlaceStep ==
  ASSUME TypeOK, PlaceOK, NEW l \in Lines[reader], Reads(l), Fgets(l),
         \/ SetTimeout(l) \/ SetDefault(l) \/ Skip(l) \/ KbootEntry(l)
         \/ Header(l) \/ SyslinuxLine(l) \/ InSection(l) \/ SectionEnds(l)
  PROVE  PlaceOK'
<1>1. /\ reader' = reader /\ ~ eof' /\ Here' = Here + 1 /\ Here \in Nat
      /\ Headers \subseteq Headers' /\ (l.kind = "head" => Here + 1 \in Headers')
  BY ReadFacts, HeadersGrow DEF Fgets, Reads
<1>2. pc' = "again" => reader = "syslinux"
  BY DEF SetTimeout, SetDefault, Skip, KbootEntry, Header, SyslinuxLine, InSection,
         SectionEnds, After
<1>3. CASE SetTimeout(l) \/ SetDefault(l) \/ Skip(l) \/ SyslinuxLine(l)
  <2>1. conf' = conf /\ pc' # "section"
    BY <1>3 DEF SetTimeout, SetDefault, Skip, SyslinuxLine, result
  <2> QED
    BY <1>1, <1>2, <2>1 DEF PlaceOK
<1>4. CASE KbootEntry(l)
  <2>1. l.kind = "head" /\ pc' # "section"
    BY <1>4 DEF KbootEntry
  <2> QED
    BY <1>1, <1>2, <2>1 DEF PlaceOK
<1>5. CASE Header(l)
  <2>1. l.kind = "head" /\ reader # "kboot" /\ sec' = Begin(l, Here + 1)
    BY <1>5 DEF Header
  <2>2. sec'.at = Here + 1
    BY <2>1 DEF Begin
  <2> QED
    BY <1>1, <1>2, <2>1, <2>2 DEF PlaceOK
<1>6. CASE InSection(l)
  <2>1. pc = "section" /\ sec' = Taken(l, Here + 1) /\ conf' = conf
    BY <1>6 DEF InSection, result
  <2>2. sec'.at = sec.at
    BY <1>1, <2>1, TakenType
  <2> QED
    BY <1>1, <1>2, <2>1, <2>2 DEF PlaceOK
<1>7. CASE SectionEnds(l)
  <2>1. pc = "section" /\ pc' # "section"
    BY <1>7 DEF SectionEnds, After
  <2> QED
    BY <1>1, <1>2, <2>1 DEF PlaceOK
<1> QED
  BY <1>3, <1>4, <1>5, <1>6, <1>7

\* An entry of kboot is closed at once.
LEMMA KbootRead ==
  ASSUME TypeOK, TypeOK', NEW l, Reads(l), FileOK, KbootEntry(l)
  PROVE  FileOK'
<1> DEFINE s == [label |-> l.val, at |-> Here + 1, kernel |-> Here + 1, args |-> {}]
<1>1. /\ pc = "outer" /\ reader = "kboot" /\ l.kind = "head"
      /\ AddConfig(s) /\ pc' = pc /\ reader' = reader
  BY DEF KbootEntry, Reads
<1>2. /\ Here \in Nat /\ Here' = Here + 1 /\ file'[Here + 1] = l
      /\ l \in Line /\ l.val \in Labels \cup {None}
  BY <1>1, ReadFacts, LineFacts DEF Reads
<1>3. Headers' = Headers \cup {Here + 1} /\ Headers \subseteq 1 .. Here
  BY <1>1, HeadersGrow
<1>4. Closed = Headers /\ Closed' = Headers'
  BY <1>1 DEF Closed, Open
<1>5. \A h \in Closed : h < Here + 1 /\ EntryAt(h)' = EntryAt(h)
  BY <1>2, ClosedStays DEF FileOK
<1>6. PICK n \in Nat : n = Here + 1
  BY <1>2
<1>7. s \in Entry
  BY <1>2 DEF Entry
<1>8. EntryAt(n)' = s
  BY <1>1, <1>2, <1>6 DEF EntryAt
<1>9. ListedOK'
  <2>1. Closed' = Closed \cup {n}
    BY <1>3, <1>4, <1>6
  <2>2. \A h \in Closed : h < n /\ EntryAt(h)' = EntryAt(h)
    BY <1>5, <1>6
  <2> HIDE DEF s
  <2> QED
    BY <1>1, <1>7, <1>8, <2>1, <2>2, ListGrows DEF FileOK
<1>10. SectionOK' /\ ClosedOK'
  BY <1>1 DEF SectionOK, ClosedOK
<1> QED
  BY <1>9, <1>10 DEF FileOK

\* A line within a section adds to what has been taken.
LEMMA SectionRead ==
  ASSUME TypeOK, TypeOK', PlaceOK, NEW l \in Lines[reader], Reads(l), FileOK,
         Separated', InSection(l)
  PROVE  FileOK'
<1>1. /\ pc = "section" /\ pc' = pc /\ ~ EndsSection(reader, l)
      /\ sec' = Taken(l, Here + 1) /\ conf' = conf /\ reader' = reader
  BY DEF InSection, result, Reads
<1>2. /\ reader # "kboot" /\ sec.at \in Headers
      /\ \A h \in Headers : h <= sec.at
      /\ sec = EntryAt(sec.at)
      /\ \A j \in sec.at + 1 .. Here : ~ EndsSection(reader, file[j])
  BY <1>1 DEF PlaceOK, FileOK, SectionOK
<1>3. Here \in Nat /\ Here' = Here + 1
  BY ReadFacts
<1>4. l.kind # "head"
  <2>1. CASE reader = "syslinux"
    BY <1>1, <2>1 DEF EndsSection, FirstColumn
  <2>2. CASE reader # "syslinux"
    BY <1>2, <2>2, NoHeaderInside
  <2> QED
    BY <2>1, <2>2
<1>5. Headers' = Headers /\ Headers \subseteq 1 .. Here
  BY <1>4, HeadersGrow
<1>6. sec'.at = sec.at
  BY <1>1, <1>3, TakenType
<1>7. Open' = Open
  BY <1>1, <1>6 DEF Open
<1>8. Closed' = Closed
  BY <1>5, <1>7 DEF Closed
<1>9. \A h \in Closed : /\ EntryAt(h)' = EntryAt(h)
                        /\ \/ reader' = "kboot"
                           \/ \E j \in h + 1 .. Here' : EndsSection(reader', file'[j])
  BY ClosedStays DEF FileOK
<1>10. ListedOK' /\ ClosedOK'
  <2>1. ListedOK'
    BY <1>1, <1>8, <1>9, ListStays DEF FileOK
  <2>2. ClosedOK'
    BY <1>8, <1>9 DEF ClosedOK
  <2> QED
    BY <2>1, <2>2
<1>11. PICK n \in 1 .. Here : n = sec.at
  BY <1>2, <1>5
<1>12. EntryAt(n)' = sec' /\ \A j \in n + 1 .. Here' : ~ EndsSection(reader', file'[j])
  <2>1. sec = EntryAt(n) /\ \A j \in n + 1 .. Here : ~ EndsSection(reader, file[j])
    BY <1>2, <1>11
  <2> QED
    BY <1>1, <1>2, <1>3, <2>1, EntryGrows, BodyGrows
<1>13. SectionOK'
  BY <1>2, <1>5, <1>6, <1>11, <1>12 DEF SectionOK
<1> QED
  BY <1>10, <1>13 DEF FileOK

\* The line that ends a section closes it.
LEMMA SectionClosed ==
  ASSUME TypeOK, TypeOK', PlaceOK, NEW l \in Lines[reader], Reads(l), FileOK,
         Separated', SectionEnds(l)
  PROVE  FileOK'
<1>1. /\ pc = "section" /\ pc' = After /\ EndsSection(reader, l)
      /\ AddConfig(sec) /\ reader' = reader /\ sec \in Entry
  BY DEF SectionEnds, Reads, TypeOK
<1>2. /\ reader # "kboot" /\ sec.at \in Headers
      /\ \A h \in Headers : h <= sec.at
      /\ sec = EntryAt(sec.at)
      /\ \A j \in sec.at + 1 .. Here : ~ EndsSection(reader, file[j])
  BY <1>1 DEF PlaceOK, FileOK, SectionOK
<1>3. /\ Here \in Nat /\ Here' = Here + 1 /\ file'[Here + 1] = l
      /\ \A i \in 1 .. Here : file'[i] = file[i]
  BY ReadFacts
<1>4. Headers' = (IF l.kind = "head" THEN Headers \cup {Here + 1} ELSE Headers)
      /\ Headers \subseteq 1 .. Here
  BY HeadersGrow
<1>5. PICK n \in 1 .. Here : n = sec.at
  BY <1>2, <1>4
<1>6. Closed = Headers \ {n}
  BY <1>1, <1>5 DEF Closed, Open
<1>7. Closed' = Closed \cup {n}
  <2>1. Closed' = Headers' \ Open' /\ pc' # "section"
    BY <1>1 DEF Closed, After
  <2>2. CASE l.kind = "head"
    <3>1. reader = "syslinux"
      BY <1>1, <1>2, <2>2, NoHeaderInside
    <3>2. Open' = {Here + 1}
      BY <1>1, <1>3, <2>2, <3>1 DEF Open, After
    <3> QED
      BY <1>2, <1>3, <1>4, <1>5, <1>6, <2>1, <2>2, <3>2
  <2>3. CASE l.kind # "head"
    <3>1. Open' = {}
      BY <1>3, <2>1, <2>3 DEF Open
    <3> QED
      BY <1>2, <1>4, <1>5, <1>6, <2>1, <2>3, <3>1
  <2> QED
    BY <2>2, <2>3
<1>8. \A h \in Closed : /\ EntryAt(h)' = EntryAt(h)
                        /\ \/ reader' = "kboot"
                           \/ \E j \in h + 1 .. Here' : EndsSection(reader', file'[j])
  BY ClosedStays DEF FileOK
<1>9. EntryAt(n)' = sec
  <2>1. \A j \in n + 1 .. Here : ~ EndsSection(reader, file[j])
    BY <1>2, <1>5
  <2>2. Body(n) = n + 1 .. Here
    BY <1>3, <2>1, BodyOpen
  <2>3. Body(n)' = {i \in n + 1 .. Here + 1 :
                      \A k \in n + 1 .. i : ~ EndsSection(reader, file'[k])}
    BY <1>1, <1>3 DEF Body, EndsSection
  <2>4. Here + 1 \notin Body(n)'
    BY <1>1, <1>3, <2>3
  <2>5. ASSUME NEW i \in n + 1 .. Here PROVE i \in Body(n)'
    <3>1. \A k \in n + 1 .. i : file'[k] = file[k] /\ k \in n + 1 .. Here
      BY <1>3, <1>5
    <3> QED
      BY <1>3, <2>1, <2>3, <3>1
  <2>6. Body(n)' = Body(n)
    BY <1>3, <2>2, <2>3, <2>4, <2>5
  <2>7. EntryAt(n)' = EntryAt(n)
    BY <1>1, <1>3, <2>6, EntryKept
  <2> QED
    BY <1>2, <1>5, <2>7
<1>10. \A g \in Closed : g < n /\ EntryAt(g)' = EntryAt(g)
  BY <1>2, <1>4, <1>5, <1>6, <1>8
<1>11. ListedOK'
  BY <1>1, <1>5, <1>7, <1>9, <1>10, ListGrows DEF FileOK
<1>12. ClosedOK'
  <2>1. Here + 1 \in n + 1 .. Here' /\ EndsSection(reader', file'[Here + 1])
    BY <1>1, <1>3, <1>5
  <2> QED
    BY <1>7, <1>8, <2>1 DEF ClosedOK
<1>13. SectionOK'
  BY <1>1 DEF SectionOK, After
<1> QED
  BY <1>11, <1>12, <1>13 DEF FileOK

\* So a line that is read leaves the invariant.
LEMMA ReadStep ==
  ASSUME TypeOK, TypeOK', PlaceOK, ReadOK, NEW l \in Lines[reader],
         \/ SetTimeout(l) \/ SetDefault(l) \/ Skip(l) \/ KbootEntry(l)
         \/ Header(l) \/ SyslinuxLine(l) \/ InSection(l) \/ SectionEnds(l)
  PROVE  PlaceOK' /\ ReadOK'
<1>1. Fgets(l) /\ Reads(l)
  <2>1. Fgets(l)
    BY DEF SetTimeout, SetDefault, Skip, KbootEntry, Header, SyslinuxLine, InSection,
           SectionEnds
  <2> QED
    BY <2>1, FgetsReads
<1>2. PlaceOK'
  BY <1>1, PlaceStep
<1> SUFFICES ASSUME Separated' PROVE FileOK'
  BY <1>2 DEF ReadOK
<1>3. FileOK
  <2>1. ~ Stuck /\ pc # "crashed"
    BY <1>1 DEF Reads, Stuck, SetTimeout, SetDefault, Skip, KbootEntry, Header,
                SyslinuxLine, InSection, SectionEnds
  <2>2. Separated
    BY <1>1, SeparatedBefore
  <2> QED
    BY <2>1, <2>2 DEF ReadOK
<1>4. /\ Here \in Nat /\ Here' = Here + 1 /\ file'[Here'] = l /\ reader' = reader
      /\ Here + 1 \in Nat
  BY <1>1, ReadFacts DEF Reads
<1>5. CASE SetTimeout(l) \/ SetDefault(l) \/ Skip(l) \/ SyslinuxLine(l)
  <2>1. /\ conf' = conf /\ pc = "outer" /\ pc' # "section"
        /\ Open' = IF l.kind = "head" THEN {Here + 1} ELSE {}
    BY <1>4, <1>5 DEF SetTimeout, SetDefault, Skip, SyslinuxLine, result, Open
  <2> QED
    BY <1>1, <1>3, <2>1, OuterRead DEF FileOK, SectionOK
<1>6. CASE Header(l)
  <2>1. /\ conf' = conf /\ pc = "outer" /\ pc' = "section" /\ l.kind = "head"
        /\ reader # "kboot" /\ sec' = Begin(l, Here + 1)
    BY <1>6 DEF Header, result
  <2>2. sec'.at = Here + 1
    BY <2>1 DEF Begin
  <2>3. Open' = IF l.kind = "head" THEN {Here + 1} ELSE {}
    BY <2>1, <2>2 DEF Open
  <2>4. ClosedOK' /\ ListedOK'
    BY <1>1, <1>3, <2>1, <2>3, OuterRead
  <2>5. \A h \in Headers' : h <= Here + 1
    BY <1>1, <1>4, HeadersGrow
  <2>6. SectionOK'
    BY <1>4, <2>1, <2>5, SectionBegun
  <2> QED
    BY <2>4, <2>6 DEF FileOK
<1>7. CASE KbootEntry(l)
  BY <1>1, <1>3, <1>7, KbootRead
<1>8. CASE InSection(l)
  BY <1>1, <1>3, <1>8, SectionRead
<1>9. CASE SectionEnds(l)
  BY <1>1, <1>3, <1>9, SectionClosed
<1> QED
  BY <1>5, <1>6, <1>7, <1>8, <1>9

\* What has crashed has nothing more to read.
LEMMA CrashPlace ==
  ASSUME TypeOK, PlaceOK, ReadOK, NEW l \in Lines[reader], Crash(l)
  PROVE  PlaceOK' /\ ReadOK'
<1>1. Reads(l) /\ pc' = "crashed" /\ conf' = conf
  BY CrashParts DEF result
<1>2. Headers \subseteq Headers'
  BY <1>1, HeadersGrow
<1> QED
  BY <1>1, <1>2 DEF PlaceOK, ReadOK

\* A step that reads nothing leaves what the file says.
LEMMA SameFile ==
  ASSUME file' = file, reader' = reader
  PROVE  /\ Here' = Here /\ Headers' = Headers /\ (Separated' <=> Separated)
         /\ \A h : EntryAt(h)' = EntryAt(h) /\ Body(h)' = Body(h)
<1>1. Here' = Here /\ Headers' = Headers /\ (Separated' <=> Separated)
  BY DEF Here, Headers, Separated
<1>2. ASSUME NEW h PROVE EntryAt(h)' = EntryAt(h) /\ Body(h)' = Body(h)
  <2>1. Body(h)' = Body(h)
    BY <1>1 DEF Body, EndsSection
  <2>2. ASSUME NEW kind PROVE Of(h, kind)' = Of(h, kind)
    BY <2>1 DEF Of
  <2>3. /\ Of(h, "label")' = Of(h, "label") /\ Of(h, "kernel")' = Of(h, "kernel")
        /\ Of(h, "arg")' = Of(h, "arg")
    BY <2>2
  <2> QED
    BY <2>1, <2>3 DEF EntryAt
<1> QED
  BY <1>1, <1>2

\* A section that the file ends in is closed with it.
LEMMA EndCloses ==
  ASSUME TypeOK, PlaceOK, FileOK, FileEndsInSection, ~ Stuck'
  PROVE  FileOK'
<1>1. /\ pc = "section" /\ pc' = After /\ AddConfig(sec) /\ eof' = TRUE
      /\ file' = file /\ reader' = reader /\ sec \in Entry
  BY DEF FileEndsInSection, FgetsNull, TypeOK
<1>2. /\ sec.at \in Headers /\ sec = EntryAt(sec.at)
      /\ \A h \in Headers : h <= sec.at
  BY <1>1 DEF PlaceOK, FileOK, SectionOK
<1>3. Here' = Here /\ Headers' = Headers /\ \A h : EntryAt(h)' = EntryAt(h)
  BY <1>1, SameFile
<1>4. file # <<>>
  BY <1>1 DEF TypeOK
<1>5. Open' = {}
  BY <1>1, <1>3, <1>4 DEF Open, Stuck, After
<1>6. PICK n \in Nat : n = sec.at
  BY <1>1 DEF Entry
<1>7. Closed = Headers \ {n} /\ Closed' = Headers
  BY <1>1, <1>3, <1>5, <1>6 DEF Closed, Open
<1>8. Closed' = Closed \cup {n}
  BY <1>2, <1>6, <1>7
<1>9. Headers \subseteq Nat
  BY DEF Headers, TypeOK
<1>10. \A g \in Closed : g < n /\ EntryAt(g)' = EntryAt(g)
  BY <1>2, <1>3, <1>6, <1>7, <1>9
<1>11. EntryAt(n)' = sec
  BY <1>2, <1>3, <1>6
<1>12. ListedOK'
  BY <1>1, <1>8, <1>10, <1>11, ListGrows DEF FileOK
<1>13. SectionOK' /\ ClosedOK'
  BY <1>1 DEF SectionOK, ClosedOK, After
<1> QED
  BY <1>12, <1>13 DEF FileOK

\* The steps that read nothing leave the invariant.
LEMMA RestStep ==
  ASSUME TypeOK, PlaceOK, ReadOK, EndOfFile \/ Leave \/ AgainHeader \/ FileEndsInSection
  PROVE  PlaceOK' /\ ReadOK'
<1>1. file' = file /\ reader' = reader
  BY DEF EndOfFile, Leave, AgainHeader, FileEndsInSection, FgetsNull, source
<1>2. /\ Here' = Here /\ Headers' = Headers /\ (Separated' <=> Separated)
      /\ \A h : EntryAt(h)' = EntryAt(h) /\ Body(h)' = Body(h)
  BY <1>1, SameFile
<1>3. CASE EndOfFile
  <2>1. pc = "outer" /\ pc' = "done" /\ eof' = TRUE /\ conf' = conf
    BY <1>3 DEF EndOfFile, FgetsNull, result
  <2>2. PlaceOK'
    BY <1>2, <2>1 DEF PlaceOK
  <2>3. Closed' = Closed /\ ~ Stuck /\ pc # "crashed"
    BY <1>2, <2>1 DEF Closed, Open, Stuck
  <2>4. FileOK => FileOK'
    <3> SUFFICES ASSUME FileOK PROVE FileOK'
      OBVIOUS
    <3>1. ListedOK'
      BY <1>2, <2>1, <2>3, ListStays DEF FileOK
    <3> QED
      BY <2>1, <3>1 DEF FileOK, SectionOK, ClosedOK
  <2> QED
    BY <1>2, <2>2, <2>3, <2>4 DEF ReadOK
<1>4. CASE Leave
  <2>1. /\ pc = "again" /\ pc' = "outer" /\ file[Here].kind # "head"
        /\ eof' = eof /\ conf' = conf
    BY <1>4 DEF Leave, source, result
  <2>2. PlaceOK'
    BY <1>2, <2>1 DEF PlaceOK
  <2>3. Closed' = Closed /\ ~ Stuck /\ pc # "crashed"
    BY <1>2, <2>1 DEF Closed, Open, Stuck
  <2>4. FileOK => FileOK'
    <3> SUFFICES ASSUME FileOK PROVE FileOK'
      OBVIOUS
    <3>1. ListedOK'
      BY <1>2, <2>1, <2>3, ListStays DEF FileOK
    <3>2. ClosedOK'
      BY <1>1, <1>2, <2>1, <2>3 DEF FileOK, ClosedOK
    <3> QED
      BY <2>1, <3>1, <3>2 DEF FileOK, SectionOK
  <2> QED
    BY <1>2, <2>2, <2>3, <2>4 DEF ReadOK
<1>5. CASE AgainHeader
  <2>1. /\ pc = "again" /\ pc' = "section" /\ file[Here].kind = "head"
        /\ sec' = Begin(file[Here], Here) /\ eof' = eof /\ conf' = conf
        /\ reader = "syslinux" /\ file # <<>>
    BY <1>5 DEF AgainHeader, source, result, PlaceOK, TypeOK
  <2>2. sec'.at = Here /\ Here \in Headers /\ Here \in Nat /\ Headers \subseteq 1 .. Here
    BY <2>1 DEF Begin, Headers, Here, TypeOK
  <2>3. PlaceOK'
    BY <1>1, <1>2, <2>1, <2>2 DEF PlaceOK
  <2>4. Open' = Open
    BY <2>1, <2>2 DEF Open
  <2>5. Closed' = Closed
    BY <1>2, <2>4 DEF Closed
  <2>6. Stuck => Stuck'
    BY <1>1, <1>2, <2>1 DEF Stuck
  <2>7. FileOK => FileOK'
    <3> SUFFICES ASSUME FileOK PROVE FileOK'
      OBVIOUS
    <3>1. ListedOK'
      BY <1>2, <2>1, <2>5, ListStays DEF FileOK
    <3>2. ClosedOK'
      BY <1>1, <1>2, <2>1, <2>5 DEF FileOK, ClosedOK
    <3>3. \A h \in Headers' : h <= Here
      <4> SUFFICES ASSUME NEW h \in Headers' PROVE h <= Here
        OBVIOUS
      <4>1. h \in 1 .. Here
        BY <1>2, <2>2
      <4> QED
        BY <2>2, <4>1
    <3>4. Here' = Here /\ file'[Here] = file[Here] /\ reader # "kboot"
      BY <1>1, <1>2, <2>1
    <3>5. SectionOK'
      BY <1>1, <2>1, <2>2, <3>3, <3>4, SectionBegun
    <3> QED
      BY <3>1, <3>2, <3>5 DEF FileOK
  <2> QED
    BY <1>2, <2>1, <2>3, <2>6, <2>7 DEF ReadOK
<1>6. CASE FileEndsInSection
  <2>1. pc = "section" /\ pc' = After /\ eof' = TRUE
    BY <1>6 DEF FileEndsInSection, FgetsNull
  <2>2. PlaceOK'
    BY <1>1, <1>2, <2>1 DEF PlaceOK, After
  <2>3. Stuck => Stuck'
    <3> SUFFICES ASSUME Stuck PROVE Stuck'
      OBVIOUS
    <3>1. eof /\ file # <<>> /\ file[Here].kind = "head"
      BY DEF Stuck
    <3>2. pc' = "again"
      BY <2>1, <3>1 DEF PlaceOK, After
    <3> QED
      BY <1>1, <1>2, <2>1, <3>1, <3>2 DEF Stuck
  <2> QED
    BY <1>2, <1>6, <2>1, <2>2, <2>3, EndCloses DEF ReadOK
<1> QED
  BY <1>3, <1>4, <1>5, <1>6

-----------------------------------------------------------------------------
(* Default and timeout.                                                      *)

Value(kind, none) == IF Setting(kind) = 0 THEN none ELSE file[Setting(kind)].val

Named ==
  {i \in DOMAIN conf : IF reader = "grub" THEN i = file[Setting("default")].val + 1
                       ELSE conf[i].label = file[Setting("default")].val}

\* Nothing is noted before the entry that the default names has been listed, and
\* then it is the first of them.
NotedOK ==
  \/ auto = None /\ (Setting("default") = 0 \/ Named = {})
  \/ /\ Setting("default") # 0
     /\ \E i \in Named : /\ \A j \in Named : i <= j
                         /\ auto = [entry |-> conf[i], timeout |-> timeout]

SettingsOK ==
  SettingsFirst =>
    /\ timeout = Value("timeout", 0)
    /\ def = IF reader = "grub" THEN Value("default", -1) - Len(conf)
             ELSE Value("default", None)
    /\ NotedOK

\* A setting stays until the next one.
Stays(kind) ==
  /\ Setting(kind)' = Setting(kind)
  /\ Setting(kind) # 0 => file'[Setting(kind)].val = file[Setting(kind)].val

LEMMA SettingRange ==
  ASSUME TypeOK, NEW kind
  PROVE  \/ Setting(kind) = 0
         \/ /\ Setting(kind) \in 1 .. Here /\ file[Setting(kind)] \in Lines[reader]
            /\ file[Setting(kind)].kind = kind
<1>1. Here \in Nat /\ DOMAIN file = 1 .. Here /\ file \in Seq(Lines[reader])
  BY DEF TypeOK, Here
<1>2. PICK S : S = {i \in DOMAIN file : file[i].kind = kind}
  OBVIOUS
<1>3. Setting(kind) = LastOf(S)
  BY <1>2 DEF Setting
<1>4. CASE S = {}
  BY <1>3, <1>4 DEF LastOf
<1>5. CASE S # {}
  <2>1. S \subseteq 1 .. Here
    BY <1>1, <1>2
  <2>2. LastOf(S) \in S
    BY <1>1, <1>5, <2>1, LastOfIn
  <2> QED
    BY <1>1, <1>2, <1>3, <2>2
<1> QED
  BY <1>4, <1>5

LEMMA SettingStays ==
  ASSUME TypeOK, NEW l, Reads(l), NEW kind, l.kind # kind
  PROVE  Stays(kind)
<1>1. /\ Here \in Nat /\ DOMAIN file = 1 .. Here /\ DOMAIN file' = 1 .. Here + 1
      /\ \A i \in 1 .. Here : file'[i] = file[i]
      /\ file'[Here + 1] = l
  BY ReadFacts
<1>2. {i \in DOMAIN file' : file'[i].kind = kind} = {i \in DOMAIN file : file[i].kind = kind}
  BY <1>1
<1>3. Setting(kind)' = Setting(kind)
  BY <1>2 DEF Setting
<1> QED
  BY <1>1, <1>3, SettingRange DEF Stays

LEMMA SettingRead ==
  ASSUME TypeOK, NEW l, Reads(l), NEW kind, l.kind = kind
  PROVE  Setting(kind)' = Here + 1 /\ Setting(kind)' # 0
         /\ file'[Setting(kind)'].val = l.val
<1>1. /\ Here \in Nat /\ DOMAIN file' = 1 .. Here + 1 /\ file'[Here + 1] = l
  BY ReadFacts
<1>2. PICK S : S = {i \in DOMAIN file' : file'[i].kind = kind}
  OBVIOUS
<1>3. S \subseteq Int /\ Here + 1 \in S /\ \A j \in S : j <= Here + 1
  BY <1>1, <1>2
<1>4. LastOf(S) = Here + 1
  BY <1>3, LastOfIs
<1>5. Setting(kind)' = LastOf(S)
  BY <1>2 DEF Setting
<1> QED
  BY <1>1, <1>4, <1>5

\* What is the default depends on the settings and the list.
LEMMA NamedStays ==
  ASSUME NotedOK, Stays("default"), conf' = conf, auto' = auto, timeout' = timeout,
         reader' = reader
  PROVE  NotedOK'
<1>1. Setting("default") # 0 => Named' = Named
  BY DEF Named, Stays
<1>2. CASE Setting("default") = 0
  BY <1>2 DEF NotedOK, Stays
<1>3. CASE Setting("default") # 0
  <2>1. Setting("default")' # 0
    BY <1>3 DEF Stays
  <2>2. CASE auto = None /\ Named = {}
    BY <1>1, <1>3, <2>2 DEF NotedOK
  <2>3. CASE \E i \in Named : /\ \A j \in Named : i <= j
                              /\ auto = [entry |-> conf[i], timeout |-> timeout]
    <3>1. PICK i \in Named : /\ \A j \in Named : i <= j
                             /\ auto = [entry |-> conf[i], timeout |-> timeout]
      BY <2>3
    <3>2. /\ i \in Named' /\ \A j \in Named' : i <= j
          /\ auto' = [entry |-> conf'[i], timeout |-> timeout']
      BY <1>1, <1>3, <3>1
    <3> QED
      BY <2>1, <3>2 DEF NotedOK
  <2> QED
    BY <1>3, <2>2, <2>3 DEF NotedOK
<1> QED
  BY <1>2, <1>3

LEMMA SettingsStay ==
  ASSUME SettingsOK, SettingsFirst, reader' = reader,
         UNCHANGED result, Stays("default"), Stays("timeout")
  PROVE  SettingsOK'
<1>1. conf' = conf /\ auto' = auto /\ timeout' = timeout /\ def' = def
  BY DEF result
<1>2. /\ timeout = Value("timeout", 0) /\ NotedOK
      /\ def = IF reader = "grub" THEN Value("default", -1) - Len(conf)
               ELSE Value("default", None)
  BY DEF SettingsOK
<1>3. /\ Value("timeout", 0)' = Value("timeout", 0)
      /\ Value("default", -1)' = Value("default", -1)
      /\ Value("default", None)' = Value("default", None)
  BY DEF Stays, Value
<1>4. NotedOK'
  BY <1>1, <1>2, NamedStays
<1> QED
  BY <1>1, <1>2, <1>3, <1>4 DEF SettingsOK

\* A new entry is noted if it is the first that the default names.
LEMMA SettingsAdd ==
  ASSUME TypeOK, SettingsOK, SettingsFirst, reader' = reader, NEW s \in Entry,
         AddConfig(s), Stays("default"), Stays("timeout")
  PROVE  SettingsOK'
<1>1. /\ timeout = Value("timeout", 0) /\ NotedOK
      /\ def = IF reader = "grub" THEN Value("default", -1) - Len(conf)
               ELSE Value("default", None)
  BY DEF SettingsOK
<1>2. /\ Value("timeout", 0)' = Value("timeout", 0)
      /\ Value("default", -1)' = Value("default", -1)
      /\ Value("default", None)' = Value("default", None)
  BY DEF Stays, Value
<1>3. CASE s.label = None
  <2>1. UNCHANGED result
    BY <1>3 DEF AddConfig
  <2> QED
    BY <2>1, SettingsStay
<1>4. CASE s.label # None
  <2>1. /\ conf' = Append(conf, s)
        /\ auto' = IF IsDefault(s) THEN Noted(s) ELSE auto
        /\ def'  = IF reader = "grub" THEN def - 1 ELSE def
        /\ timeout' = timeout
    BY <1>4 DEF AddConfig
  <2>2. conf \in Seq(Entry)
    BY DEF TypeOK
  <2>3. /\ Len(conf) \in Nat /\ DOMAIN conf = 1 .. Len(conf)
        /\ DOMAIN conf' = 1 .. Len(conf) + 1 /\ Len(conf') = Len(conf) + 1
        /\ \A i \in DOMAIN conf : conf'[i] = conf[i]
        /\ conf'[Len(conf) + 1] = s
    BY <2>1, <2>2
  <2>4. reader = "grub" => Value("default", -1) \in Int
    <3>1. Setting("default") # 0 /\ reader = "grub" => file[Setting("default")].val \in Nat
      BY SettingRange, LineFacts DEF TypeOK
    <3> QED
      BY <3>1 DEF Value
  <2>5. def' = IF reader = "grub" THEN Value("default", -1)' - Len(conf')
               ELSE Value("default", None)'
    BY <1>1, <1>2, <2>1, <2>3, <2>4
  <2>6. IsDefault(s) => Setting("default") # 0
    <3>1. CASE reader = "grub"
      BY <1>1, <2>3, <3>1 DEF IsDefault, Value
    <3>2. CASE reader # "grub"
      BY <1>1, <1>4, <3>2 DEF IsDefault, Value
    <3> QED
      BY <3>1, <3>2
  <2>7. Setting("default") # 0 =>
          Named' = IF IsDefault(s) THEN Named \cup {Len(conf) + 1} ELSE Named
    <3> SUFFICES ASSUME Setting("default") # 0
                 PROVE  Named' = IF IsDefault(s) THEN Named \cup {Len(conf) + 1} ELSE Named
      OBVIOUS
    <3> DEFINE v == file[Setting("default")].val
    <3>1. file'[Setting("default")'].val = v
      BY DEF Stays
    <3>2. \A i \in DOMAIN conf' : i \in DOMAIN conf \/ i = Len(conf) + 1
      BY <2>3
    <3>3. CASE reader = "grub"
      <4>1. v \in Nat
        BY <3>3, SettingRange, LineFacts DEF TypeOK
      <4>2. IsDefault(s) <=> Len(conf) + 1 = v + 1
        BY <1>1, <2>3, <3>3, <4>1 DEF IsDefault, Value
      <4>3. Named = {i \in DOMAIN conf : i = v + 1}
        BY <3>3 DEF Named
      <4>4. Named' = {i \in DOMAIN conf' : i = v + 1}
        BY <3>1, <3>3 DEF Named
      <4> QED
        BY <2>3, <3>2, <4>1, <4>2, <4>3, <4>4
    <3>4. CASE reader # "grub"
      <4>1. IsDefault(s) <=> s.label = v
        BY <1>1, <3>4 DEF IsDefault, Value
      <4>2. Named = {i \in DOMAIN conf : conf[i].label = v}
        BY <3>4 DEF Named
      <4>3. Named' = {i \in DOMAIN conf' : conf'[i].label = v}
        BY <3>1, <3>4 DEF Named
      <4>4. CASE IsDefault(s)
        BY <2>3, <3>2, <4>1, <4>2, <4>3, <4>4
      <4>5. CASE ~ IsDefault(s)
        BY <2>3, <3>2, <4>1, <4>2, <4>3, <4>5
      <4> QED
        BY <4>4, <4>5
    <3> QED
      BY <3>3, <3>4
  <2>8. \A i \in Named : i \in DOMAIN conf
    BY DEF Named
  <2>9. NotedOK'
    <3>1. CASE Setting("default") = 0
      <4>1. auto' = auto /\ auto = None /\ Setting("default")' = 0
        BY <1>1, <2>1, <2>6, <3>1 DEF NotedOK, Stays
      <4> QED
        BY <4>1 DEF NotedOK
    <3>2. CASE Setting("default") # 0 /\ auto = None /\ Named = {}
      <4>1. Setting("default")' # 0
        BY <3>2 DEF Stays
      <4>2. CASE IsDefault(s)
        <5>1. Named' = {Len(conf) + 1}
          BY <2>7, <3>2, <4>2
        <5>2. auto' = [entry |-> conf'[Len(conf) + 1], timeout |-> timeout']
          BY <2>1, <2>3, <3>2, <4>2 DEF Noted
        <5>3. PICK n \in Nat : n = Len(conf) + 1
          BY <2>3
        <5>4. /\ n \in Named' /\ \A j \in Named' : n <= j
              /\ auto' = [entry |-> conf'[n], timeout |-> timeout']
          BY <5>1, <5>2, <5>3
        <5> QED
          BY <4>1, <5>4 DEF NotedOK
      <4>3. CASE ~ IsDefault(s)
        <5>1. Named' = {} /\ auto' = None
          BY <2>1, <2>7, <3>2, <4>3
        <5> QED
          BY <5>1 DEF NotedOK
      <4> QED
        BY <4>2, <4>3
    <3>3. CASE /\ Setting("default") # 0
               /\ \E i \in Named : /\ \A j \in Named : i <= j
                                   /\ auto = [entry |-> conf[i], timeout |-> timeout]
      <4>1. PICK i \in Named : /\ \A j \in Named : i <= j
                               /\ auto = [entry |-> conf[i], timeout |-> timeout]
        BY <3>3
      <4>2. auto # None
        <5>1. conf[i] \in Entry /\ timeout \in Timeouts \cup {0}
          BY <2>2, <2>8 DEF TypeOK
        <5>2. auto \in Default
          BY <4>1, <5>1 DEF Default
        <5> QED
          BY <5>2, BootConfigAssumption
      <4>3. auto' = auto
        BY <2>1, <4>2 DEF Noted
      <4>4. i \in 1 .. Len(conf) /\ i <= Len(conf) + 1
        BY <2>3, <2>8
      <4>5. i \in Named' /\ \A j \in Named' : i <= j
        BY <2>7, <3>3, <4>1, <4>4
      <4>6. auto' = [entry |-> conf'[i], timeout |-> timeout']
        BY <2>1, <2>3, <4>1, <4>3, <4>4
      <4>7. Setting("default")' # 0
        BY <3>3 DEF Stays
      <4> QED
        BY <4>5, <4>6, <4>7 DEF NotedOK
    <3> QED
      BY <1>1, <3>1, <3>2, <3>3 DEF NotedOK
  <2> QED
    BY <1>1, <1>2, <2>1, <2>5, <2>9 DEF SettingsOK
<1> QED
  BY <1>3, <1>4

\* Settings that come first did so before the last line, and before any header.
LEMMA FirstBefore ==
  ASSUME NEW l, Reads(l), SettingsFirst'
  PROVE  /\ SettingsFirst
         /\ l.kind \in {"timeout", "default"} => Headers = {}
<1>1. /\ Here \in Nat /\ DOMAIN file = 1 .. Here /\ DOMAIN file' = 1 .. Here + 1
      /\ \A i \in 1 .. Here : file'[i] = file[i]
      /\ file'[Here + 1] = l
  BY ReadFacts
<1>2. Headers \subseteq 1 .. Here /\ Headers \subseteq Headers'
  BY HeadersGrow
<1>3. \A i \in DOMAIN file', h \in Headers' :
        file'[i].kind \in {"timeout", "default"} => i < h
  BY DEF SettingsFirst
<1>4. SettingsFirst
  <2> SUFFICES ASSUME NEW i \in DOMAIN file, NEW h \in Headers,
                      file[i].kind \in {"timeout", "default"}
               PROVE  i < h
    BY DEF SettingsFirst
  <2>1. i \in DOMAIN file' /\ file'[i] = file[i] /\ h \in Headers'
    BY <1>1, <1>2
  <2> QED
    BY <1>3, <2>1
<1>5. ASSUME l.kind \in {"timeout", "default"}, NEW h \in Headers PROVE FALSE
  <2>1. Here + 1 \in DOMAIN file' /\ h \in Headers'
    BY <1>1, <1>2
  <2>2. Here + 1 < h
    BY <1>1, <1>3, <1>5, <2>1
  <2> QED
    BY <1>1, <1>2, <2>2
<1> QED
  BY <1>4, <1>5

\* Before any header nothing is listed, and a setting is only kept.
LEMMA SettingStep ==
  ASSUME TypeOK, PlaceOK, SettingsOK, NEW l \in Lines[reader], Reads(l),
         SetTimeout(l) \/ SetDefault(l)
  PROVE  SettingsOK'
<1> SUFFICES ASSUME SettingsFirst' PROVE SettingsOK'
  BY DEF SettingsOK
<1>1. SettingsFirst /\ conf = <<>> /\ conf' = conf /\ auto' = auto /\ reader' = reader
  BY FirstBefore DEF PlaceOK, SetTimeout, SetDefault, Reads
<1>2. DOMAIN conf = {} /\ Len(conf) = 0
  BY <1>1
<1>3. Named = {} /\ Named' = {}
  BY <1>1, <1>2 DEF Named
<1>4. auto' = None /\ NotedOK'
  BY <1>1, <1>3 DEF SettingsOK, NotedOK
<1>5. /\ timeout = Value("timeout", 0)
      /\ def = IF reader = "grub" THEN Value("default", -1) - Len(conf)
               ELSE Value("default", None)
  BY <1>1 DEF SettingsOK
<1>6. CASE SetTimeout(l)
  <2>1. timeout' = l.val /\ def' = def /\ l.kind = "timeout"
    BY <1>6 DEF SetTimeout
  <2>2. Stays("default")
    BY <2>1, SettingStays
  <2>3. Value("timeout", 0)' = l.val
    BY <2>1, SettingRead DEF Value
  <2>4. /\ Value("default", -1)' = Value("default", -1)
        /\ Value("default", None)' = Value("default", None)
    BY <2>2 DEF Stays, Value
  <2> QED
    BY <1>1, <1>4, <1>5, <2>1, <2>3, <2>4 DEF SettingsOK
<1>7. CASE SetDefault(l)
  <2>1. def' = l.val /\ timeout' = timeout /\ l.kind = "default"
    BY <1>7 DEF SetDefault
  <2>2. Stays("timeout")
    BY <2>1, SettingStays
  <2>3. Value("default", -1)' = l.val /\ Value("default", None)' = l.val
    BY <2>1, SettingRead DEF Value
  <2>4. Value("timeout", 0)' = Value("timeout", 0)
    BY <2>2 DEF Stays, Value
  <2>5. reader = "grub" => l.val \in Nat
    BY <2>1, LineFacts DEF Reads
  <2> QED
    BY <1>1, <1>2, <1>4, <1>5, <2>1, <2>3, <2>4, <2>5 DEF SettingsOK
<1> QED
  BY <1>6, <1>7

\* Any other line leaves the settings.
LEMMA SettingsRead ==
  ASSUME TypeOK, PlaceOK, SettingsOK, NEW l \in Lines[reader],
         \/ SetTimeout(l) \/ SetDefault(l) \/ Skip(l) \/ KbootEntry(l)
         \/ Header(l) \/ SyslinuxLine(l) \/ InSection(l) \/ SectionEnds(l)
  PROVE  SettingsOK'
<1>1. Fgets(l) /\ Reads(l)
  <2>1. Fgets(l)
    BY DEF SetTimeout, SetDefault, Skip, KbootEntry, Header, SyslinuxLine, InSection,
           SectionEnds
  <2> QED
    BY <2>1, FgetsReads
<1>2. CASE SetTimeout(l) \/ SetDefault(l)
  BY <1>1, <1>2, SettingStep
<1>3. CASE \/ Skip(l) \/ KbootEntry(l) \/ Header(l) \/ SyslinuxLine(l) \/ InSection(l)
           \/ SectionEnds(l)
  <2> SUFFICES ASSUME SettingsFirst' PROVE SettingsOK'
    BY DEF SettingsOK
  <2>1. SettingsFirst /\ reader' = reader
    BY <1>1, FirstBefore DEF Reads
  <2>2. l.kind \notin {"timeout", "default"}
    <3>1. CASE SyslinuxLine(l)
      BY <3>1, BootConfigAssumption DEF SyslinuxLine, TypeOK
    <3>2. CASE Skip(l) \/ KbootEntry(l) \/ Header(l)
      BY <3>2 DEF Skip, KbootEntry, Header
    <3>3. CASE InSection(l) \/ SectionEnds(l)
      <4>1. Headers # {}
        BY <3>3 DEF InSection, SectionEnds, PlaceOK
      <4> QED
        BY <1>1, <4>1, FirstBefore
    <3> QED
      BY <1>3, <3>1, <3>2, <3>3
  <2>3. Stays("default") /\ Stays("timeout")
    BY <1>1, <2>2, SettingStays
  <2>4. CASE Skip(l) \/ Header(l) \/ SyslinuxLine(l) \/ InSection(l)
    <3>1. UNCHANGED result
      BY <2>4 DEF Skip, Header, SyslinuxLine, InSection
    <3> QED
      BY <2>1, <2>3, <3>1, SettingsStay
  <2>5. CASE KbootEntry(l)
    <3>1. PICK e \in Entry :
            e = [label |-> l.val, at |-> Here + 1, kernel |-> Here + 1, args |-> {}]
      BY <1>1, <2>5, ReadFacts, LineFacts DEF KbootEntry, Entry, Reads
    <3>2. AddConfig(e)
      BY <2>5, <3>1 DEF KbootEntry
    <3> QED
      BY <2>1, <2>3, <3>2, SettingsAdd
  <2>6. CASE SectionEnds(l)
    <3>1. AddConfig(sec) /\ sec \in Entry
      BY <2>6 DEF SectionEnds, TypeOK
    <3> QED
      BY <2>1, <2>3, <3>1, SettingsAdd
  <2> QED
    BY <1>3, <2>4, <2>5, <2>6
<1> QED
  BY <1>2, <1>3

\* So does the line at which the reader ends.
LEMMA SettingsCrash ==
  ASSUME TypeOK, SettingsOK, NEW l \in Lines[reader], Crash(l)
  PROVE  SettingsOK'
<1>1. /\ Reads(l) /\ reader' = reader /\ UNCHANGED result
      /\ l.kind \notin {"timeout", "default"}
  BY CrashParts
<1> SUFFICES ASSUME SettingsFirst' PROVE SettingsOK'
  BY DEF SettingsOK
<1>2. SettingsFirst
  BY <1>1, FirstBefore
<1>3. Stays("default") /\ Stays("timeout")
  BY <1>1, SettingStays
<1> QED
  BY <1>1, <1>2, <1>3, SettingsStay

LEMMA SettingsRest ==
  ASSUME TypeOK, SettingsOK, EndOfFile \/ Leave \/ AgainHeader \/ FileEndsInSection
  PROVE  SettingsOK'
<1>1. file' = file /\ reader' = reader
  BY DEF EndOfFile, Leave, AgainHeader, FileEndsInSection, FgetsNull, source
<1>2. Stays("default") /\ Stays("timeout")
  BY <1>1 DEF Stays, Setting
<1>3. SettingsFirst' <=> SettingsFirst
  BY <1>1 DEF SettingsFirst, Headers
<1> SUFFICES ASSUME SettingsFirst PROVE SettingsOK'
  BY <1>3 DEF SettingsOK
<1>4. CASE EndOfFile \/ Leave \/ AgainHeader
  <2>1. UNCHANGED result
    BY <1>4 DEF EndOfFile, Leave, AgainHeader
  <2> QED
    BY <1>1, <1>2, <2>1, SettingsStay
<1>5. CASE FileEndsInSection
  <2>1. AddConfig(sec) /\ sec \in Entry
    BY <1>5 DEF FileEndsInSection, TypeOK
  <2> QED
    BY <1>1, <1>2, <2>1, SettingsAdd
<1> QED
  BY <1>4, <1>5

-----------------------------------------------------------------------------
(* What the file says as a whole is what has been listed and noted.           *)

ReaderInv == TypeOK /\ PlaceOK /\ ReadOK /\ SettingsOK

LEMMA InitReads == Init => ReaderInv
<1> SUFFICES ASSUME Init PROVE ReaderInv
  OBVIOUS
<1>1. TypeOK
  BY InitInv DEF IInv
<1>2. /\ file = <<>> /\ conf = <<>> /\ pc = "outer" /\ auto = None /\ timeout = 0
      /\ def = IF reader = "grub" THEN -1 ELSE None
  BY DEF Init
<1>3. DOMAIN file = {} /\ Len(conf) = 0 /\ DOMAIN conf = {}
  BY <1>2
<1>4. Headers = {}
  BY <1>3 DEF Headers
<1>5. PlaceOK
  BY <1>2 DEF PlaceOK
<1>6. ReadOK
  BY <1>2, <1>3, <1>4 DEF ReadOK, FileOK, SectionOK, ClosedOK, ListedOK, Closed
<1>7. ASSUME NEW kind PROVE Setting(kind) = 0
  <2>1. {i \in DOMAIN file : file[i].kind = kind} = {}
    BY <1>3
  <2> QED
    BY <2>1 DEF Setting, LastOf
<1>8. SettingsOK
  BY <1>2, <1>3, <1>7 DEF SettingsOK, NotedOK, Value
<1> QED
  BY <1>1, <1>5, <1>6, <1>8 DEF ReaderInv

LEMMA NextReads ==
  ASSUME ReaderInv, [Next]_vars, TypeOK'
  PROVE  ReaderInv'
<1>1. TypeOK /\ PlaceOK /\ ReadOK /\ SettingsOK
  BY DEF ReaderInv
<1>2. CASE UNCHANGED vars
  <2>1. /\ reader' = reader /\ eof' = eof /\ file' = file /\ pc' = pc /\ sec' = sec
        /\ conf' = conf /\ def' = def /\ timeout' = timeout /\ auto' = auto
    BY <1>2 DEF vars, source, result
  <2>2. /\ Here' = Here /\ Headers' = Headers /\ (Separated' <=> Separated)
        /\ \A h : EntryAt(h)' = EntryAt(h) /\ Body(h)' = Body(h)
    BY <2>1, SameFile
  <2>3. PlaceOK'
    BY <1>1, <2>1, <2>2 DEF PlaceOK
  <2>4. Closed' = Closed /\ (Stuck' <=> Stuck)
    BY <2>1, <2>2 DEF Closed, Open, Stuck
  <2>5. FileOK => FileOK'
    <3> SUFFICES ASSUME FileOK PROVE FileOK'
      OBVIOUS
    <3>1. ListedOK'
      BY <2>1, <2>2, <2>4, ListStays DEF FileOK
    <3>2. ClosedOK'
      BY <2>1, <2>2, <2>4 DEF FileOK, ClosedOK
    <3>3. SectionOK'
      BY <2>1, <2>2 DEF FileOK, SectionOK
    <3> QED
      BY <3>1, <3>2, <3>3 DEF FileOK
  <2>6. ReadOK'
    BY <1>1, <2>1, <2>2, <2>4, <2>5 DEF ReadOK
  <2>7. SettingsOK'
    <3>1. Stays("default") /\ Stays("timeout") /\ (SettingsFirst' <=> SettingsFirst)
      BY <2>1, <2>2 DEF Stays, Setting, SettingsFirst
    <3>2. UNCHANGED result
      BY <2>1 DEF result
    <3> QED
      BY <1>1, <2>1, <3>1, <3>2, SettingsStay DEF SettingsOK
  <2> QED
    BY <2>3, <2>6, <2>7 DEF ReaderInv
<1>3. ASSUME NEW l \in Lines[reader],
             \/ SetTimeout(l) \/ SetDefault(l) \/ Skip(l) \/ KbootEntry(l)
             \/ Header(l) \/ SyslinuxLine(l) \/ InSection(l) \/ SectionEnds(l)
      PROVE  ReaderInv'
  BY <1>1, <1>3, ReadStep, SettingsRead DEF ReaderInv
<1>4. ASSUME NEW l \in Lines[reader], Crash(l)
      PROVE  ReaderInv'
  BY <1>1, <1>4, CrashPlace, SettingsCrash DEF ReaderInv
<1>5. CASE EndOfFile \/ Leave \/ AgainHeader \/ FileEndsInSection
  BY <1>1, <1>5, RestStep, SettingsRest DEF ReaderInv
<1> QED
  BY <1>2, <1>3, <1>4, <1>5 DEF Next

THEOREM ReaderInvHolds == Spec => []ReaderInv
<1>1. ReaderInv /\ TypeOK' /\ [Next]_vars => ReaderInv'
  BY NextReads
<1> QED
  BY <1>1, InitReads, TypeCorrect, PTL DEF Spec

LEMMA CompleteHere == ReaderInv => Complete
<1> SUFFICES ASSUME ReaderInv, pc = "done", Separated
             PROVE  /\ {conf[i] : i \in DOMAIN conf} =
                         {e \in {EntryAt(h) : h \in Headers} : e.label # None}
                    /\ \A i, j \in DOMAIN conf : i < j => conf[i].at < conf[j].at
  BY DEF Complete
<1>1. TypeOK /\ ListedOK
  BY DEF ReaderInv, ReadOK, FileOK, Stuck
<1>2. Closed = Headers
  BY DEF Closed, Open
<1>3. \A i \in DOMAIN conf : conf[i].label # None
  BY <1>1 DEF TypeOK
<1>4. \A i \in DOMAIN conf : \E h \in Headers : conf[i] = EntryAt(h)
  BY <1>1, <1>2 DEF ListedOK
<1>5. \A h \in Headers : EntryAt(h).label # None =>
        \E i \in DOMAIN conf : conf[i] = EntryAt(h)
  BY <1>1, <1>2 DEF ListedOK
<1>6. {conf[i] : i \in DOMAIN conf} =
        {e \in {EntryAt(h) : h \in Headers} : e.label # None}
  BY <1>3, <1>4, <1>5
<1>7. \A i, j \in DOMAIN conf : i < j => conf[i].at < conf[j].at
  BY <1>1 DEF ListedOK
<1> QED
  BY <1>6, <1>7

LEMMA ChosenHere == ReaderInv /\ SettingsFirst => auto = Chosen
<1> SUFFICES ASSUME ReaderInv, SettingsFirst PROVE auto = Chosen
  OBVIOUS
<1>1. /\ TypeOK /\ timeout = Value("timeout", 0) /\ NotedOK
  BY DEF ReaderInv, SettingsOK
<1>2. Chosen = IF Setting("default") = 0 \/ Named = {} THEN None
               ELSE [entry   |-> conf[CHOOSE i \in Named : \A j \in Named : i <= j],
                     timeout |-> Value("timeout", 0)]
  BY DEF Chosen, Named, Value
<1>3. CASE auto = None /\ (Setting("default") = 0 \/ Named = {})
  BY <1>2, <1>3
<1>4. CASE /\ Setting("default") # 0
           /\ \E i \in Named : /\ \A j \in Named : i <= j
                               /\ auto = [entry |-> conf[i], timeout |-> timeout]
  <2>1. PICK i \in Named : /\ \A j \in Named : i <= j
                           /\ auto = [entry |-> conf[i], timeout |-> timeout]
    BY <1>4
  <2>2. PICK k : k = CHOOSE i_1 \in Named : \A j \in Named : i_1 <= j
    OBVIOUS
  <2>3. k \in Named /\ \A j \in Named : k <= j
    BY <2>1, <2>2, Zenon
  <2>4. Named \subseteq Nat
    BY <1>1 DEF Named, TypeOK
  <2>5. k = i
    <3>1. k \in Nat /\ i \in Nat /\ k <= i /\ i <= k
      BY <2>1, <2>3, <2>4
    <3> QED
      BY <3>1
  <2>6. Chosen = [entry |-> conf[k], timeout |-> timeout]
    BY <1>1, <1>2, <1>4, <2>1, <2>2
  <2> QED
    BY <2>1, <2>5, <2>6
<1> QED
  BY <1>1, <1>3, <1>4 DEF NotedOK

\* Of every file, of any length, that is read to its end and whose sections are
\* separated, each section with a label becomes one entry, in order, with all its
\* lines and no others; in particular the last one, and the one that stands after a
\* line that ended another (parse-config.c:235-284, 336-358, 430-458, 503-527).
THEOREM CompleteSafe == Spec => []Complete
BY ReaderInvHolds, CompleteHere, PTL

\* If the settings come first, what is booted without a choice is the first entry
\* that the default names, after the timeout of the file: in kboot, yaboot and
\* ps3boot by its label, in grub by its position among those with a label
\* (parse-config.c:173-177, 279-283, 353-357, 523-526).
THEOREM DefaultSafe == Spec => []DefaultBoots
<1>1. ReaderInv => DefaultBoots
  BY ChosenHere DEF DefaultBoots
<1> QED
  BY <1>1, ReaderInvHolds, PTL
=============================================================================
