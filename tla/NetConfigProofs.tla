--------------------------- MODULE NetConfigProofs ---------------------------
(***************************************************************************)
(* What netconfig keeps up, for any interfaces, values, files whose        *)
(* stanzas are apart, and any number of edits, applies and kills: the file *)
(* is the table NetSettings, the reading loop finds what it says, and a    *)
(* window in which nothing was touched has nothing to apply.               *)
(***************************************************************************)
EXTENDS NetConfig, SequenceTheorems, WellFoundedInduction, TLAPS

-----------------------------------------------------------------------------
(* Loops: what holds at first and is kept by a round holds after each.       *)

\* A set of naturals has a least element.
LEMMA HasLeast ==
  ASSUME NEW T, T \subseteq Nat, T # {}
  PROVE  \E m \in T : \A k \in T : m <= k
<1> DEFINE R == {ss \in Nat \X Nat : ss[1] < ss[2]}
<1>1. OpToRel(<, Nat) = R
  BY DEF OpToRel
<1>2. IsWellFoundedOn(R, Nat)
  BY <1>1, NatLessThanWellFounded
<1>3. \E m \in T : \A k \in T : ~ (<<k, m>> \in R)
  <2> HIDE DEF R
  <2> QED
    BY <1>2, WFMin
<1>4. PICK m \in T : \A k \in T : ~ (<<k, m>> \in R)
  BY <1>3
<1>5. ASSUME NEW k \in T PROVE m <= k
  <2>1. k \in Nat /\ m \in Nat
    OBVIOUS
  <2>2. ~ (<<k, m>> \in R)
    BY <1>4
  <2> QED
    BY <2>1, <2>2
<1> QED
  BY <1>5

\* The rounds at which something holds are all rounds.
LEMMA AllRounds ==
  ASSUME NEW N \in Nat, NEW S, 0 \in S, \A i \in 0 .. N - 1 : i \in S => i + 1 \in S
  PROVE  0 .. N \subseteq S
<1> SUFFICES ASSUME NEW j \in 0 .. N, j \notin S PROVE FALSE
  OBVIOUS
<1> DEFINE T == {i \in 0 .. N : i \notin S}
<1>1. T \subseteq Nat /\ T # {}
  OBVIOUS
<1>2. PICK m \in T : \A k \in T : m <= k
  BY <1>1, HasLeast
<1>3. m \in 1 .. N /\ m \notin S
  OBVIOUS
<1>4. m - 1 \in 0 .. N - 1 /\ m - 1 \in 0 .. N /\ ~ (m <= m - 1)
  BY <1>3
<1>5. m - 1 \in S
  BY <1>2, <1>4
<1>6. (m - 1) + 1 \in S
  BY <1>4, <1>5
<1> QED
  BY <1>3, <1>6

\* s is a loop: from x0, N rounds, the ith of which is F[i].
Loop(N, X, x0, F, s) ==
  /\ s \in [0 .. N -> X]
  /\ s[0] = x0
  /\ \A i \in 1 .. N : s[i] = F[i][s[i - 1]]

LEMMA LoopRuns ==
  ASSUME NEW N \in Nat, NEW X, NEW x0 \in X, NEW F \in [1 .. N -> [X -> X]]
  PROVE  \E s : Loop(N, X, x0, F, s)
<1> DEFINE Upto(k) ==
      \E s \in [0 .. k -> X] : s[0] = x0 /\ \A i \in 1 .. k : s[i] = F[i][s[i - 1]]
           S == {k \in 0 .. N : Upto(k)}
<1>1. 0 \in S
  <2> DEFINE s == [i \in 0 .. 0 |-> x0]
  <2>1. s \in [0 .. 0 -> X] /\ s[0] = x0 /\ \A i \in 1 .. 0 : s[i] = F[i][s[i - 1]]
    OBVIOUS
  <2>2. Upto(0)
    <3> HIDE DEF s
    <3> QED
      BY <2>1
  <2> QED
    BY <2>2
<1>2. ASSUME NEW k \in 0 .. N - 1, k \in S PROVE k + 1 \in S
  <2>1. PICK s \in [0 .. k -> X] :
          s[0] = x0 /\ \A i \in 1 .. k : s[i] = F[i][s[i - 1]]
    BY <1>2
  <2> DEFINE t == [i \in 0 .. k + 1 |-> IF i = k + 1 THEN F[k + 1][s[k]] ELSE s[i]]
  <2>2. k + 1 \in 1 .. N /\ k \in 0 .. k /\ s[k] \in X
    BY <2>1
  <2>3. F[k + 1][s[k]] \in X
    BY <2>2
  <2>4. t \in [0 .. k + 1 -> X]
    <3>1. ASSUME NEW i \in 0 .. k + 1, i # k + 1 PROVE s[i] \in X
      <4>1. i \in 0 .. k
        BY <3>1
      <4> QED
        BY <4>1, <2>1
    <3> QED
      BY <2>3, <3>1
  <2>5. t[0] = x0
    BY <2>1
  <2>6. ASSUME NEW i \in 1 .. k + 1 PROVE t[i] = F[i][t[i - 1]]
    <3>1. CASE i = k + 1
      <4>1. i - 1 = k /\ k # k + 1 /\ k \in 0 .. k + 1 /\ k + 1 \in 0 .. k + 1
        BY <3>1
      <4>2. t[k + 1] = F[k + 1][s[k]] /\ t[k] = s[k]
        BY <4>1
      <4> HIDE DEF t
      <4> QED
        BY <3>1, <4>1, <4>2
    <3>2. CASE i # k + 1
      <4>1. i \in 1 .. k /\ i - 1 \in 0 .. k /\ i - 1 # k + 1 /\ i - 1 \in 0 .. k + 1
        BY <3>2
      <4> QED
        BY <4>1, <3>2, <2>1
    <3> QED
      BY <3>1, <3>2
  <2>7. Upto(k + 1)
    <3> HIDE DEF t
    <3> QED
      BY <2>4, <2>5, <2>6
  <2> QED
    BY <2>7
<1> HIDE DEF S
<1>3. 0 .. N \subseteq S
  BY <1>1, <1>2, AllRounds
<1>4. N \in S
  BY <1>3
<1>5. PICK s \in [0 .. N -> X] : s[0] = x0 /\ \A i \in 1 .. N : s[i] = F[i][s[i - 1]]
  BY <1>4 DEF S
<1>6. Loop(N, X, x0, F, s)
  BY <1>5 DEF Loop
<1> QED
  BY <1>6

-----------------------------------------------------------------------------
(* Files: what a line more changes.                                          *)

Heads(m, lines)  == {i \in DOMAIN lines : lines[i].key = "iface" /\ lines[i].arg = m}
IsUp(m, lines)   == \E i \in DOMAIN lines : lines[i].key = "auto" /\ lines[i].arg = m
IsHead(m, l)     == l.key = "iface" /\ l.arg = m
IsAuto(m, l)     == l.key = "auto" /\ l.arg = m

\* The stanza of m is the last one, and no empty line has ended it.
Open(m, lines) ==
  \E h \in Heads(m, lines) : \A k \in h + 1 .. Len(lines) : lines[k].key # "blank"

\* The first empty line after h, or the end.
EndAt(lines, h, e) ==
  /\ e \in h + 1 .. Len(lines) + 1
  /\ e = Len(lines) + 1 \/ lines[e].key = "blank"
  /\ \A k \in h + 1 .. e - 1 : lines[k].key # "blank"

LEMMA MinIs ==
  ASSUME NEW S, S \subseteq Int, NEW m \in S, \A y \in S : m <= y
  PROVE  Min(S) = m
<1>1. \E x \in S : \A y \in S : x <= y
  OBVIOUS
<1>2. Min(S) \in S /\ \A y \in S : Min(S) <= y
  BY <1>1, Zenon DEF Min
<1>3. Min(S) \in Int /\ m \in Int /\ Min(S) <= m /\ m <= Min(S)
  BY <1>2
<1> QED
  BY <1>3

LEMMA EndExists ==
  ASSUME NEW lines \in Seq(Line), NEW h \in DOMAIN lines
  PROVE  \E e : EndAt(lines, h, e)
<1> DEFINE T == {e \in h + 1 .. Len(lines) + 1 : e = Len(lines) + 1 \/ lines[e].key = "blank"}
<1>1. h \in 1 .. Len(lines) /\ Len(lines) \in Nat
  OBVIOUS
<1>2. Len(lines) + 1 \in T /\ T \subseteq Nat
  BY <1>1
<1>3. PICK e \in T : \A k \in T : e <= k
  BY <1>2, HasLeast
<1>4. ASSUME NEW k \in h + 1 .. e - 1, lines[k].key = "blank" PROVE FALSE
  <2>1. e \in h + 1 .. Len(lines) + 1
    OBVIOUS
  <2>2. k \in h + 1 .. Len(lines) + 1 /\ ~ (e <= k)
    BY <1>1, <2>1
  <2>3. k \in T
    BY <2>2, <1>4
  <2> QED
    BY <2>2, <2>3, <1>3
<1>5. EndAt(lines, h, e)
  BY <1>4 DEF EndAt
<1> QED
  BY <1>5

\* Where the stanza of m begins and ends.
LEMMA BodyIs ==
  ASSUME NEW lines \in Seq(Line), NEW m, NEW h, Heads(m, lines) = {h},
         NEW e, EndAt(lines, h, e)
  PROVE  Body(m, lines) = SubSeq(lines, h, e - 1)
<1> DEFINE ends == {i \in DOMAIN lines : lines[i].key = "blank"} \cup {Len(lines) + 1}
<1>1. h \in DOMAIN lines /\ DOMAIN lines = 1 .. Len(lines) /\ Len(lines) \in Nat
  BY DEF Heads
<1>2. Min({h}) = h
  <2>1. {h} \subseteq Int /\ h \in {h} /\ \A y \in {h} : h <= y
    BY <1>1
  <2> QED
    BY <2>1, MinIs
<1>3. e \in ends /\ e > h /\ e \in Nat
  BY <1>1 DEF EndAt
<1>4. ASSUME NEW y \in ends, y > h PROVE e <= y
  <2>1. y \in Nat /\ y <= Len(lines) + 1
    BY <1>1
  <2>2. y = Len(lines) + 1 \/ lines[y].key = "blank"
    OBVIOUS
  <2>3. CASE y = Len(lines) + 1
    BY <2>3, <1>1 DEF EndAt
  <2>4. CASE lines[y].key = "blank"
    <3>1. y \notin h + 1 .. e - 1
      BY <2>4 DEF EndAt
    <3> QED
      BY <3>1, <2>1, <1>1, <1>3, <1>4
  <2> QED
    BY <2>2, <2>3, <2>4
<1>5. Min({x \in ends : x > h}) = e
  <2>1. {x \in ends : x > h} \subseteq Int
    BY <1>1
  <2>2. e \in {x \in ends : x > h}
    BY <1>3
  <2>3. \A y \in {x \in ends : x > h} : e <= y
    BY <1>4
  <2> HIDE DEF ends
  <2> QED
    BY <2>1, <2>2, <2>3, MinIs
<1>6. Body(m, lines) = IF Heads(m, lines) = {} THEN <<>>
        ELSE SubSeq(lines, Min(Heads(m, lines)), Min({x \in ends : x > Min(Heads(m, lines))}) - 1)
  BY DEF Body, Heads
<1> HIDE DEF ends
<1> QED
  BY <1>2, <1>5, <1>6

LEMMA BodyNone ==
  ASSUME NEW lines, NEW m, Heads(m, lines) = {}
  PROVE  Body(m, lines) = <<>>
BY DEF Body, Heads

LEMMA OneHead ==
  ASSUME NEW lines \in Seq(Line), OneStanza(lines), NEW m, NEW h \in Heads(m, lines)
  PROVE  Heads(m, lines) = {h} /\ h \in DOMAIN lines
BY DEF OneStanza, Heads

\* A line more.
LEMMA LineMore ==
  ASSUME NEW lines \in Seq(Line), NEW l \in Line
  PROVE  LET q == Append(lines, l) IN
         /\ q \in Seq(Line) /\ Len(q) = Len(lines) + 1
         /\ DOMAIN q = 1 .. Len(lines) + 1 /\ DOMAIN lines = 1 .. Len(lines)
         /\ \A i \in 1 .. Len(lines) : q[i] = lines[i]
         /\ q[Len(lines) + 1] = l
         /\ Len(lines) \in Nat
OBVIOUS

LEMMA HeadsMore ==
  ASSUME NEW lines \in Seq(Line), NEW l \in Line, NEW m
  PROVE  /\ IsHead(m, l) =>
              Heads(m, Append(lines, l)) = Heads(m, lines) \cup {Len(lines) + 1}
         /\ ~ IsHead(m, l) => Heads(m, Append(lines, l)) = Heads(m, lines)
         /\ IsUp(m, Append(lines, l)) <=> IsUp(m, lines) \/ IsAuto(m, l)
         /\ Len(lines) + 1 \notin Heads(m, lines)
<1> DEFINE q == Append(lines, l)
<1>1. /\ DOMAIN q = 1 .. Len(lines) + 1 /\ DOMAIN lines = 1 .. Len(lines)
      /\ \A i \in 1 .. Len(lines) : q[i] = lines[i]
      /\ q[Len(lines) + 1] = l
      /\ Len(lines) \in Nat
  BY LineMore
<1> HIDE DEF q
<1>2. /\ IsHead(m, l) => Heads(m, q) = Heads(m, lines) \cup {Len(lines) + 1}
      /\ ~ IsHead(m, l) => Heads(m, q) = Heads(m, lines)
  BY <1>1 DEF Heads, IsHead
<1>3. IsUp(m, q) <=> IsUp(m, lines) \/ IsAuto(m, l)
  <2>1. ASSUME IsUp(m, q) PROVE IsUp(m, lines) \/ IsAuto(m, l)
    BY <1>1, <2>1 DEF IsUp, IsAuto
  <2>2. ASSUME IsUp(m, lines) PROVE IsUp(m, q)
    BY <1>1, <2>2 DEF IsUp
  <2>3. ASSUME IsAuto(m, l) PROVE IsUp(m, q)
    <3>1. Len(lines) + 1 \in DOMAIN q
      BY <1>1
    <3> QED
      BY <1>1, <2>3, <3>1 DEF IsUp, IsAuto
  <2> QED
    BY <2>1, <2>2, <2>3
<1>4. Len(lines) + 1 \notin Heads(m, lines)
  BY <1>1 DEF Heads
<1> QED
  BY <1>2, <1>3, <1>4 DEF q

\* The stanza of m grows by the line, while it is open.
LEMMA OpenMore ==
  ASSUME NEW lines \in Seq(Line), NEW l \in Line, NEW m, ~ IsHead(m, l)
  PROVE  Open(m, Append(lines, l)) <=> Open(m, lines) /\ l.key # "blank"
<1> DEFINE q == Append(lines, l)
<1>1. /\ DOMAIN q = 1 .. Len(lines) + 1 /\ DOMAIN lines = 1 .. Len(lines)
      /\ \A i \in 1 .. Len(lines) : q[i] = lines[i]
      /\ q[Len(lines) + 1] = l
      /\ Len(q) = Len(lines) + 1 /\ Len(lines) \in Nat
  BY LineMore
<1>2. Heads(m, q) = Heads(m, lines)
  BY HeadsMore
<1> HIDE DEF q
<1>3. ASSUME NEW h \in Heads(m, lines)
      PROVE  (\A k \in h + 1 .. Len(q) : q[k].key # "blank") <=>
             (\A k \in h + 1 .. Len(lines) : lines[k].key # "blank") /\ l.key # "blank"
  <2>1. h \in 1 .. Len(lines)
    BY <1>1 DEF Heads
  <2>2. h + 1 .. Len(q) = (h + 1 .. Len(lines)) \cup {Len(lines) + 1}
    BY <1>1, <2>1
  <2>3. \A k \in h + 1 .. Len(lines) : q[k] = lines[k]
    BY <1>1, <2>1
  <2> QED
    BY <1>1, <2>2, <2>3
<1>4. Open(m, q) <=> Open(m, lines) /\ l.key # "blank"
  <2>1. ASSUME Open(m, q) PROVE Open(m, lines) /\ l.key # "blank"
    <3>1. PICK h \in Heads(m, lines) : \A k \in h + 1 .. Len(q) : q[k].key # "blank"
      BY <1>2, <2>1 DEF Open
    <3> QED
      BY <1>3, <3>1 DEF Open
  <2>2. ASSUME Open(m, lines), l.key # "blank" PROVE Open(m, q)
    <3>1. PICK h \in Heads(m, lines) : \A k \in h + 1 .. Len(lines) : lines[k].key # "blank"
      BY <2>2 DEF Open
    <3> QED
      BY <1>2, <1>3, <2>2, <3>1 DEF Open
  <2> QED
    BY <2>1, <2>2
<1> QED
  BY <1>4 DEF q

LEMMA BodyMore ==
  ASSUME NEW lines \in Seq(Line), OneStanza(lines), NEW l \in Line, NEW m, ~ IsHead(m, l)
  PROVE  Body(m, Append(lines, l)) =
           IF Open(m, lines) /\ l.key # "blank" THEN Append(Body(m, lines), l)
           ELSE Body(m, lines)
<1> DEFINE q == Append(lines, l)
<1>1. /\ q \in Seq(Line)
      /\ DOMAIN q = 1 .. Len(lines) + 1 /\ DOMAIN lines = 1 .. Len(lines)
      /\ \A i \in 1 .. Len(lines) : q[i] = lines[i]
      /\ q[Len(lines) + 1] = l
      /\ Len(q) = Len(lines) + 1 /\ Len(lines) \in Nat
  BY LineMore
<1>2. Heads(m, q) = Heads(m, lines)
  BY HeadsMore
<1>3. \A i \in 1 .. Len(lines), e \in Nat :
        e <= Len(lines) + 1 => SubSeq(q, i, e - 1) = SubSeq(lines, i, e - 1)
  BY <1>1
<1> SUFFICES Body(m, q) = IF Open(m, lines) /\ l.key # "blank"
                          THEN Append(Body(m, lines), l) ELSE Body(m, lines)
  OBVIOUS
<1>4. CASE Heads(m, lines) = {}
  <2>1. ~ Open(m, lines)
    BY <1>4 DEF Open
  <2> QED
    BY <1>4, <1>2, <2>1, BodyNone
<1>5. CASE Heads(m, lines) # {}
  <2>1. PICK h : Heads(m, lines) = {h} /\ h \in DOMAIN lines
    BY <1>5, OneHead
  <2>2. PICK e : EndAt(lines, h, e)
    BY <2>1, EndExists
  <2>3. Body(m, lines) = SubSeq(lines, h, e - 1)
    BY <2>1, <2>2, BodyIs
  <2>4. e \in Nat /\ h \in 1 .. Len(lines) /\ h < e /\ e <= Len(lines) + 1
    BY <1>1, <2>1, <2>2 DEF EndAt
  <2>5. Open(m, lines) <=> e = Len(lines) + 1
    BY <2>1, <2>2, <2>4, <1>1 DEF Open, EndAt
  <2> HIDE DEF q
  <2>6. CASE e # Len(lines) + 1
    <3>1. EndAt(q, h, e)
      BY <2>2, <2>4, <2>6, <1>1 DEF EndAt
    <3>2. Body(m, q) = SubSeq(q, h, e - 1)
      BY <3>1, <1>1, <1>2, <2>1, BodyIs
    <3>3. SubSeq(q, h, e - 1) = SubSeq(lines, h, e - 1)
      BY <1>3, <2>4
    <3> QED
      BY <3>2, <3>3, <2>3, <2>5, <2>6
  <2>7. CASE e = Len(lines) + 1 /\ l.key = "blank"
    <3>1. EndAt(q, h, e)
      BY <2>2, <2>4, <2>7, <1>1 DEF EndAt
    <3>2. Body(m, q) = SubSeq(q, h, e - 1)
      BY <3>1, <1>1, <1>2, <2>1, BodyIs
    <3>3. SubSeq(q, h, e - 1) = SubSeq(lines, h, e - 1)
      BY <1>3, <2>4
    <3> QED
      BY <3>2, <3>3, <2>3, <2>7
  <2>8. CASE e = Len(lines) + 1 /\ l.key # "blank"
    <3>1. EndAt(q, h, e + 1)
      BY <2>2, <2>4, <2>8, <1>1 DEF EndAt
    <3>2. Body(m, q) = SubSeq(q, h, e)
      <4>1. Body(m, q) = SubSeq(q, h, (e + 1) - 1)
        BY <3>1, <1>1, <1>2, <2>1, BodyIs
      <4> QED
        BY <4>1, <2>4
    <3>3. SubSeq(q, h, e) = Append(SubSeq(lines, h, e - 1), l)
      BY <1>1, <2>4, <2>8
    <3> QED
      BY <3>2, <3>3, <2>3, <2>5, <2>8
  <2> QED
    BY <2>6, <2>7, <2>8
<1> QED
  BY <1>4, <1>5

\* The first line of a stanza.
LEMMA BodyBegins ==
  ASSUME NEW lines \in Seq(Line), NEW l \in Line, NEW m, IsHead(m, l), Heads(m, lines) = {}
  PROVE  /\ Body(m, Append(lines, l)) = <<l>>
         /\ Open(m, Append(lines, l))
<1> DEFINE q == Append(lines, l)
           h == Len(lines) + 1
<1>1. /\ q \in Seq(Line) /\ q[h] = l
      /\ DOMAIN q = 1 .. Len(lines) + 1
      /\ Len(q) = Len(lines) + 1 /\ Len(lines) \in Nat
  BY LineMore
<1>2. Heads(m, q) = {h}
  BY HeadsMore
<1> HIDE DEF q
<1>3. EndAt(q, h, h + 1)
  BY <1>1 DEF EndAt
<1>4. Body(m, q) = SubSeq(q, h, (h + 1) - 1)
  <2> HIDE DEF h
  <2> QED
    BY <1>1, <1>2, <1>3, BodyIs
<1>5. SubSeq(q, h, (h + 1) - 1) = <<l>>
  <2>1. h \in 1 .. Len(q) /\ (h + 1) - 1 = h /\ Len(q) = h
    BY <1>1
  <2> HIDE DEF h
  <2>2. SubSeq(q, h, h) \in Seq(Line) /\ Len(SubSeq(q, h, h)) = 1 /\ SubSeq(q, h, h)[1] = l
    BY <1>1, <2>1
  <2>3. SubSeq(q, h, h) = <<l>>
    <3>1. ASSUME NEW t \in Seq(Line), Len(t) = 1 PROVE t = <<t[1]>>
      BY <3>1
    <3> QED
      BY <2>2, <3>1
  <2> QED
    BY <2>1, <2>3
<1>6. Open(m, q)
  BY <1>1, <1>2 DEF Open
<1> QED
  BY <1>4, <1>5, <1>6 DEF q

-----------------------------------------------------------------------------
(* Files whose stanzas are apart.                                            *)

Proper(lines) ==
  /\ lines \in Seq(Line)
  /\ OneStanza(lines) /\ Apart(lines)
  /\ \A i \in DOMAIN lines : lines[i].key \in Options => lines[i].arg \in Values

\* What may follow them.
Follows(l, lines) ==
  /\ l.key \in Options => l.arg \in Values
  /\ l.key \in {"auto", "iface"} => \A m : ~ Open(m, lines)
  /\ l.key = "auto" => ~ IsUp(l.arg, lines)
  /\ l.key = "iface" => Heads(l.arg, lines) = {}

LEMMA OneOpen ==
  ASSUME NEW lines, Proper(lines), NEW m, NEW o, Open(m, lines), Open(o, lines)
  PROVE  m = o
<1>1. PICK h \in Heads(m, lines) : \A k \in h + 1 .. Len(lines) : lines[k].key # "blank"
  BY DEF Open
<1>2. PICK g \in Heads(o, lines) : \A k \in g + 1 .. Len(lines) : lines[k].key # "blank"
  BY DEF Open
<1>3. /\ h \in 1 .. Len(lines) /\ g \in 1 .. Len(lines) /\ Len(lines) \in Nat
      /\ h \in DOMAIN lines /\ g \in DOMAIN lines
      /\ lines[h].key = "iface" /\ lines[h].arg = m
      /\ lines[g].key = "iface" /\ lines[g].arg = o
  BY DEF Proper, Heads
<1>4. ~ (h < g)
  <2> SUFFICES ASSUME h < g PROVE FALSE
    OBVIOUS
  <2>1. \E k \in h + 1 .. g - 1 : lines[k].key = "blank"
    BY <1>3 DEF Proper, Apart
  <2> QED
    BY <1>1, <1>3, <2>1
<1>5. ~ (g < h)
  <2> SUFFICES ASSUME g < h PROVE FALSE
    OBVIOUS
  <2>1. \E k \in g + 1 .. h - 1 : lines[k].key = "blank"
    BY <1>3 DEF Proper, Apart
  <2> QED
    BY <1>2, <1>3, <2>1
<1>6. h = g
  BY <1>3, <1>4, <1>5
<1> QED
  BY <1>3, <1>6

LEMMA ProperLess ==
  ASSUME NEW lines \in Seq(Line), NEW l \in Line, Proper(Append(lines, l))
  PROVE  Proper(lines) /\ Follows(l, lines)
<1> DEFINE q == Append(lines, l)
           e == Len(lines) + 1
<1>1. /\ q \in Seq(Line)
      /\ DOMAIN q = 1 .. Len(lines) + 1 /\ DOMAIN lines = 1 .. Len(lines)
      /\ \A i \in 1 .. Len(lines) : q[i] = lines[i]
      /\ q[Len(lines) + 1] = l
      /\ Len(q) = Len(lines) + 1 /\ Len(lines) \in Nat
  BY LineMore
<1>2. Proper(q)
  OBVIOUS
<1> HIDE DEF q
<1>3. Proper(lines)
  <2>1. OneStanza(lines)
    BY <1>1, <1>2 DEF Proper, OneStanza
  <2>2. Apart(lines)
    <3> SUFFICES ASSUME NEW i \in DOMAIN lines, NEW j \in DOMAIN lines, i < j,
                        lines[i].key = "iface", lines[j].key \in {"auto", "iface"}
                 PROVE  \E k \in i + 1 .. j - 1 : lines[k].key = "blank"
      BY DEF Apart
    <3>1. PICK k \in i + 1 .. j - 1 : q[k].key = "blank"
      BY <1>1, <1>2 DEF Proper, Apart
    <3>2. k \in 1 .. Len(lines)
      BY <1>1
    <3> QED
      BY <1>1, <3>1, <3>2
  <2>3. \A i \in DOMAIN lines : lines[i].key \in Options => lines[i].arg \in Values
    BY <1>1, <1>2 DEF Proper
  <2> QED
    BY <2>1, <2>2, <2>3 DEF Proper
<1>4. e \in DOMAIN q /\ q[e] = l
  BY <1>1
<1>5. l.key \in Options => l.arg \in Values
  BY <1>2, <1>4 DEF Proper
<1>6. ASSUME l.key \in {"auto", "iface"}, NEW m, Open(m, lines) PROVE FALSE
  <2>1. PICK h \in Heads(m, lines) : \A k \in h + 1 .. Len(lines) : lines[k].key # "blank"
    BY <1>6 DEF Open
  <2>2. h \in DOMAIN lines /\ lines[h].key = "iface"
    BY DEF Heads
  <2>3. h \in DOMAIN q /\ q[h].key = "iface" /\ h < e
    BY <1>1, <2>2
  <2>4. PICK k \in h + 1 .. e - 1 : q[k].key = "blank"
    BY <1>2, <1>4, <1>6, <2>3 DEF Proper, Apart
  <2>5. k \in h + 1 .. Len(lines) /\ k \in 1 .. Len(lines)
    BY <1>1, <2>2
  <2> QED
    BY <1>1, <2>1, <2>4, <2>5
<1>7. ASSUME l.key = "auto", IsUp(l.arg, lines) PROVE FALSE
  <2>1. PICK i \in DOMAIN lines : lines[i].key = "auto" /\ lines[i].arg = l.arg
    BY <1>7 DEF IsUp
  <2>2. i \in DOMAIN q /\ q[i] = lines[i] /\ i # e
    BY <1>1
  <2> QED
    BY <1>2, <1>4, <1>7, <2>1, <2>2 DEF Proper, OneStanza
<1>8. ASSUME l.key = "iface", NEW i \in Heads(l.arg, lines) PROVE FALSE
  <2>1. i \in DOMAIN lines /\ lines[i].key = "iface" /\ lines[i].arg = l.arg
    BY DEF Heads
  <2>2. i \in DOMAIN q /\ q[i] = lines[i] /\ i # e
    BY <1>1, <2>1
  <2> QED
    BY <1>2, <1>4, <1>8, <2>1, <2>2 DEF Proper, OneStanza
<1> QED
  BY <1>3, <1>5, <1>6, <1>7, <1>8 DEF Follows

LEMMA ProperMore ==
  ASSUME NEW lines, Proper(lines), NEW l \in Line, Follows(l, lines)
  PROVE  Proper(Append(lines, l))
<1> DEFINE q == Append(lines, l)
           e == Len(lines) + 1
<1>1. /\ q \in Seq(Line)
      /\ DOMAIN q = 1 .. Len(lines) + 1 /\ DOMAIN lines = 1 .. Len(lines)
      /\ \A i \in 1 .. Len(lines) : q[i] = lines[i]
      /\ q[e] = l
      /\ Len(q) = Len(lines) + 1 /\ Len(lines) \in Nat
  BY LineMore DEF Proper
<1> HIDE DEF q
<1>2. ASSUME NEW i \in DOMAIN lines, lines[i].key \in {"auto", "iface"},
             lines[i].key = l.key, lines[i].arg = l.arg
      PROVE  FALSE
  BY <1>2 DEF Follows, IsUp, Heads
<1>3. OneStanza(q)
  <2> SUFFICES ASSUME NEW i \in DOMAIN q, NEW j \in DOMAIN q,
                      q[i].key \in {"auto", "iface"}, q[i].key = q[j].key, q[i].arg = q[j].arg
               PROVE  i = j
    BY DEF OneStanza
  <2>1. CASE i \in DOMAIN lines /\ j \in DOMAIN lines
    BY <1>1, <2>1 DEF Proper, OneStanza
  <2>2. CASE i \in DOMAIN lines /\ j = e
    BY <1>1, <1>2, <2>2
  <2>3. CASE i = e /\ j \in DOMAIN lines
    BY <1>1, <1>2, <2>3
  <2> QED
    BY <1>1, <2>1, <2>2, <2>3
<1>4. Apart(q)
  <2> SUFFICES ASSUME NEW i \in DOMAIN q, NEW j \in DOMAIN q, i < j,
                      q[i].key = "iface", q[j].key \in {"auto", "iface"}
               PROVE  \E k \in i + 1 .. j - 1 : q[k].key = "blank"
    BY DEF Apart
  <2>1. i \in DOMAIN lines /\ lines[i] = q[i]
    BY <1>1
  <2>2. CASE j \in DOMAIN lines
    <3>1. PICK k \in i + 1 .. j - 1 : lines[k].key = "blank"
      BY <1>1, <2>1, <2>2 DEF Proper, Apart
    <3>2. k \in 1 .. Len(lines)
      BY <1>1, <2>1, <2>2
    <3> QED
      BY <1>1, <3>1, <3>2
  <2>3. CASE j = e
    <3>1. i \in Heads(lines[i].arg, lines)
      BY <2>1 DEF Heads
    <3>2. ~ Open(lines[i].arg, lines)
      BY <1>1, <2>3 DEF Follows
    <3>3. PICK k \in i + 1 .. Len(lines) : lines[k].key = "blank"
      BY <3>1, <3>2 DEF Open
    <3>4. k \in 1 .. Len(lines) /\ k \in i + 1 .. j - 1
      BY <1>1, <2>1, <2>3
    <3> QED
      BY <1>1, <3>3, <3>4
  <2> QED
    BY <1>1, <2>2, <2>3
<1>5. \A i \in DOMAIN q : q[i].key \in Options => q[i].arg \in Values
  BY <1>1 DEF Proper, Follows
<1> QED
  BY <1>1, <1>3, <1>4, <1>5 DEF Proper, q

\* A file is one by line.
LEMMA PrefixMore ==
  ASSUME NEW lines \in Seq(Line), NEW i \in 1 .. Len(lines)
  PROVE  /\ SubSeq(lines, 1, i) = Append(SubSeq(lines, 1, i - 1), lines[i])
         /\ SubSeq(lines, 1, i - 1) \in Seq(Line) /\ lines[i] \in Line
<1>1. SubSeq(lines, 1, i) = SubSeq(lines, 1, i - 1) \o <<lines[i]>>
  BY SubSeqRecursiveSecond
<1>2. SubSeq(lines, 1, i - 1) \in Seq(Line) /\ lines[i] \in Line
  OBVIOUS
<1> QED
  BY <1>1, <1>2, AppendIsConcat

LEMMA ProperPrefix ==
  ASSUME NEW lines, Proper(lines), NEW i \in 0 .. Len(lines)
  PROVE  Proper(SubSeq(lines, 1, i))
<1> DEFINE S == {k \in 0 .. Len(lines) : Proper(SubSeq(lines, 1, Len(lines) - k))}
<1>1. lines \in Seq(Line) /\ Len(lines) \in Nat
  BY DEF Proper
<1>2. 0 \in S
  <2>1. SubSeq(lines, 1, Len(lines) - 0) = lines
    BY <1>1
  <2>2. Proper(SubSeq(lines, 1, Len(lines) - 0))
    BY <2>1
  <2> QED
    BY <1>1, <2>2
<1>3. ASSUME NEW k \in 0 .. Len(lines) - 1, k \in S PROVE k + 1 \in S
  <2> DEFINE j == Len(lines) - k
  <2>1. j \in 1 .. Len(lines) /\ Len(lines) - (k + 1) = j - 1
    BY <1>1
  <2>2. Proper(SubSeq(lines, 1, j))
    BY <1>3
  <2> HIDE DEF j
  <2>3. Proper(SubSeq(lines, 1, j - 1))
    <3> DEFINE q == SubSeq(lines, 1, j - 1)
    <3>1. SubSeq(lines, 1, j) = Append(q, lines[j]) /\ q \in Seq(Line) /\ lines[j] \in Line
      BY <1>1, <2>1, PrefixMore
    <3> HIDE DEF q
    <3>2. Proper(Append(q, lines[j]))
      BY <2>2, <3>1
    <3>3. Proper(q)
      BY <3>1, <3>2, ProperLess
    <3> QED
      BY <3>3 DEF q
  <2> QED
    BY <1>1, <2>1, <2>3
<1> HIDE DEF S
<1>4. 0 .. Len(lines) \subseteq S
  BY <1>1, <1>2, <1>3, AllRounds
<1>5. Len(lines) - i \in S /\ Len(lines) - (Len(lines) - i) = i
  BY <1>1, <1>4
<1> QED
  BY <1>5 DEF S

-----------------------------------------------------------------------------
(* The rewriting loop.                                                       *)

CopyState == [out : Seq(Line), found : BOOLEAN, text : BOOLEAN]

\* One file says of m what another does.
Same(m, out, lines) ==
  /\ Heads(m, out) = {} <=> Heads(m, lines) = {}
  /\ IsUp(m, out) <=> IsUp(m, lines)
  /\ Open(m, out) <=> Open(m, lines)
  /\ Body(m, out) = Body(m, lines)

\* What is copied of the lines says of the others what they say.
CopyOK(n, lines, s) ==
  /\ s \in CopyState /\ Proper(s.out)
  /\ s.found <=> Open(n, lines)
  /\ Heads(n, s.out) = {} /\ ~ IsUp(n, s.out)
  /\ \A m : m # n => Same(m, s.out, lines)
  /\ \A m : Open(m, s.out) => s.text

LEMMA SameMore ==
  ASSUME NEW out, Proper(out), NEW lines, Proper(lines), NEW l \in Line, Follows(l, lines),
         NEW m, Same(m, out, lines)
  PROVE  Same(m, Append(out, l), Append(lines, l))
<1>0. out \in Seq(Line) /\ lines \in Seq(Line) /\ OneStanza(out) /\ OneStanza(lines)
  BY DEF Proper
<1>1. IsUp(m, Append(out, l)) <=> IsUp(m, Append(lines, l))
  BY <1>0, HeadsMore DEF Same
<1>2. CASE IsHead(m, l)
  <2>1. Heads(m, lines) = {} /\ Heads(m, out) = {}
    BY <1>2 DEF Follows, IsHead, Same
  <2>2. Heads(m, Append(out, l)) # {} /\ Heads(m, Append(lines, l)) # {}
    BY <1>0, <1>2, HeadsMore
  <2> QED
    BY <1>0, <1>1, <1>2, <2>1, <2>2, BodyBegins DEF Same
<1>3. CASE ~ IsHead(m, l)
  <2>1. Heads(m, Append(out, l)) = Heads(m, out) /\ Heads(m, Append(lines, l)) = Heads(m, lines)
    BY <1>0, <1>3, HeadsMore
  <2>2. Open(m, Append(out, l)) <=> Open(m, Append(lines, l))
    BY <1>0, <1>3, OpenMore DEF Same
  <2>3. Body(m, Append(out, l)) = Body(m, Append(lines, l))
    BY <1>0, <1>3, BodyMore DEF Same
  <2> QED
    BY <1>1, <2>1, <2>2, <2>3 DEF Same
<1> QED
  BY <1>2, <1>3

LEMMA SameSkip ==
  ASSUME NEW out, NEW lines, Proper(lines), NEW l \in Line,
         NEW m, Same(m, out, lines), ~ IsHead(m, l), ~ IsAuto(m, l), ~ Open(m, lines)
  PROVE  Same(m, out, Append(lines, l))
<1>0. lines \in Seq(Line) /\ OneStanza(lines)
  BY DEF Proper
<1>1. IsUp(m, Append(lines, l)) <=> IsUp(m, lines)
  BY <1>0, HeadsMore
<1>2. Heads(m, Append(lines, l)) = Heads(m, lines)
  BY <1>0, HeadsMore
<1>3. Open(m, Append(lines, l)) <=> Open(m, lines)
  BY <1>0, OpenMore
<1>4. Body(m, Append(lines, l)) = Body(m, lines)
  BY <1>0, BodyMore
<1> QED
  BY <1>1, <1>2, <1>3, <1>4 DEF Same

\* A round.
LEMMA CopyRound ==
  ASSUME NEW n, NEW lines \in Seq(Line), NEW l \in Line, Proper(Append(lines, l)),
         NEW s, CopyOK(n, lines, s)
  PROVE  CopyOK(n, Append(lines, l), CopyLine(n, s, l))
<1>0. Proper(lines) /\ Follows(l, lines)
  BY ProperLess
<1>1. s \in CopyState /\ s.out \in Seq(Line) /\ s.found \in BOOLEAN /\ s.text \in BOOLEAN
  BY DEF CopyOK, CopyState
<1>2. CASE s.found
  <2> DEFINE t == [s EXCEPT !.text = FALSE, !.found = l.key # "blank"]
  <2>1. CopyLine(n, s, l) = t
    BY <1>2 DEF CopyLine
  <2>2. t \in CopyState /\ t.out = s.out /\ t.text = FALSE /\ (t.found <=> l.key # "blank")
    BY <1>1 DEF CopyState
  <2> HIDE DEF t
  <2>3. Open(n, lines)
    BY <1>2 DEF CopyOK
  <2>4. l.key \notin {"auto", "iface"}
    BY <1>0, <2>3 DEF Follows
  <2>5. \A m : ~ IsHead(m, l) /\ ~ IsAuto(m, l)
    BY <2>4 DEF IsHead, IsAuto
  <2>6. t.found <=> Open(n, Append(lines, l))
    BY <1>0, <2>2, <2>3, <2>5, OpenMore DEF Proper
  <2>7. ASSUME NEW m, m # n PROVE ~ Open(m, lines) /\ Same(m, s.out, Append(lines, l))
    <3>1. ~ Open(m, lines)
      BY <1>0, <2>3, <2>7, OneOpen
    <3> QED
      BY <1>0, <2>5, <2>7, <3>1, SameSkip DEF CopyOK
  <2>8. ASSUME NEW m, Open(m, s.out) PROVE FALSE
    <3>1. m # n
      BY <2>8 DEF CopyOK, Open
    <3> QED
      BY <2>7, <2>8, <3>1 DEF CopyOK, Same
  <2> QED
    BY <2>1, <2>2, <2>6, <2>7, <2>8 DEF CopyOK
<1>3. CASE ~ s.found /\ l.key \in {"auto", "iface"} /\ l.arg = n
  <2> DEFINE t == CopyLine(n, s, l)
  <2>1. t = IF l.key = "auto" THEN [s EXCEPT !.text = TRUE]
            ELSE [s EXCEPT !.text = TRUE, !.found = TRUE]
    <3>1. CASE l.key = "auto"
      BY <1>3, <3>1 DEF CopyLine
    <3>2. CASE l.key = "iface"
      BY <1>3, <3>2 DEF CopyLine
    <3> QED
      BY <1>3, <3>1, <3>2
  <2>2. t \in CopyState /\ t.out = s.out /\ t.text = TRUE /\ (t.found <=> l.key = "iface")
    BY <1>1, <1>3, <2>1 DEF CopyState
  <2> HIDE DEF t
  <2>3. \A m : ~ Open(m, lines)
    BY <1>0, <1>3 DEF Follows
  <2>4. t.found <=> Open(n, Append(lines, l))
    <3>1. CASE l.key = "iface"
      <4>1. IsHead(n, l) /\ Heads(n, lines) = {}
        BY <1>0, <1>3, <3>1 DEF IsHead, Follows
      <4> QED
        BY <3>1, <4>1, <2>2, BodyBegins
    <3>2. CASE l.key = "auto"
      <4>1. ~ IsHead(n, l)
        BY <3>2 DEF IsHead
      <4> QED
        BY <3>2, <4>1, <2>2, <2>3, OpenMore
    <3> QED
      BY <1>3, <3>1, <3>2
  <2>5. ASSUME NEW m, m # n PROVE Same(m, s.out, Append(lines, l))
    <3>1. ~ IsHead(m, l) /\ ~ IsAuto(m, l)
      BY <1>3, <2>5 DEF IsHead, IsAuto
    <3> QED
      BY <1>0, <2>3, <2>5, <3>1, SameSkip DEF CopyOK
  <2>6. CopyOK(n, Append(lines, l), t)
    BY <2>2, <2>4, <2>5 DEF CopyOK
  <2> QED
    BY <2>6 DEF t
<1>4. CASE ~ s.found /\ ~ (l.key \in {"auto", "iface"} /\ l.arg = n)
  <2> DEFINE t == [s EXCEPT !.text = l.key # "blank", !.out = Append(@, l)]
  <2>1. CopyLine(n, s, l) = t
    BY <1>4 DEF CopyLine
  <2>2. /\ t \in CopyState /\ t.out = Append(s.out, l) /\ t.found = s.found
        /\ t.text = (l.key # "blank")
    <3>1. Append(s.out, l) \in Seq(Line) /\ (l.key # "blank") \in BOOLEAN
      BY <1>1
    <3> QED
      BY <1>1, <3>1 DEF CopyState
  <2> HIDE DEF t
  <2>3. ~ IsHead(n, l) /\ ~ IsAuto(n, l)
    BY <1>4 DEF IsHead, IsAuto
  <2>4. Proper(s.out)
    BY DEF CopyOK
  <2>5. Heads(n, t.out) = {} /\ ~ IsUp(n, t.out)
    BY <1>1, <2>2, <2>3, HeadsMore DEF CopyOK
  <2>6. ~ Open(n, Append(lines, l))
    BY <1>4, <2>3, OpenMore DEF CopyOK
  <2>7. \A m : m # n => Same(m, t.out, Append(lines, l))
    BY <1>0, <2>2, <2>4, SameMore DEF CopyOK
  <2>8. Follows(l, s.out)
    <3>1. \A m : m # n => Same(m, s.out, lines)
      BY DEF CopyOK
    <3>2. ~ Open(n, s.out)
      BY DEF CopyOK, Open
    <3>3. l.key \in {"auto", "iface"} => l.arg # n /\ \A m : ~ Open(m, s.out)
      BY <1>0, <1>4, <3>1, <3>2 DEF Follows, Same
    <3> QED
      BY <1>0, <3>1, <3>3 DEF Follows, Same
  <2>9. Proper(t.out)
    BY <2>2, <2>4, <2>8, ProperMore
  <2>10. ASSUME NEW m, Open(m, t.out), l.key = "blank" PROVE FALSE
    <3>1. ~ IsHead(m, l)
      BY <2>10 DEF IsHead
    <3> QED
      BY <1>1, <2>2, <2>10, <3>1, OpenMore
  <2> QED
    BY <1>4, <2>1, <2>2, <2>5, <2>6, <2>7, <2>9, <2>10 DEF CopyOK
<1> QED
  BY <1>1, <1>2, <1>3, <1>4

LEMMA CopyType ==
  ASSUME NEW n, NEW s \in CopyState, NEW l \in Line
  PROVE  CopyLine(n, s, l) \in CopyState
<1>1. s.out \in Seq(Line) /\ Append(s.out, l) \in Seq(Line)
  BY DEF CopyState
<1>2. (l.key # "blank") \in BOOLEAN
  OBVIOUS
<1>3. [s EXCEPT !.text = FALSE, !.found = l.key # "blank"] \in CopyState
  BY <1>2 DEF CopyState
<1>4. [s EXCEPT !.text = TRUE] \in CopyState
  BY DEF CopyState
<1>5. [s EXCEPT !.text = TRUE, !.found = TRUE] \in CopyState
  BY DEF CopyState
<1>6. [s EXCEPT !.text = l.key # "blank", !.out = Append(@, l)] \in CopyState
  BY <1>1, <1>2 DEF CopyState
<1> QED
  BY <1>3, <1>4, <1>5, <1>6 DEF CopyLine

LEMMA CopyRuns ==
  ASSUME NEW n, NEW lines \in Seq(Line), NEW v0 \in BOOLEAN
  PROVE  LET s == Copying(n, lines, v0) IN
         /\ s[0] = [out |-> <<>>, found |-> FALSE, text |-> v0]
         /\ \A i \in 1 .. Len(lines) : s[i] = CopyLine(n, s[i - 1], lines[i])
<1> DEFINE x0 == [out |-> <<>>, found |-> FALSE, text |-> v0]
           N == Len(lines)
           F == [i \in 1 .. N |-> [x \in CopyState |-> CopyLine(n, x, lines[i])]]
           Is(s) == s = [i \in 0 .. N |-> IF i = 0 THEN x0 ELSE CopyLine(n, s[i - 1], lines[i])]
<1>1. x0 \in CopyState /\ N \in Nat
  BY DEF CopyState
<1>2. F \in [1 .. N -> [CopyState -> CopyState]]
  <2> SUFFICES ASSUME NEW i \in 1 .. N, NEW x \in CopyState
               PROVE  CopyLine(n, x, lines[i]) \in CopyState
    OBVIOUS
  <2>1. lines[i] \in Line
    OBVIOUS
  <2> QED
    BY <2>1, CopyType
<1>3. \A i \in 1 .. N, x \in CopyState : F[i][x] = CopyLine(n, x, lines[i])
  OBVIOUS
<1>4. PICK s : Loop(N, CopyState, x0, F, s)
  <2> HIDE DEF F, x0, N
  <2> QED
    BY <1>1, <1>2, LoopRuns
<1>5. \A i \in 1 .. N : s[i] = CopyLine(n, s[i - 1], lines[i])
  <2> SUFFICES ASSUME NEW i \in 1 .. N PROVE s[i] = CopyLine(n, s[i - 1], lines[i])
    OBVIOUS
  <2>1. i - 1 \in 0 .. N
    BY <1>1
  <2>2. s[i - 1] \in CopyState
    BY <2>1, <1>4 DEF Loop
  <2> HIDE DEF F
  <2> QED
    BY <2>2, <1>3, <1>4 DEF Loop
<1>6. Is(s)
  <2> HIDE DEF x0, F
  <2>1. \A i \in 0 .. N : s[i] = IF i = 0 THEN x0 ELSE CopyLine(n, s[i - 1], lines[i])
    BY <1>1, <1>4, <1>5 DEF Loop
  <2> QED
    BY <1>4, <2>1 DEF Loop
<1>7. \E t : Is(t)
  <2> HIDE DEF Is
  <2> QED
    BY <1>6
<1>8. Copying(n, lines, v0) = CHOOSE t : Is(t)
  BY DEF Copying
<1>9. Is(Copying(n, lines, v0))
  <2> HIDE DEF Is
  <2> QED
    BY <1>7, <1>8, Zenon
<1>10. \A i \in 1 .. N : i \in 0 .. N /\ i # 0
  BY <1>1
<1> HIDE DEF x0
<1>11. /\ Copying(n, lines, v0)[0] = x0
       /\ \A i \in 1 .. N :
            Copying(n, lines, v0)[i] = CopyLine(n, Copying(n, lines, v0)[i - 1], lines[i])
  BY <1>1, <1>9, <1>10
<1> QED
  BY <1>11 DEF x0

\* After the whole loop.
LEMMA CopyResult ==
  ASSUME NEW n, NEW lines, Proper(lines), NEW v0 \in BOOLEAN
  PROVE  CopyOK(n, lines, Copying(n, lines, v0)[Len(lines)])
<1> DEFINE s == Copying(n, lines, v0)
           p(i) == SubSeq(lines, 1, i)
           S == {i \in 0 .. Len(lines) : CopyOK(n, p(i), s[i])}
<1>1. lines \in Seq(Line) /\ Len(lines) \in Nat
  BY DEF Proper
<1>2. /\ s[0] = [out |-> <<>>, found |-> FALSE, text |-> v0]
      /\ \A i \in 1 .. Len(lines) : s[i] = CopyLine(n, s[i - 1], lines[i])
  BY <1>1, CopyRuns
<1> HIDE DEF s
<1>3. CopyOK(n, p(0), s[0])
  <2>1. p(0) = <<>>
    BY <1>1
  <2>2. s[0] \in CopyState /\ s[0].out = <<>> /\ s[0].found = FALSE
    BY <1>2 DEF CopyState
  <2>3. Proper(<<>>)
    BY DEF Proper, OneStanza, Apart
  <2>4. \A m : Heads(m, <<>>) = {} /\ ~ IsUp(m, <<>>) /\ ~ Open(m, <<>>)
    BY DEF Heads, IsUp, Open
  <2> QED
    BY <2>1, <2>2, <2>3, <2>4 DEF CopyOK, Same
<1>4. ASSUME NEW i \in 0 .. Len(lines) - 1, CopyOK(n, p(i), s[i])
      PROVE  CopyOK(n, p(i + 1), s[i + 1])
  <2>1. i + 1 \in 1 .. Len(lines) /\ (i + 1) - 1 = i /\ i + 1 \in 0 .. Len(lines)
    BY <1>1
  <2>2. p(i + 1) = Append(p(i), lines[i + 1]) /\ p(i) \in Seq(Line) /\ lines[i + 1] \in Line
    BY <1>1, <2>1, PrefixMore
  <2>3. Proper(p(i + 1))
    BY <2>1, ProperPrefix
  <2>4. s[i + 1] = CopyLine(n, s[i], lines[i + 1])
    BY <1>2, <2>1
  <2> HIDE DEF p
  <2>5. CopyOK(n, Append(p(i), lines[i + 1]), CopyLine(n, s[i], lines[i + 1]))
    BY <1>4, <2>2, <2>3, CopyRound
  <2> QED
    BY <2>2, <2>4, <2>5
<1>5. Len(lines) \in S
  <2>1. 0 \in S
    BY <1>1, <1>3
  <2>2. \A i \in 0 .. Len(lines) - 1 : i \in S => i + 1 \in S
    BY <1>1, <1>4
  <2> HIDE DEF S
  <2>3. 0 .. Len(lines) \subseteq S
    BY <1>1, <2>1, <2>2, AllRounds
  <2> QED
    BY <1>1, <2>3
<1>6. p(Len(lines)) = lines
  BY <1>1
<1>7. CopyOK(n, p(Len(lines)), s[Len(lines)])
  BY <1>5
<1> QED
  BY <1>6, <1>7 DEF s

\* What the loop leaves: nothing of n, what the others had, and an end.
LEMMA OthersKeep ==
  ASSUME NEW n, NEW lines, Proper(lines), NEW v0 \in BOOLEAN
  PROVE  LET q == Others(n, lines, v0) IN
         /\ Proper(q) /\ Heads(n, q) = {} /\ ~ IsUp(n, q)
         /\ \A m : ~ Open(m, q)
         /\ \A m : m # n => /\ Body(m, q) = Body(m, lines)
                            /\ IsUp(m, q) <=> IsUp(m, lines)
<1> DEFINE s == Copying(n, lines, v0)[Len(lines)]
           q == Others(n, lines, v0)
<1>1. CopyOK(n, lines, s)
  BY CopyResult
<1>2. q = IF s.text THEN Append(s.out, Blank) ELSE s.out
  BY DEF Others
<1> HIDE DEF s, q
<1>3. Blank \in Line /\ Blank.key = "blank" /\ Follows(Blank, s.out)
  BY DEF Blank, Line, Follows, Options, Address, Radio
<1>4. s.out \in Seq(Line) /\ Proper(s.out) /\ OneStanza(s.out)
  BY <1>1 DEF CopyOK, Proper
<1>5. CASE s.text
  <2>1. q = Append(s.out, Blank)
    BY <1>2, <1>5
  <2>2. \A m : ~ IsHead(m, Blank) /\ ~ IsAuto(m, Blank)
    BY <1>3 DEF IsHead, IsAuto
  <2>3. \A m : Heads(m, q) = Heads(m, s.out) /\ (IsUp(m, q) <=> IsUp(m, s.out))
    BY <1>3, <1>4, <2>1, <2>2, HeadsMore
  <2>4. \A m : ~ Open(m, q)
    BY <1>3, <1>4, <2>1, <2>2, OpenMore
  <2>5. \A m : Body(m, q) = Body(m, s.out)
    BY <1>3, <1>4, <2>1, <2>2, BodyMore
  <2>6. Proper(q)
    BY <1>3, <1>4, <2>1, ProperMore
  <2> QED
    BY <1>1, <2>3, <2>4, <2>5, <2>6 DEF CopyOK, Same, q
<1>6. CASE ~ s.text
  <2>1. q = s.out
    BY <1>2, <1>6
  <2> QED
    BY <1>1, <1>6, <2>1 DEF CopyOK, Same, q
<1> QED
  BY <1>5, <1>6

-----------------------------------------------------------------------------
(* What is written behind them.                                              *)

Elements(s) == {s[i] : i \in DOMAIN s}

LEMMA Joined ==
  ASSUME NEW s \in Seq(Line), NEW t \in Seq(Line)
  PROVE  s \o t \in Seq(Line) /\ Elements(s \o t) = Elements(s) \cup Elements(t)
<1> DEFINE u == s \o t
<1>1. /\ u \in Seq(Line) /\ DOMAIN u = 1 .. Len(s) + Len(t)
      /\ DOMAIN s = 1 .. Len(s) /\ DOMAIN t = 1 .. Len(t)
      /\ Len(s) \in Nat /\ Len(t) \in Nat
      /\ \A i \in 1 .. Len(s) : u[i] = s[i]
      /\ \A i \in 1 .. Len(t) : u[Len(s) + i] = t[i]
  OBVIOUS
<1>2. \A i \in DOMAIN u : i \in 1 .. Len(s) \/ i - Len(s) \in 1 .. Len(t)
  BY <1>1
<1>3. \A i \in DOMAIN u : Len(s) + (i - Len(s)) = i
  BY <1>1
<1>4. \A i \in 1 .. Len(t) : Len(s) + i \in DOMAIN u
  BY <1>1
<1>5. \A i \in 1 .. Len(s) : i \in DOMAIN u
  BY <1>1
<1> HIDE DEF u
<1>6. Elements(u) \subseteq Elements(s) \cup Elements(t)
  <2> SUFFICES ASSUME NEW i \in DOMAIN u PROVE u[i] \in Elements(s) \cup Elements(t)
    BY DEF Elements
  <2>1. CASE i \in 1 .. Len(s)
    BY <1>1, <2>1 DEF Elements
  <2>2. CASE i - Len(s) \in 1 .. Len(t)
    <3>1. u[i] = t[i - Len(s)]
      BY <1>1, <1>3, <2>2
    <3> QED
      BY <1>1, <2>2, <3>1 DEF Elements
  <2> QED
    BY <1>2, <2>1, <2>2
<1>7. Elements(s) \subseteq Elements(u)
  BY <1>1, <1>5 DEF Elements
<1>8. Elements(t) \subseteq Elements(u)
  <2> SUFFICES ASSUME NEW i \in DOMAIN t PROVE t[i] \in Elements(u)
    BY DEF Elements
  <2>1. u[Len(s) + i] = t[i] /\ Len(s) + i \in DOMAIN u
    BY <1>1, <1>4
  <2> QED
    BY <2>1 DEF Elements
<1> QED
  BY <1>1, <1>6, <1>7, <1>8 DEF u

\* (To the provers one operator more, of which no more is known than this.)
Joins(s, t) == s \o t
Lines       == Seq(Line)

LEMMA Regrouped ==
  ASSUME NEW s \in Lines, NEW t \in Lines, NEW u \in Lines
  PROVE  Joins(Joins(s, t), u) = Joins(s, Joins(t, u)) /\ Joins(s, t) \in Lines
BY DEF Joins, Lines

Written(o, set, wifi) ==
  /\ set.opt[o] # Null
  /\ IF o \in Radio THEN wifi ELSE ~ set.dhcp

OptionLine(o, set) == [key |-> o, arg |-> set.opt[o], how |-> Null]
AutoLine(n)        == [key |-> "auto", arg |-> n, how |-> Null]
HeadLine(n, set)   ==
  [key |-> "iface", arg |-> n, how |-> IF set.dhcp THEN "dhcp" ELSE "static"]

\* A stanza is its two first lines and a line of each option that is written.
OptionsOf(opts, set, wifi) ==
  /\ opts \in Seq(Line)
  /\ Elements(opts) = {OptionLine(o, set) : o \in {x \in Options : Written(x, set, wifi)}}

LEMMA StanzaLines ==
  ASSUME NEW n \in Names, NEW set \in Settings
  PROVE  /\ AutoLine(n) \in Line /\ HeadLine(n, set) \in Line
         /\ \A o \in Options : set.opt[o] \in Values \cup {Null}
         /\ \A o \in Options : set.opt[o] # Null => OptionLine(o, set) \in Line
<1>1. \A o \in Options : set.opt[o] \in Values \cup {Null}
  BY DEF Settings
<1>2. AutoLine(n) \in Line
  BY DEF AutoLine, Line
<1>3. HeadLine(n, set) \in Line
  BY DEF HeadLine, Line
<1>4. \A o \in Options : set.opt[o] # Null => OptionLine(o, set) \in Line
  BY <1>1 DEF OptionLine, Line
<1> QED
  BY <1>1, <1>2, <1>3, <1>4

LEMMA StanzaIs ==
  ASSUME NEW n \in Names, NEW set \in Settings, NEW wifi \in BOOLEAN
  PROVE  \E opts : /\ OptionsOf(opts, set, wifi)
                   /\ Stanza(n, set, wifi) = <<AutoLine(n), HeadLine(n, set)>> \o opts
<1> DEFINE L(o) == IF Written(o, set, wifi) THEN <<OptionLine(o, set)>> ELSE <<>>
           H  == <<AutoLine(n), HeadLine(n, set)>>
           l1 == L("address")
           l2 == L("netmask")
           l3 == L("gateway")
           l4 == L("wireless-mode")
           l5 == L("wireless-essid")
           l6 == L("wireless-key")
           p2 == l1 \o l2
           p3 == p2 \o l3
           p4 == p3 \o l4
           p5 == p4 \o l5
           p6 == p5 \o l6
           W  == {x \in Options : Written(x, set, wifi)}
           E(o) == {OptionLine(x, set) : x \in W \cap {o}}
<1>1. H \in Seq(Line)
  BY StanzaLines
<1>2. ASSUME NEW o \in Options PROVE L(o) \in Seq(Line) /\ Elements(L(o)) = E(o)
  <2>1. CASE Written(o, set, wifi)
    <3>1. OptionLine(o, set) \in Line
      BY <2>1, StanzaLines DEF Written
    <3>2. L(o) = <<OptionLine(o, set)>> /\ W \cap {o} = {o}
      BY <2>1
    <3>3. Elements(<<OptionLine(o, set)>>) = {OptionLine(o, set)}
      BY DEF Elements
    <3> HIDE DEF L, W
    <3> QED
      BY <3>1, <3>2, <3>3
  <2>2. CASE ~ Written(o, set, wifi)
    <3>1. L(o) = <<>> /\ W \cap {o} = {}
      BY <2>2
    <3>2. Elements(<<>>) = {}
      BY DEF Elements
    <3> HIDE DEF L, W
    <3> QED
      BY <3>1, <3>2
  <2> QED
    BY <2>1, <2>2
<1>3. Stanza(n, set, wifi) = (((((H \o l1) \o l2) \o l3) \o l4) \o l5) \o l6
  BY DEF Stanza, Written, OptionLine, AutoLine, HeadLine
<1>4. Options = {"address", "netmask", "gateway"} \cup
                {"wireless-mode", "wireless-essid", "wireless-key"}
  BY DEF Options, Address, Radio
<1> HIDE DEF L, H
<1>5. /\ l1 \in Seq(Line) /\ l2 \in Seq(Line) /\ l3 \in Seq(Line)
      /\ l4 \in Seq(Line) /\ l5 \in Seq(Line) /\ l6 \in Seq(Line)
  BY <1>2, <1>4
<1>6. /\ Elements(l1) = E("address") /\ Elements(l2) = E("netmask")
      /\ Elements(l3) = E("gateway") /\ Elements(l4) = E("wireless-mode")
      /\ Elements(l5) = E("wireless-essid") /\ Elements(l6) = E("wireless-key")
  BY <1>2, <1>4
<1> HIDE DEF l1, l2, l3, l4, l5, l6, E
<1>7. p2 \in Seq(Line) /\ Elements(p2) = Elements(l1) \cup Elements(l2)
  BY <1>5, Joined
<1>8. p3 \in Seq(Line) /\ Elements(p3) = Elements(p2) \cup Elements(l3)
  BY <1>5, <1>7, Joined
<1>9. p4 \in Seq(Line) /\ Elements(p4) = Elements(p3) \cup Elements(l4)
  BY <1>5, <1>8, Joined
<1>10. p5 \in Seq(Line) /\ Elements(p5) = Elements(p4) \cup Elements(l5)
  BY <1>5, <1>9, Joined
<1>11. p6 \in Seq(Line) /\ Elements(p6) = Elements(p5) \cup Elements(l6)
  BY <1>5, <1>10, Joined
<1>12. Stanza(n, set, wifi) = H \o p6
  <2>1. Stanza(n, set, wifi) =
          Joins(Joins(Joins(Joins(Joins(Joins(H, l1), l2), l3), l4), l5), l6)
    BY <1>3, Zenon DEF Joins
  <2>2. /\ p2 = Joins(l1, l2) /\ p3 = Joins(p2, l3) /\ p4 = Joins(p3, l4)
        /\ p5 = Joins(p4, l5) /\ p6 = Joins(p5, l6) /\ H \o p6 = Joins(H, p6)
    BY Zenon DEF Joins
  <2> HIDE DEF p2, p3, p4, p5, p6
  <2>3. /\ H \in Lines /\ l1 \in Lines /\ l2 \in Lines /\ l3 \in Lines
        /\ l4 \in Lines /\ l5 \in Lines /\ l6 \in Lines
        /\ p2 \in Lines /\ p3 \in Lines /\ p4 \in Lines /\ p5 \in Lines
    BY <1>1, <1>5, <1>7, <1>8, <1>9, <1>10 DEF Lines
  <2>4. Joins(Joins(H, l1), l2) = Joins(H, p2)
    BY <2>2, <2>3, Regrouped
  <2>5. Joins(Joins(H, p2), l3) = Joins(H, p3)
    BY <2>2, <2>3, Regrouped
  <2>6. Joins(Joins(H, p3), l4) = Joins(H, p4)
    BY <2>2, <2>3, Regrouped
  <2>7. Joins(Joins(H, p4), l5) = Joins(H, p5)
    BY <2>2, <2>3, Regrouped
  <2>8. Joins(Joins(H, p5), l6) = Joins(H, p6)
    BY <2>2, <2>3, Regrouped
  <2> QED
    BY <2>1, <2>2, <2>4, <2>5, <2>6, <2>7, <2>8
<1>13. Elements(p6) = {OptionLine(o, set) : o \in W}
  <2> HIDE DEF p2, p3, p4, p5, p6
  <2>1. Elements(p6) = E("address") \cup E("netmask") \cup E("gateway")
          \cup E("wireless-mode") \cup E("wireless-essid") \cup E("wireless-key")
    BY <1>6, <1>7, <1>8, <1>9, <1>10, <1>11
  <2>2. \A o \in W : o \in {"address", "netmask", "gateway"} \cup
                {"wireless-mode", "wireless-essid", "wireless-key"}
    BY <1>4
  <2> HIDE DEF W
  <2> QED
    BY <2>1, <2>2 DEF E
<1> HIDE DEF p6
<1> QED
  BY <1>11, <1>12, <1>13 DEF OptionsOf, H

\* An option at the end belongs to the stanza that is open.
LEMMA StanzaGrows ==
  ASSUME NEW n, NEW r, Proper(r), Open(n, r), NEW l \in Line,
         l.key \in Options, l.arg \in Values
  PROVE  LET q == Append(r, l) IN
         /\ Proper(q) /\ Open(n, q)
         /\ Body(n, q) = Append(Body(n, r), l)
         /\ IsUp(n, r) => IsUp(n, q)
         /\ \A out, m : m # n /\ Same(m, out, r) => Same(m, out, q)
<1> DEFINE q == Append(r, l)
<1>1. r \in Seq(Line) /\ OneStanza(r)
  BY DEF Proper
<1>2. l.key \notin {"auto", "iface", "blank"}
  BY DEF Options, Address, Radio
<1>3. Follows(l, r)
  BY <1>2 DEF Follows
<1>4. \A m : ~ IsHead(m, l) /\ ~ IsAuto(m, l)
  BY <1>2 DEF IsHead, IsAuto
<1>5. Proper(q)
  BY <1>3, ProperMore
<1>6. Open(n, q)
  BY <1>1, <1>2, <1>4, OpenMore
<1>7. Body(n, q) = Append(Body(n, r), l)
  BY <1>1, <1>2, <1>4, BodyMore
<1>8. IsUp(n, r) => IsUp(n, q)
  BY <1>1, HeadsMore
<1>9. ASSUME NEW out, NEW m, m # n, Same(m, out, r) PROVE Same(m, out, q)
  <2>1. ~ Open(m, r)
    BY <1>9, OneOpen
  <2> QED
    BY <1>4, <1>9, <2>1, SameSkip
<1> QED
  BY <1>5, <1>6, <1>7, <1>8, <1>9

LEMMA OptionsAre ==
  ASSUME NEW set \in Settings, NEW wifi, NEW opts, OptionsOf(opts, set, wifi),
         NEW i \in DOMAIN opts
  PROVE  \E o \in Options : /\ Written(o, set, wifi)
                            /\ opts[i] = OptionLine(o, set)
                            /\ opts[i] \in Line
                            /\ opts[i].key = o /\ opts[i].arg = set.opt[o]
                            /\ set.opt[o] \in Values
<1>1. opts[i] \in Elements(opts)
  BY DEF Elements
<1>2. PICK o \in {x \in Options : Written(x, set, wifi)} : opts[i] = OptionLine(o, set)
  BY <1>1 DEF OptionsOf
<1>3. set.opt[o] # Null /\ set.opt[o] \in Values \cup {Null}
  BY <1>2 DEF Written, Settings
<1>4. opts[i] \in Line
  BY DEF OptionsOf
<1>5. opts[i].key = o /\ opts[i].arg = set.opt[o]
  BY <1>2 DEF OptionLine
<1> QED
  BY <1>2, <1>3, <1>4, <1>5

\* The file with the new stanza: of n what is written, of the others what was.
LEMMA StanzaAdded ==
  ASSUME NEW n \in Names, NEW q, Proper(q), Heads(n, q) = {}, ~ IsUp(n, q),
         \A m : ~ Open(m, q),
         NEW set \in Settings, NEW wifi \in BOOLEAN
  PROVE  LET new == q \o Stanza(n, set, wifi) IN
         /\ Proper(new)
         /\ Body(n, new) = Tail(Stanza(n, set, wifi)) /\ IsUp(n, new)
         /\ \A m : m # n => Same(m, q, new)
         /\ \E opts : /\ OptionsOf(opts, set, wifi)
                      /\ Tail(Stanza(n, set, wifi)) = <<HeadLine(n, set)>> \o opts
<1>1. PICK opts : /\ OptionsOf(opts, set, wifi)
                  /\ Stanza(n, set, wifi) = <<AutoLine(n), HeadLine(n, set)>> \o opts
  BY StanzaIs
<1>2. opts \in Seq(Line) /\ q \in Seq(Line)
  BY <1>1 DEF OptionsOf, Proper
<1>3. AutoLine(n) \in Line /\ HeadLine(n, set) \in Line
  BY StanzaLines
<1> DEFINE a == AutoLine(n)
           h == HeadLine(n, set)
           q1 == Append(q, a)
           q2 == Append(q1, h)
           r(j) == q2 \o SubSeq(opts, 1, j)
           OK(j) == /\ Proper(r(j)) /\ Open(n, r(j)) /\ IsUp(n, r(j))
                    /\ Body(n, r(j)) = <<h>> \o SubSeq(opts, 1, j)
                    /\ \A m : m # n => Same(m, q, r(j))
<1>4. /\ a.key = "auto" /\ a.arg = n
      /\ h.key = "iface" /\ h.arg = n
  BY DEF AutoLine, HeadLine
<1> HIDE DEF a, h
<1>5. a \in Line /\ h \in Line
  BY <1>3 DEF a, h
<1>6. /\ Proper(q1) /\ IsUp(n, q1) /\ Heads(n, q1) = {}
      /\ \A m : ~ Open(m, q1)
      /\ \A m : m # n => Same(m, q, q1)
  <2>1. Follows(a, q)
    BY <1>4 DEF Follows, Options, Address, Radio
  <2>2. Proper(q1)
    BY <1>5, <2>1, ProperMore
  <2>3. \A m : ~ IsHead(m, a)
    BY <1>4 DEF IsHead
  <2>4. IsAuto(n, a) /\ \A m : m # n => ~ IsAuto(m, a)
    BY <1>4 DEF IsAuto
  <2>5. IsUp(n, q1) /\ Heads(n, q1) = {}
    BY <1>2, <1>5, <2>3, <2>4, HeadsMore
  <2>6. \A m : ~ Open(m, q1)
    BY <1>2, <1>5, <2>3, OpenMore
  <2>7. \A m : Same(m, q, q)
    BY DEF Same
  <2>8. \A m : m # n => Same(m, q, q1)
    BY <1>5, <2>3, <2>4, <2>7, SameSkip
  <2> QED
    BY <2>2, <2>5, <2>6, <2>8
<1>7. q1 \in Seq(Line)
  BY <1>6 DEF Proper
<1> HIDE DEF q1
<1>8. /\ Proper(q2) /\ IsUp(n, q2) /\ Open(n, q2) /\ Body(n, q2) = <<h>>
      /\ \A m : m # n => Same(m, q, q2)
  <2>1. Follows(h, q1)
    BY <1>4, <1>6 DEF Follows, Options, Address, Radio
  <2>2. Proper(q2)
    BY <1>5, <1>6, <2>1, ProperMore
  <2>3. IsHead(n, h) /\ \A m : m # n => ~ IsHead(m, h)
    BY <1>4 DEF IsHead
  <2>4. \A m : ~ IsAuto(m, h)
    BY <1>4 DEF IsAuto
  <2>5. IsUp(n, q2)
    BY <1>5, <1>6, <1>7, HeadsMore
  <2>6. Open(n, q2) /\ Body(n, q2) = <<h>>
    BY <1>5, <1>6, <1>7, <2>3, BodyBegins
  <2>7. \A m : m # n => Same(m, q, q2)
    BY <1>5, <1>6, <2>3, <2>4, SameSkip
  <2> QED
    BY <2>2, <2>5, <2>6, <2>7
<1>9. q2 \in Seq(Line)
  BY <1>8 DEF Proper
<1> HIDE DEF q2
<1>10. OK(0)
  <2>1. SubSeq(opts, 1, 0) = <<>> /\ q2 \o <<>> = q2 /\ <<h>> \o <<>> = <<h>>
    BY <1>2, <1>5, <1>9
  <2>2. r(0) = q2 /\ <<h>> \o SubSeq(opts, 1, 0) = <<h>>
    BY <2>1
  <2> HIDE DEF r
  <2> QED
    BY <1>8, <2>2
<1>11. ASSUME NEW j \in 0 .. Len(opts) - 1, OK(j) PROVE OK(j + 1)
  <2> DEFINE l == opts[j + 1]
             s == SubSeq(opts, 1, j)
  <2>1. j + 1 \in 1 .. Len(opts) /\ (j + 1) - 1 = j /\ j + 1 \in DOMAIN opts
    BY <1>2
  <2>2. SubSeq(opts, 1, j + 1) = Append(s, l) /\ s \in Seq(Line) /\ l \in Line
    BY <1>2, <2>1, PrefixMore
  <2>3. l.key \in Options /\ l.arg \in Values
    BY <1>1, <2>1, OptionsAre
  <2> HIDE DEF l, s
  <2>4. q2 \o Append(s, l) = Append(q2 \o s, l)
    BY <1>9, <2>2
  <2>5. <<h>> \o Append(s, l) = Append(<<h>> \o s, l)
    BY <1>5, <2>2
  <2>6. r(j + 1) = Append(r(j), l)
    BY <2>2, <2>4 DEF s
  <2>7. <<h>> \o SubSeq(opts, 1, j + 1) = Append(<<h>> \o SubSeq(opts, 1, j), l)
    BY <2>2, <2>5 DEF s
  <2> HIDE DEF r
  <2>8. /\ Proper(Append(r(j), l)) /\ Open(n, Append(r(j), l)) /\ IsUp(n, Append(r(j), l))
        /\ Body(n, Append(r(j), l)) = Append(Body(n, r(j)), l)
        /\ \A m : m # n => Same(m, q, Append(r(j), l))
    BY <1>11, <2>2, <2>3, StanzaGrows
  <2> QED
    BY <1>11, <2>6, <2>7, <2>8
<1>12. OK(Len(opts))
  <2> DEFINE S == {j \in 0 .. Len(opts) : OK(j)}
  <2>1. Len(opts) \in Nat
    BY <1>2
  <2> HIDE DEF OK
  <2>2. 0 \in S
    BY <1>10, <2>1
  <2>3. \A j \in 0 .. Len(opts) - 1 : j \in S => j + 1 \in S
    BY <1>11, <2>1
  <2> HIDE DEF S
  <2>4. 0 .. Len(opts) \subseteq S
    BY <2>1, <2>2, <2>3, AllRounds
  <2> QED
    BY <2>1, <2>4 DEF S
<1>13. SubSeq(opts, 1, Len(opts)) = opts
  BY <1>2
<1>14. q \o (<<a, h>> \o opts) = q2 \o opts
  <2>1. <<a, h>> \in Seq(Line)
    BY <1>5
  <2>2. (q \o <<a, h>>) \o opts = q \o (<<a, h>> \o opts)
    BY <1>2, <2>1, Regrouped DEF Joins, Lines
  <2>3. q2 = q \o <<a, h>>
    BY <1>2, <1>5 DEF q1, q2
  <2> QED
    BY <2>2, <2>3
<1>15. Tail(<<a, h>> \o opts) = <<h>> \o opts
  BY <1>2, <1>5
<1>16. r(Len(opts)) = q \o Stanza(n, set, wifi)
  BY <1>1, <1>13, <1>14 DEF a, h
<1>17. Tail(Stanza(n, set, wifi)) = <<h>> \o opts
  BY <1>1, <1>15 DEF a, h
<1> HIDE DEF r
<1> QED
  BY <1>1, <1>12, <1>13, <1>16, <1>17 DEF h

\* new says of n what is written, and of the others what lines says of them.
Replaces(new, n, lines, set, wifi) ==
  /\ Proper(new)
  /\ Row(n, new) = [body |-> Tail(Stanza(n, set, wifi)), up |-> TRUE]
  /\ \A m : m # n => Row(m, new) = Row(m, lines)
  /\ \E opts : /\ OptionsOf(opts, set, wifi)
               /\ Body(n, new) = <<HeadLine(n, set)>> \o opts

\* A rewriting gives n what is written, and leaves the others what they had.
LEMMA Rewritten ==
  ASSUME NEW n \in Names, NEW lines, Proper(lines), NEW set \in Settings,
         NEW wifi \in BOOLEAN, NEW v0 \in BOOLEAN
  PROVE  Replaces(Others(n, lines, v0) \o Stanza(n, set, wifi), n, lines, set, wifi)
<1> DEFINE q == Others(n, lines, v0)
           new == q \o Stanza(n, set, wifi)
<1>1. /\ Proper(q) /\ Heads(n, q) = {} /\ ~ IsUp(n, q)
      /\ \A m : ~ Open(m, q)
      /\ \A m : m # n => Body(m, q) = Body(m, lines) /\ (IsUp(m, q) <=> IsUp(m, lines))
  BY OthersKeep
<1> HIDE DEF q
<1>2. /\ Proper(new)
      /\ Body(n, new) = Tail(Stanza(n, set, wifi)) /\ IsUp(n, new)
      /\ \A m : m # n => Same(m, q, new)
      /\ \E opts : /\ OptionsOf(opts, set, wifi)
                   /\ Tail(Stanza(n, set, wifi)) = <<HeadLine(n, set)>> \o opts
  BY <1>1, StanzaAdded
<1> HIDE DEF new
<1>3. \A m, f : Row(m, f) = [body |-> Body(m, f), up |-> IsUp(m, f)]
  BY DEF Row, IsUp
<1>4. IsUp(n, new) = TRUE
  BY <1>2 DEF IsUp
<1>5. Row(n, new) = [body |-> Tail(Stanza(n, set, wifi)), up |-> TRUE]
  BY <1>2, <1>3, <1>4
<1>6. ASSUME NEW m, m # n PROVE Row(m, new) = Row(m, lines)
  <2>1. Body(m, new) = Body(m, lines)
    BY <1>1, <1>2, <1>6 DEF Same
  <2>2. IsUp(m, new) <=> IsUp(m, lines)
    BY <1>1, <1>2, <1>6 DEF Same
  <2>3. IsUp(m, new) \in BOOLEAN /\ IsUp(m, lines) \in BOOLEAN
    BY DEF IsUp
  <2>4. IsUp(m, new) = IsUp(m, lines)
    BY <2>2, <2>3
  <2> QED
    BY <1>3, <2>1, <2>4
<1> QED
  BY <1>2, <1>5, <1>6 DEF new, q, Replaces

-----------------------------------------------------------------------------
(* The reading loop.                                                         *)

\* What the last line of option o says.
Said(o, body) ==
  LET of == {i \in DOMAIN body : body[i].key = o}
  IN  IF of = {} THEN Null ELSE FirstWord[body[Max(of)].arg]

ReadState == [found : BOOLEAN, ended : BOOLEAN, set : Settings]

OneWord(v) == v = Null \/ FirstWord[v] = v

\* What has been read of n is what the lines say.
ReadOK(n, lines, s) ==
  /\ s \in ReadState
  /\ s.found <=> Heads(n, lines) # {}
  /\ s.ended <=> s.found /\ ~ Open(n, lines)
  /\ Body(n, lines) \in Seq(Line)
  /\ s.found <=> Body(n, lines) # <<>>
  /\ s.set.dhcp <=> Body(n, lines) # <<>> /\ Head(Body(n, lines)).how = "dhcp"
  /\ \A o \in Options : s.set.opt[o] = Said(o, Body(n, lines))
  /\ \A o \in Options : OneWord(s.set.opt[o])

LEMMA MaxIs ==
  ASSUME NEW S, S \subseteq Int, NEW m \in S, \A y \in S : m >= y
  PROVE  Max(S) = m
<1>1. \E x \in S : \A y \in S : x >= y
  OBVIOUS
<1>2. Max(S) \in S /\ \A y \in S : Max(S) >= y
  BY <1>1, Zenon DEF Max
<1>3. Max(S) \in Int /\ m \in Int /\ Max(S) >= m /\ m >= Max(S)
  BY <1>2
<1> QED
  BY <1>3

LEMMA HasGreatest ==
  ASSUME NEW N \in Nat, NEW S, S \subseteq 1 .. N, S # {}
  PROVE  \E m \in S : \A y \in S : m >= y
<1> DEFINE T == {N - i : i \in S}
<1>1. \A i \in S : i \in 1 .. N /\ N - i \in Nat
  OBVIOUS
<1>2. T \subseteq Nat /\ T # {}
  BY <1>1
<1>3. PICK t \in T : \A k \in T : t <= k
  BY <1>2, HasLeast
<1>4. PICK i \in S : t = N - i
  BY <1>3
<1>5. ASSUME NEW y \in S PROVE i >= y
  <2>1. N - i <= N - y
    BY <1>3, <1>4
  <2> QED
    BY <1>1, <2>1
<1> QED
  BY <1>5

LEMMA SaidMore ==
  ASSUME NEW body \in Seq(Line), NEW l \in Line, NEW o
  PROVE  Said(o, Append(body, l)) = IF l.key = o THEN FirstWord[l.arg] ELSE Said(o, body)
<1> DEFINE q == Append(body, l)
           e == Len(body) + 1
           old == {i \in DOMAIN body : body[i].key = o}
           now == {i \in DOMAIN q : q[i].key = o}
<1>1. /\ DOMAIN q = 1 .. e /\ DOMAIN body = 1 .. Len(body)
      /\ \A i \in 1 .. Len(body) : q[i] = body[i]
      /\ q[e] = l /\ Len(body) \in Nat
  BY LineMore
<1>2. Said(o, q) = IF now = {} THEN Null ELSE FirstWord[q[Max(now)].arg]
  BY DEF Said
<1>3. Said(o, body) = IF old = {} THEN Null ELSE FirstWord[body[Max(old)].arg]
  BY DEF Said
<1> HIDE DEF q
<1>4. CASE l.key = o
  <2>1. e \in now /\ now \subseteq Int /\ \A y \in now : e >= y
    BY <1>1, <1>4
  <2>2. Max(now) = e /\ now # {}
    <3> HIDE DEF now, e
    <3> QED
      BY <2>1, MaxIs
  <2> HIDE DEF now
  <2> QED
    BY <1>1, <1>2, <1>4, <2>2 DEF q
<1>5. CASE l.key # o
  <2>1. now = old
    BY <1>1, <1>5
  <2>2. CASE old = {}
    <3> HIDE DEF old, now
    <3> QED
      BY <1>2, <1>3, <1>5, <2>1, <2>2 DEF q
  <2>3. CASE old # {}
    <3>1. old \subseteq 1 .. Len(body)
      BY <1>1
    <3> HIDE DEF old, now
    <3>2. PICK m \in old : \A y \in old : m >= y
      BY <1>1, <2>3, <3>1, HasGreatest
    <3>0. old \subseteq Int /\ m \in 1 .. Len(body)
      BY <3>1, <3>2
    <3>3. Max(old) = m
      BY <3>0, <3>2, MaxIs
    <3>4. q[Max(old)] = body[Max(old)]
      BY <1>1, <3>0, <3>3
    <3> QED
      BY <1>2, <1>3, <1>5, <2>1, <2>3, <3>4 DEF q
  <2> QED
    BY <2>2, <2>3
<1> QED
  BY <1>4, <1>5

LEMMA SaidNothing ==
  ASSUME NEW o
  PROVE  Said(o, <<>>) = Null
BY DEF Said

\* What a line sets.
Reads(s, l)   == [s EXCEPT !.set.opt[l.key] = FirstWord[l.arg]]
Begun(s, l)   == [s EXCEPT !.found = TRUE, !.set.dhcp = l.how = "dhcp"]

LEMMA ReadParts ==
  ASSUME NEW s \in ReadState
  PROVE  /\ s.set \in Settings /\ s.found \in BOOLEAN /\ s.ended \in BOOLEAN
         /\ LET t == [s EXCEPT !.ended = TRUE] IN
              /\ t \in ReadState /\ t.found = s.found /\ t.ended = TRUE /\ t.set = s.set
BY DEF ReadState

LEMMA OptionParts ==
  ASSUME NEW s \in ReadState, NEW l \in Line, l.key \in Options, l.arg \in Values
  PROVE  /\ Reads(s, l) \in ReadState
         /\ Reads(s, l).found = s.found /\ Reads(s, l).ended = s.ended
         /\ Reads(s, l).set.dhcp = s.set.dhcp
         /\ \A o \in Options : Reads(s, l).set.opt[o] =
                              IF o = l.key THEN FirstWord[l.arg] ELSE s.set.opt[o]
<1> DEFINE opt == [s.set.opt EXCEPT ![l.key] = FirstWord[l.arg]]
           set == [s.set EXCEPT !.opt = opt]
           t == [s EXCEPT !.set = set]
<1>1. FirstWord[l.arg] \in Values
  BY NetAssumption
<1>2. s.set \in Settings /\ s.set.opt \in [Options -> Values \cup {Null}]
  BY DEF ReadState, Settings
<1>3. opt \in [Options -> Values \cup {Null}]
  BY <1>1, <1>2
<1>4. \A o \in Options : opt[o] = IF o = l.key THEN FirstWord[l.arg] ELSE s.set.opt[o]
  BY <1>2
<1>5. Reads(s, l) = t
  BY <1>2 DEF Reads, ReadState, Settings
<1> HIDE DEF opt
<1>6. set \in Settings /\ set.opt = opt /\ set.dhcp = s.set.dhcp
  BY <1>2, <1>3 DEF Settings
<1> HIDE DEF set
<1>7. t \in ReadState /\ t.found = s.found /\ t.ended = s.ended /\ t.set = set
  BY <1>6 DEF ReadState
<1> HIDE DEF t
<1> QED
  BY <1>4, <1>5, <1>6, <1>7

LEMMA BegunParts ==
  ASSUME NEW s \in ReadState, NEW l \in Line
  PROVE  /\ Begun(s, l) \in ReadState
         /\ Begun(s, l).found = TRUE /\ Begun(s, l).ended = s.ended
         /\ Begun(s, l).set.dhcp <=> l.how = "dhcp"
         /\ Begun(s, l).set.opt = s.set.opt
<1> DEFINE set == [s.set EXCEPT !.dhcp = l.how = "dhcp"]
           t == [s EXCEPT !.found = TRUE, !.set = set]
<1>1. s.set \in Settings /\ (l.how = "dhcp") \in BOOLEAN
  BY DEF ReadState
<1>2. set \in Settings /\ set.dhcp = (l.how = "dhcp") /\ set.opt = s.set.opt
  BY <1>1 DEF Settings
<1>3. Begun(s, l) = t
  BY <1>1 DEF Begun, ReadState, Settings
<1> HIDE DEF set
<1>4. t \in ReadState /\ t.found = TRUE /\ t.ended = s.ended /\ t.set = set
  BY <1>2 DEF ReadState
<1> HIDE DEF t
<1> QED
  BY <1>2, <1>3, <1>4

LEMMA ReadRound ==
  ASSUME NEW n, NEW lines \in Seq(Line), NEW l \in Line, Proper(Append(lines, l)),
         NEW s, ReadOK(n, lines, s)
  PROVE  ReadOK(n, Append(lines, l), ReadLine(n, s, l))
<1> DEFINE q == Append(lines, l)
<1>0. Proper(lines) /\ Follows(l, lines) /\ OneStanza(lines)
  BY ProperLess DEF Proper
<1>1. s \in ReadState /\ Body(n, lines) \in Seq(Line)
  BY DEF ReadOK
<1>2. s.set \in Settings /\ s.found \in BOOLEAN /\ s.ended \in BOOLEAN
  BY <1>1, ReadParts
<1>3. ~ IsHead(n, l) => /\ Heads(n, q) = Heads(n, lines)
                        /\ Open(n, q) <=> Open(n, lines) /\ l.key # "blank"
                        /\ Body(n, q) = IF Open(n, lines) /\ l.key # "blank"
                                        THEN Append(Body(n, lines), l) ELSE Body(n, lines)
  BY <1>0, HeadsMore, OpenMore, BodyMore
<1>4. IsHead(n, l) => /\ Heads(n, lines) = {} /\ Heads(n, q) # {}
                      /\ Open(n, q) /\ Body(n, q) = <<l>>
  <2> SUFFICES ASSUME IsHead(n, l)
               PROVE  /\ Heads(n, lines) = {} /\ Heads(n, q) # {}
                      /\ Open(n, q) /\ Body(n, q) = <<l>>
    OBVIOUS
  <2>1. Heads(n, lines) = {}
    BY <1>0 DEF Follows, IsHead
  <2>2. Heads(n, q) # {}
    BY HeadsMore
  <2> QED
    BY <2>1, <2>2, BodyBegins
<1> HIDE DEF q
<1>5. CASE s.ended
  <2>1. ReadLine(n, s, l) = s
    BY <1>5 DEF ReadLine
  <2>2. s.found /\ ~ Open(n, lines) /\ Heads(n, lines) # {}
    BY <1>5 DEF ReadOK
  <2> QED
    BY <1>3, <1>4, <1>5, <2>1, <2>2 DEF ReadOK, q
<1>6. CASE ~ s.ended /\ s.found
  <2>1. Open(n, lines) /\ Heads(n, lines) # {} /\ ~ IsHead(n, l) /\ Body(n, lines) # <<>>
    BY <1>4, <1>6 DEF ReadOK
  <2>2. CASE l.key = "blank"
    <3> DEFINE t == [s EXCEPT !.ended = TRUE]
    <3>1. ReadLine(n, s, l) = t
      BY <1>6, <2>2 DEF ReadLine, Options, Address, Radio
    <3>2. t \in ReadState /\ t.found = s.found /\ t.ended = TRUE /\ t.set = s.set
      BY <1>1, ReadParts
    <3> HIDE DEF t
    <3>3. ~ Open(n, q) /\ Heads(n, q) = Heads(n, lines) /\ Body(n, q) = Body(n, lines)
      BY <1>3, <2>1, <2>2
    <3> QED
      BY <1>6, <3>1, <3>2, <3>3 DEF ReadOK, q
  <2>3. CASE l.key # "blank"
    <3>1. /\ Open(n, q) /\ Heads(n, q) = Heads(n, lines)
          /\ Body(n, q) = Append(Body(n, lines), l)
      BY <1>3, <2>1, <2>3
    <3>2. /\ Body(n, q) \in Seq(Line) /\ Body(n, q) # <<>>
          /\ Head(Body(n, q)) = Head(Body(n, lines))
      BY <1>1, <2>1, <3>1
    <3>3. \A o : Said(o, Body(n, q)) = IF l.key = o THEN FirstWord[l.arg]
                                       ELSE Said(o, Body(n, lines))
      BY <1>1, <3>1, SaidMore
    <3>4. CASE l.key \in Options
      <4> DEFINE t == Reads(s, l)
      <4>1. ReadLine(n, s, l) = t
        BY <1>6, <2>3, <3>4 DEF ReadLine, Reads
      <4>2. l.arg \in Values
        BY <1>0, <3>4 DEF Follows
      <4>3. /\ t \in ReadState /\ t.found = s.found /\ t.ended = s.ended
            /\ t.set.dhcp = s.set.dhcp
            /\ \A o \in Options :
                 t.set.opt[o] = IF o = l.key THEN FirstWord[l.arg] ELSE s.set.opt[o]
        BY <1>1, <3>4, <4>2, OptionParts
      <4> HIDE DEF t
      <4>4. \A o \in Options : t.set.opt[o] = Said(o, Body(n, q))
        BY <3>3, <4>3 DEF ReadOK
      <4>6. \A o \in Options : OneWord(t.set.opt[o])
        <5>1. OneWord(FirstWord[l.arg])
          BY <4>2, NetAssumption DEF OneWord
        <5> QED
          BY <4>3, <5>1 DEF ReadOK
      <4>5. t.set.dhcp <=> Body(n, q) # <<>> /\ Head(Body(n, q)).how = "dhcp"
        BY <2>1, <3>2, <4>3 DEF ReadOK
      <4> QED
        BY <1>6, <2>1, <3>1, <3>2, <4>1, <4>3, <4>4, <4>5, <4>6 DEF ReadOK, q
    <3>5. CASE l.key \notin Options
      <4>1. ReadLine(n, s, l) = s
        BY <1>6, <2>3, <3>5 DEF ReadLine
      <4>2. \A o \in Options : s.set.opt[o] = Said(o, Body(n, q))
        BY <3>3, <3>5 DEF ReadOK
      <4>3. s.set.dhcp <=> Body(n, q) # <<>> /\ Head(Body(n, q)).how = "dhcp"
        BY <2>1, <3>2 DEF ReadOK
      <4> QED
        BY <1>1, <1>6, <2>1, <3>1, <3>2, <4>1, <4>2, <4>3 DEF ReadOK, q
    <3> QED
      BY <3>4, <3>5
  <2> QED
    BY <2>2, <2>3
<1>7. CASE ~ s.ended /\ ~ s.found
  <2>1. Heads(n, lines) = {} /\ Body(n, lines) = <<>>
    BY <1>7 DEF ReadOK
  <2>2. ~ Open(n, lines)
    BY <2>1 DEF Open
  <2>3. CASE IsHead(n, l)
    <3> DEFINE t == Begun(s, l)
    <3>1. ReadLine(n, s, l) = t
      BY <1>7, <2>3 DEF ReadLine, IsHead, Begun
    <3>2. /\ t \in ReadState /\ t.found = TRUE /\ t.ended = s.ended
          /\ (t.set.dhcp <=> l.how = "dhcp") /\ t.set.opt = s.set.opt
      BY <1>1, BegunParts
    <3> HIDE DEF t
    <3>0. /\ Append(<<>>, l) = <<l>> /\ <<l>> \in Seq(Line) /\ <<l>> # <<>>
          /\ Head(<<l>>) = l /\ <<>> \in Seq(Line)
      OBVIOUS
    <3>3. /\ Body(n, q) \in Seq(Line) /\ Body(n, q) # <<>> /\ Head(Body(n, q)) = l
          /\ Body(n, q) = Append(<<>>, l)
      BY <1>4, <2>3, <3>0
    <3>4. l.key \notin Options
      BY <2>3 DEF IsHead, Options, Address, Radio
    <3>5. \A o \in Options : Said(o, Body(n, q)) = Said(o, <<>>)
      <4>1. \A o : Said(o, Append(<<>>, l)) = IF l.key = o THEN FirstWord[l.arg]
                                             ELSE Said(o, <<>>)
        BY <3>0, SaidMore
      <4> QED
        BY <3>3, <3>4, <4>1
    <3>6. \A o \in Options : t.set.opt[o] = Said(o, Body(n, q))
      BY <2>1, <3>2, <3>5 DEF ReadOK
    <3>7. \A o \in Options : OneWord(t.set.opt[o])
      BY <3>2 DEF ReadOK
    <3> QED
      BY <1>4, <1>7, <2>3, <3>1, <3>2, <3>3, <3>6, <3>7 DEF ReadOK, q
  <2>4. CASE ~ IsHead(n, l)
    <3>1. ReadLine(n, s, l) = s
      BY <1>7, <2>4 DEF ReadLine, IsHead
    <3> QED
      BY <1>3, <1>7, <2>1, <2>2, <2>4, <3>1 DEF ReadOK, q
  <2> QED
    BY <2>3, <2>4
<1> QED
  BY <1>2, <1>5, <1>6, <1>7

LEMMA ReadType ==
  ASSUME NEW n, NEW s \in ReadState, NEW l \in Line, l.key \in Options => l.arg \in Values
  PROVE  ReadLine(n, s, l) \in ReadState
<1>1. [s EXCEPT !.ended = TRUE] \in ReadState
  BY ReadParts
<1>2. l.key \in Options => Reads(s, l) \in ReadState
  BY OptionParts
<1>3. Begun(s, l) \in ReadState
  BY BegunParts
<1>4. s.found /\ l.key = "blank" => l.key \notin Options
  BY DEF Options, Address, Radio
<1>5. CASE s.ended
  BY <1>5 DEF ReadLine
<1>6. CASE ~ s.ended /\ s.found /\ l.key = "blank"
  BY <1>1, <1>4, <1>6 DEF ReadLine
<1>7. CASE ~ s.ended /\ s.found /\ l.key \in Options
  BY <1>2, <1>4, <1>7 DEF ReadLine, Reads
<1>8. CASE ~ s.ended /\ ~ s.found /\ l.key = "iface" /\ l.arg = n
  BY <1>3, <1>8 DEF ReadLine, Begun
<1>9. CASE /\ ~ s.ended /\ ~ (s.found /\ l.key = "blank") /\ ~ (s.found /\ l.key \in Options)
           /\ ~ (~ s.found /\ l.key = "iface" /\ l.arg = n)
  BY <1>9 DEF ReadLine
<1> QED
  BY <1>5, <1>6, <1>7, <1>8, <1>9

LEMMA ReadRuns ==
  ASSUME NEW n, NEW lines, Proper(lines)
  PROVE  LET s == Reading(n, lines) IN
         /\ s[0] = [found |-> FALSE, ended |-> FALSE,
                    set |-> [dhcp |-> FALSE, opt |-> NoOptions]]
         /\ \A i \in 1 .. Len(lines) : s[i] = ReadLine(n, s[i - 1], lines[i])
<1> DEFINE x0 == [found |-> FALSE, ended |-> FALSE,
                  set |-> [dhcp |-> FALSE, opt |-> NoOptions]]
           N == Len(lines)
           F == [i \in 1 .. N |-> [x \in ReadState |-> ReadLine(n, x, lines[i])]]
           Is(s) == s = [i \in 0 .. N |-> IF i = 0 THEN x0 ELSE ReadLine(n, s[i - 1], lines[i])]
<1>0. lines \in Seq(Line) /\ N \in Nat
  BY DEF Proper
<1>1. x0 \in ReadState
  BY DEF ReadState, Settings, NoOptions
<1>2. F \in [1 .. N -> [ReadState -> ReadState]]
  <2> SUFFICES ASSUME NEW i \in 1 .. N, NEW x \in ReadState
               PROVE  ReadLine(n, x, lines[i]) \in ReadState
    OBVIOUS
  <2>1. lines[i] \in Line /\ i \in DOMAIN lines
    BY <1>0
  <2> QED
    BY <2>1, ReadType DEF Proper
<1>3. \A i \in 1 .. N, x \in ReadState : F[i][x] = ReadLine(n, x, lines[i])
  OBVIOUS
<1>4. PICK s : Loop(N, ReadState, x0, F, s)
  <2> HIDE DEF F, x0, N
  <2> QED
    BY <1>0, <1>1, <1>2, LoopRuns
<1>5. \A i \in 1 .. N : s[i] = ReadLine(n, s[i - 1], lines[i])
  <2> SUFFICES ASSUME NEW i \in 1 .. N PROVE s[i] = ReadLine(n, s[i - 1], lines[i])
    OBVIOUS
  <2>1. i - 1 \in 0 .. N
    BY <1>0
  <2>2. s[i - 1] \in ReadState
    BY <2>1, <1>4 DEF Loop
  <2> HIDE DEF F
  <2> QED
    BY <2>2, <1>3, <1>4 DEF Loop
<1>6. Is(s)
  <2> HIDE DEF x0, F
  <2>1. \A i \in 0 .. N : s[i] = IF i = 0 THEN x0 ELSE ReadLine(n, s[i - 1], lines[i])
    BY <1>0, <1>4, <1>5 DEF Loop
  <2> QED
    BY <1>4, <2>1 DEF Loop
<1>7. \E t : Is(t)
  <2> HIDE DEF Is
  <2> QED
    BY <1>6
<1>8. Reading(n, lines) = CHOOSE t : Is(t)
  BY DEF Reading
<1>9. Is(Reading(n, lines))
  <2> HIDE DEF Is
  <2> QED
    BY <1>7, <1>8, Zenon
<1>10. \A i \in 1 .. N : i \in 0 .. N /\ i # 0
  BY <1>0
<1> HIDE DEF x0
<1>11. /\ Reading(n, lines)[0] = x0
       /\ \A i \in 1 .. N :
            Reading(n, lines)[i] = ReadLine(n, Reading(n, lines)[i - 1], lines[i])
  BY <1>0, <1>9, <1>10
<1> QED
  BY <1>11 DEF x0

\* read_iface_config finds what the file says.
LEMMA ReadResult ==
  ASSUME NEW n, NEW lines, Proper(lines)
  PROVE  /\ ReadIface(n, lines) \in Settings
         /\ Body(n, lines) \in Seq(Line)
         /\ ReadIface(n, lines).dhcp <=>
              Body(n, lines) # <<>> /\ Head(Body(n, lines)).how = "dhcp"
         /\ \A o \in Options : ReadIface(n, lines).opt[o] = Said(o, Body(n, lines))
         /\ \A o \in Options : OneWord(ReadIface(n, lines).opt[o])
<1> DEFINE s == Reading(n, lines)
           p(i) == SubSeq(lines, 1, i)
           S == {i \in 0 .. Len(lines) : ReadOK(n, p(i), s[i])}
<1>1. lines \in Seq(Line) /\ Len(lines) \in Nat
  BY DEF Proper
<1>2. /\ s[0] = [found |-> FALSE, ended |-> FALSE,
                 set |-> [dhcp |-> FALSE, opt |-> NoOptions]]
      /\ \A i \in 1 .. Len(lines) : s[i] = ReadLine(n, s[i - 1], lines[i])
  BY ReadRuns
<1> HIDE DEF s
<1>3. ReadOK(n, p(0), s[0])
  <2>1. p(0) = <<>>
    BY <1>1
  <2>2. s[0] \in ReadState
    BY <1>2 DEF ReadState, Settings, NoOptions
  <2>3. /\ s[0].found = FALSE /\ s[0].ended = FALSE /\ s[0].set.dhcp = FALSE
        /\ s[0].set.opt = NoOptions
    BY <1>2
  <2>4. Heads(n, <<>>) = {} /\ ~ Open(n, <<>>)
    BY DEF Heads, Open
  <2>5. Body(n, <<>>) = <<>>
    BY <2>4, BodyNone
  <2>6. \A o \in Options : s[0].set.opt[o] = Said(o, <<>>)
    BY <2>3, SaidNothing DEF NoOptions
  <2>7. ReadOK(n, <<>>, s[0])
    <3>1. <<>> \in Seq(Line)
      OBVIOUS
    <3> QED
      BY <2>2, <2>3, <2>4, <2>5, <2>6, <3>1 DEF ReadOK, OneWord, NoOptions
  <2> QED
    BY <2>1, <2>7
<1>4. ASSUME NEW i \in 0 .. Len(lines) - 1, ReadOK(n, p(i), s[i])
      PROVE  ReadOK(n, p(i + 1), s[i + 1])
  <2>1. i + 1 \in 1 .. Len(lines) /\ (i + 1) - 1 = i /\ i + 1 \in 0 .. Len(lines)
    BY <1>1
  <2>2. p(i + 1) = Append(p(i), lines[i + 1]) /\ p(i) \in Seq(Line) /\ lines[i + 1] \in Line
    BY <1>1, <2>1, PrefixMore
  <2>3. Proper(p(i + 1))
    BY <2>1, ProperPrefix
  <2>4. s[i + 1] = ReadLine(n, s[i], lines[i + 1])
    BY <1>2, <2>1
  <2> HIDE DEF p
  <2>5. ReadOK(n, Append(p(i), lines[i + 1]), ReadLine(n, s[i], lines[i + 1]))
    BY <1>4, <2>2, <2>3, ReadRound
  <2> QED
    BY <2>2, <2>4, <2>5
<1>5. Len(lines) \in S
  <2>1. 0 \in S
    BY <1>1, <1>3
  <2>2. \A i \in 0 .. Len(lines) - 1 : i \in S => i + 1 \in S
    BY <1>1, <1>4
  <2> HIDE DEF S
  <2>3. 0 .. Len(lines) \subseteq S
    BY <1>1, <2>1, <2>2, AllRounds
  <2> QED
    BY <1>1, <2>3
<1>6. p(Len(lines)) = lines
  BY <1>1
<1>7. ReadOK(n, lines, s[Len(lines)])
  <2>1. ReadOK(n, p(Len(lines)), s[Len(lines)])
    BY <1>5
  <2> QED
    BY <1>6, <2>1
<1>8. ReadIface(n, lines) = s[Len(lines)].set
  BY DEF ReadIface, s
<1>9. s[Len(lines)].set \in Settings
  BY <1>7, ReadParts DEF ReadOK
<1> QED
  BY <1>7, <1>8, <1>9 DEF ReadOK

-----------------------------------------------------------------------------
(* The invariant: the file is apart, and the copy that waits to be renamed    *)
(* is what the window shows behind the lines of the others.                   *)

FilesApart == \A f \in Files : OneStanza(f) /\ Apart(f)

Entries == [Options -> Values \cup {Null}]

NetTypes ==
  /\ netPc \in {"form", "written", "renamed"}
  /\ Proper(etc)
  /\ name \in Names /\ iface \in Settings /\ entry \in Entries

Pending ==
  netPc = "written" =>
    \E v0 \in BOOLEAN :
      tmp = Others(name, etc, v0) \o Stanza(name, Collected, name \in Wireless)

NetInv == NetTypes /\ Pending

\* What apply_iface collects for n of these settings and entries.
Taken(n, set, shows) ==
  [dhcp |-> set.dhcp,
   opt  |-> [o \in Options |->
               IF (o \in Address /\ ~ set.dhcp) \/ (o \in Radio /\ n \in Wireless)
               THEN shows[o] ELSE Null]]

LEMMA TakenType ==
  ASSUME NEW n, NEW set \in Settings, NEW shows \in Entries
  PROVE  /\ Taken(n, set, shows) \in Settings
         /\ Taken(n, Taken(n, set, shows), shows) = Taken(n, set, shows)
BY DEF Taken, Settings, Entries

LEMMA ShowingType ==
  ASSUME NEW n, NEW set \in Settings, NEW old \in Entries
  PROVE  Showing(n, set, old) \in Entries
BY DEF Showing, Settings, Entries

LEMMA UnfilledType == Unfilled \in Entries
BY NetAssumption DEF Unfilled, NoOptions, Entries

LEMMA CollectedIs == Collected = Taken(name, iface, entry)
BY DEF Collected, Taken

\* While apply_iface runs, what it has collected stays.
LEMMA CollectedStays ==
  ASSUME NetTypes, ApplyWrite
  PROVE  Collected' = Collected
<1>1. iface' = Taken(name, iface, entry) /\ name' = name /\ entry' = entry
  BY CollectedIs DEF ApplyWrite
<1>2. Collected' = Taken(name', iface', entry')
  BY DEF Collected, Taken
<1>3. Taken(name, Taken(name, iface, entry), entry) = Taken(name, iface, entry)
  BY TakenType DEF NetTypes
<1> QED
  BY <1>1, <1>2, <1>3, CollectedIs

LEMMA CollectedType ==
  ASSUME NetTypes
  PROVE  Collected \in Settings
BY CollectedIs, TakenType DEF NetTypes

LEMMA NetStarts ==
  ASSUME FilesApart, NetInit
  PROVE  NetInv
<1>1. Proper(etc)
  BY NetAssumption DEF FilesApart, NetInit, Proper
<1>2. iface \in Settings
  BY <1>1, ReadResult DEF NetInit
<1>3. entry \in Entries
  BY <1>2, UnfilledType, ShowingType DEF NetInit
<1> QED
  BY <1>1, <1>2, <1>3 DEF NetInit, NetInv, NetTypes, Pending

LEMMA NetStep ==
  ASSUME NetInv, [NetNext]_netVars
  PROVE  NetInv'
<1>0. NetTypes /\ Pending
  BY DEF NetInv
<1>1. ASSUME NEW n \in Names, Select(n) PROVE NetInv'
  <2>1. iface' \in Settings
    BY <1>0, <1>1, ReadResult DEF Select, Edited, NetTypes
  <2>2. entry' \in Entries
    BY <1>0, <1>1, <2>1, ShowingType DEF Select, NetTypes
  <2> QED
    BY <1>0, <1>1, <2>1, <2>2 DEF Select, Edited, NetInv, NetTypes, Pending
<1>2. ASSUME NEW o \in Options, NEW v \in Typed[o], Type(o, v) PROVE NetInv'
  <2>1. v \in Values \cup {Null}
    BY NetAssumption
  <2>2. entry' \in Entries
    BY <1>0, <1>2, <2>1 DEF Type, NetTypes, Entries
  <2> QED
    BY <1>0, <1>2, <2>2 DEF Type, Edited, NetInv, NetTypes, Pending
<1>3. CASE Toggle
  <2>1. iface' \in Settings
    BY <1>0, <1>3 DEF Toggle, NetTypes, Settings
  <2>2. DefaultMask \in Values
    BY NetAssumption
  <2>3. entry' \in Entries
    BY <1>0, <1>3, <2>2 DEF Toggle, NetTypes, Entries
  <2> QED
    BY <1>0, <1>3, <2>1, <2>3 DEF Toggle, Edited, NetInv, NetTypes, Pending
<1>4. CASE ApplyWrite
  <2>1. Collected \in Settings /\ Collected' = Collected
    BY <1>0, <1>4, CollectedType, CollectedStays
  <2>2. NetTypes'
    BY <1>0, <1>4, <2>1 DEF ApplyWrite, NetTypes
  <2>3. PICK v0 \in IF etc = <<>> THEN BOOLEAN ELSE {FALSE} :
          tmp' = Others(name, etc, v0) \o Stanza(name, Collected, name \in Wireless)
    BY <1>4 DEF ApplyWrite
  <2>4. name' = name /\ etc' = etc /\ v0 \in BOOLEAN
    BY <1>4 DEF ApplyWrite
  <2>5. Pending'
    BY <2>1, <2>3, <2>4 DEF Pending
  <2> QED
    BY <2>2, <2>5 DEF NetInv
<1>5. CASE ApplyRename
  <2>1. PICK v0 \in BOOLEAN :
          tmp = Others(name, etc, v0) \o Stanza(name, Collected, name \in Wireless)
    BY <1>0, <1>5 DEF ApplyRename, Pending
  <2>2. Collected \in Settings /\ (name \in Wireless) \in BOOLEAN
    BY <1>0, CollectedType
  <2>3. Proper(tmp)
    BY <1>0, <2>1, <2>2, Rewritten DEF NetTypes, Replaces
  <2>4. NetTypes'
    BY <1>0, <1>5, <2>3 DEF ApplyRename, NetTypes
  <2> QED
    BY <1>5, <2>4 DEF ApplyRename, NetInv, Pending
<1>6. CASE ApplyUp
  BY <1>0, <1>6 DEF ApplyUp, NetInv, NetTypes, Pending
<1>7. CASE Reopen
  <2>1. iface' \in Settings
    BY <1>0, <1>7, ReadResult DEF Reopen, NetTypes
  <2>2. entry' \in Entries
    BY <1>7, <2>1, UnfilledType, ShowingType DEF Reopen
  <2> QED
    BY <1>0, <1>7, <2>1, <2>2 DEF Reopen, NetInv, NetTypes, Pending
<1>8. CASE UNCHANGED netVars
  <2>1. Collected' = Collected
    BY <1>8 DEF Collected, netVars
  <2> QED
    BY <1>0, <1>8, <2>1 DEF netVars, NetInv, NetTypes, Pending
<1> QED
  BY <1>1, <1>2, <1>3, <1>4, <1>5, <1>6, <1>7, <1>8 DEF NetNext

\* The file stays one whose stanzas are apart, of well-formed lines, wherever
\* Apply is interrupted.
THEOREM NetInvHolds ==
  ASSUME FilesApart
  PROVE  NetSpec => []NetInv
<1>1. NetInit => NetInv
  BY NetStarts
<1>2. NetInv /\ [NetNext]_netVars => NetInv'
  BY NetStep
<1> QED
  BY <1>1, <1>2, PTL DEF NetSpec

-----------------------------------------------------------------------------
(* The file is a table.                                                      *)

LEMMA TableStep ==
  ASSUME NetInv, [NetNext]_netVars
  PROVE  [Table!Next]_(Table!vars)
<1>0. NetTypes /\ Pending
  BY DEF NetInv
<1>1. CASE etc' = etc
  <2>1. [n \in Names \cup {"lo"} |-> Row(n, etc')] = [n \in Names \cup {"lo"} |-> Row(n, etc)]
    BY <1>1
  <2>2. Table!Edit
    BY <2>1 DEF Table!Edit
  <2> QED
    BY <2>2 DEF Table!Next
<1>2. CASE ApplyRename
  <2> DEFINE wifi == name \in Wireless
             shown == [body |-> Tail(Stanza(name, Collected, wifi)), up |-> TRUE]
  <2>1. PICK v0 \in BOOLEAN : tmp = Others(name, etc, v0) \o Stanza(name, Collected, wifi)
    BY <1>0, <1>2 DEF ApplyRename, Pending
  <2>2. Collected \in Settings /\ wifi \in BOOLEAN /\ Proper(etc) /\ name \in Names
    BY <1>0, CollectedType DEF NetTypes
  <2>3. Replaces(tmp, name, etc, Collected, wifi)
    <3> HIDE DEF wifi
    <3> QED
      BY <2>1, <2>2, Rewritten DEF wifi
  <2>9. Row(name, tmp) = shown /\ \A m : m # name => Row(m, tmp) = Row(m, etc)
    BY <2>3 DEF Replaces
  <2>4. Collected' = Collected
    BY <1>2 DEF ApplyRename, Collected
  <2>5. name' = name /\ etc' = tmp
    BY <1>2 DEF ApplyRename
  <2>6. shown' = shown
    BY <2>4, <2>5
  <2>7. [n \in Names \cup {"lo"} |-> Row(n, etc')]
          = [[n \in Names \cup {"lo"} |-> Row(n, etc)] EXCEPT ![name] = shown]
    <3> HIDE DEF shown
    <3> QED
      BY <2>2, <2>5, <2>9
  <2>8. Table!Apply
    BY <2>5, <2>6, <2>7 DEF Table!Apply
  <2> QED
    BY <2>8 DEF Table!Next
<1>3. etc' = etc \/ ApplyRename
  BY DEF NetNext, netVars, Select, Type, Toggle, Edited, ApplyWrite, ApplyUp, Reopen
<1> QED
  BY <1>1, <1>2, <1>3

\* netconfig is the table of NetSettings: whatever is typed, selected, applied or
\* interrupted, the settings of no interface change but of the one that is
\* selected, and its settings become what the window shows.
THEOREM NetTableSafe ==
  ASSUME FilesApart
  PROVE  NetSpec => NetTable
<1>1. NetInit => Table!Init
  BY DEF NetInit, Table!Init
<1>2. NetInv /\ [NetNext]_netVars => [Table!Next]_(Table!vars)
  BY TableStep
<1> QED
  BY <1>1, <1>2, NetInvHolds, PTL DEF NetSpec, NetTable, Table!Spec

\* read_iface_config finds the settings of every interface, and there is one
\* stanza to find.
THEOREM ReadsRowSafe ==
  ASSUME FilesApart
  PROVE  NetSpec => []ReadsRow
<1>1. NetInv => ReadsRow
  <2> SUFFICES ASSUME NetInv PROVE ReadsRow
    OBVIOUS
  <2>1. Proper(etc) /\ OneStanza(etc)
    BY DEF NetInv, NetTypes, Proper
  <2>2. ASSUME NEW n \in Names
        PROVE  LET body == Body(n, etc)
                   of(o) == {i \in DOMAIN body : body[i].key = o}
                   set  == ReadIface(n, etc)
               IN  /\ set.dhcp <=> body # <<>> /\ Head(body).how = "dhcp"
                   /\ \A o \in Options :
                        set.opt[o] = IF of(o) = {} THEN Null
                                     ELSE FirstWord[body[Max(of(o))].arg]
    BY <2>1, ReadResult DEF Said
  <2> QED
    BY <2>1, <2>2 DEF ReadsRow
<1> QED
  BY <1>1, NetInvHolds, PTL

-----------------------------------------------------------------------------
(* Nothing touched, nothing to apply.                                        *)

FilesFit == \A f \in Files, n \in Names : Fitting(n, f)

\* What would be applied is what has been read, but for the mode.
Agrees(c, now) ==
  /\ c.dhcp = now.dhcp
  /\ \A o \in Options \ {"wireless-mode"} : c.opt[o] = now.opt[o]

IdleInv ==
  /\ NetInv
  /\ \A n \in Names : Fitting(n, etc)
  /\ ~ touched => Agrees(Collected, ReadIface(name, etc))

LEMMA Unsaid ==
  ASSUME NEW o, NEW body, \A i \in DOMAIN body : body[i].key # o
  PROVE  Said(o, body) = Null
BY DEF Said

LEMMA OptionKinds ==
  /\ Options = Address \cup Radio
  /\ Address \cap Radio = {}
  /\ "iface" \notin Options
BY DEF Options, Address, Radio

\* What the window shows of a file it has read.
LEMMA ShownAgrees ==
  ASSUME NEW n \in Names, NEW f, Proper(f), Fitting(n, f), NEW old \in Entries
  PROVE  LET set == ReadIface(n, f) IN Agrees(Taken(n, set, Showing(n, set, old)), set)
<1> DEFINE set == ReadIface(n, f)
           body == Body(n, f)
           c == Taken(n, set, Showing(n, set, old))
<1>1. /\ set \in Settings /\ body \in Seq(Line)
      /\ set.dhcp <=> body # <<>> /\ Head(body).how = "dhcp"
      /\ \A o \in Options : set.opt[o] = Said(o, body)
  BY ReadResult
<1>2. \A i \in DOMAIN body : /\ body[i].key \in Address => body[1].how # "dhcp"
                             /\ body[i].key \in Radio   => n \in Wireless
  BY DEF Fitting
<1> HIDE DEF set, body
<1>3. body # <<>> => Head(body) = body[1]
  BY <1>1
<1>4. c.dhcp = set.dhcp
  BY DEF Taken
<1>5. ASSUME NEW o \in Options, o # "wireless-mode" PROVE c.opt[o] = set.opt[o]
  <2>1. c.opt[o] = IF (o \in Address /\ ~ set.dhcp) \/ (o \in Radio /\ n \in Wireless)
                   THEN Showing(n, set, old)[o] ELSE Null
    BY DEF Taken
  <2>2. CASE (o \in Address /\ ~ set.dhcp) \/ (o \in Radio /\ n \in Wireless)
    BY <1>5, <2>1, <2>2 DEF Showing
  <2>3. CASE o \in Address /\ set.dhcp
    <3>1. \A i \in DOMAIN body : body[i].key # o
      BY <1>1, <1>2, <1>3, <2>3
    <3>2. set.opt[o] = Null
      BY <1>1, <3>1, Unsaid
    <3> QED
      BY <2>1, <2>3, <3>2, OptionKinds
  <2>4. CASE o \in Radio /\ n \notin Wireless
    <3>1. \A i \in DOMAIN body : body[i].key # o
      BY <1>2, <2>4
    <3>2. set.opt[o] = Null
      BY <1>1, <3>1, Unsaid
    <3> QED
      BY <2>1, <2>4, <3>2, OptionKinds
  <2> QED
    BY <1>1, <2>2, <2>3, <2>4, OptionKinds
<1> QED
  BY <1>4, <1>5 DEF Agrees, set

\* The lines of a stanza that was written: the header, and every option once it
\* is written.
WrittenAs(body, n, set, wifi) ==
  /\ body # <<>> /\ body \in Seq(Line)
  /\ body[1] = HeadLine(n, set) /\ Head(body) = HeadLine(n, set)
  /\ \A i \in DOMAIN body \ {1} :
       \E o \in Options : /\ Written(o, set, wifi)
                          /\ body[i].key = o /\ body[i].arg = set.opt[o]
  /\ \A o \in Options : Written(o, set, wifi) =>
       \E i \in DOMAIN body : body[i].key = o

LEMMA WrittenLines ==
  ASSUME NEW n \in Names, NEW set \in Settings, NEW wifi \in BOOLEAN,
         NEW opts, OptionsOf(opts, set, wifi)
  PROVE  WrittenAs(<<HeadLine(n, set)>> \o opts, n, set, wifi)
<1> DEFINE h == HeadLine(n, set)
           body == <<h>> \o opts
<1>1. h \in Line /\ opts \in Seq(Line)
  BY StanzaLines DEF OptionsOf
<1>2. \A i \in DOMAIN opts :
        \E o \in Options : /\ Written(o, set, wifi)
                           /\ opts[i].key = o /\ opts[i].arg = set.opt[o]
  BY OptionsAre
<1>3. \A o \in Options : Written(o, set, wifi) => \E i \in DOMAIN opts : opts[i].key = o
  <2> SUFFICES ASSUME NEW o \in Options, Written(o, set, wifi)
               PROVE  \E i \in DOMAIN opts : opts[i].key = o
    OBVIOUS
  <2>1. OptionLine(o, set) \in Elements(opts)
    BY DEF OptionsOf
  <2>2. PICK i \in DOMAIN opts : opts[i] = OptionLine(o, set)
    BY <2>1 DEF Elements
  <2> QED
    BY <2>2 DEF OptionLine
<1> HIDE DEF h
<1>4. /\ body \in Seq(Line) /\ Len(body) = Len(opts) + 1 /\ Len(opts) \in Nat
      /\ DOMAIN body = 1 .. Len(opts) + 1 /\ DOMAIN opts = 1 .. Len(opts)
      /\ body[1] = h /\ Head(body) = h /\ body # <<>>
      /\ \A i \in 1 .. Len(opts) : body[i + 1] = opts[i]
  BY <1>1
<1> HIDE DEF body
<1>5. ASSUME NEW i \in DOMAIN body \ {1}
      PROVE  \E o \in Options : /\ Written(o, set, wifi)
                                /\ body[i].key = o /\ body[i].arg = set.opt[o]
  <2>1. i - 1 \in 1 .. Len(opts) /\ (i - 1) + 1 = i
    BY <1>4
  <2>2. body[i] = opts[i - 1]
    BY <1>4, <2>1
  <2> QED
    BY <1>2, <1>4, <2>1, <2>2
<1>6. ASSUME NEW o \in Options, Written(o, set, wifi)
      PROVE  \E i \in DOMAIN body : body[i].key = o
  <2>1. PICK i \in 1 .. Len(opts) : opts[i].key = o
    BY <1>3, <1>4, <1>6
  <2>2. i + 1 \in DOMAIN body /\ body[i + 1] = opts[i]
    BY <1>4
  <2> QED
    BY <2>1, <2>2
<1> QED
  BY <1>4, <1>5, <1>6 DEF body, h, WrittenAs

\* To write what was read is to write what the file says.
LEMMA WrittenAgrees ==
  ASSUME NEW n \in Names, NEW f, Proper(f), NEW set \in Settings, NEW shows \in Entries,
         NEW new, Proper(new), NEW opts, OptionsOf(opts, Taken(n, set, shows), n \in Wireless),
         Body(n, new) = <<HeadLine(n, Taken(n, set, shows))>> \o opts
  PROVE  /\ Fitting(n, new)
         /\ Agrees(Taken(n, set, shows), ReadIface(n, f)) =>
              Agrees(Taken(n, set, shows), ReadIface(n, new))
<1> DEFINE c == Taken(n, set, shows)
           wifi == n \in Wireless
           body == Body(n, new)
           now == ReadIface(n, new)
           old == ReadIface(n, f)
<1>1. c \in Settings /\ wifi \in BOOLEAN
  BY TakenType
<1>2. \A o \in Options : c.opt[o] # Null => Written(o, c, wifi)
  BY OptionKinds DEF Taken, Written
<1>3. /\ now \in Settings
      /\ now.dhcp <=> body # <<>> /\ Head(body).how = "dhcp"
      /\ \A o \in Options : now.opt[o] = Said(o, body)
  BY ReadResult
<1>4. \A o \in Options : OneWord(old.opt[o])
  BY ReadResult
<1> HIDE DEF c, wifi, now, old
<1>5. /\ body # <<>> /\ body \in Seq(Line)
      /\ body[1] = HeadLine(n, c) /\ Head(body) = HeadLine(n, c)
      /\ \A i \in DOMAIN body \ {1} :
           \E o \in Options : /\ Written(o, c, wifi)
                              /\ body[i].key = o /\ body[i].arg = c.opt[o]
      /\ \A o \in Options : Written(o, c, wifi) => \E i \in DOMAIN body : body[i].key = o
  <2>1. body = <<HeadLine(n, c)>> \o opts /\ OptionsOf(opts, c, wifi)
    BY DEF c, wifi
  <2>2. WrittenAs(<<HeadLine(n, c)>> \o opts, n, c, wifi)
    BY <1>1, <2>1, WrittenLines
  <2> HIDE DEF body
  <2>3. WrittenAs(body, n, c, wifi)
    BY <2>1, <2>2
  <2> QED
    BY <2>3 DEF WrittenAs
<1> HIDE DEF body
<1>6. body[1].key = "iface" /\ (body[1].how = "dhcp" <=> c.dhcp)
  BY <1>5 DEF HeadLine
<1>7. Fitting(n, new)
  <2> SUFFICES ASSUME NEW i \in DOMAIN body
               PROVE  /\ body[i].key \in Address => body[1].how # "dhcp"
                      /\ body[i].key \in Radio   => n \in Wireless
    BY DEF Fitting, body
  <2>1. CASE i = 1
    BY <1>6, <2>1, OptionKinds
  <2>2. CASE i # 1
    BY <1>5, <1>6, <2>2, OptionKinds DEF Written, wifi
  <2> QED
    BY <2>1, <2>2
<1>8. ASSUME Agrees(c, old) PROVE Agrees(c, now)
  <2>1. c.dhcp = now.dhcp
    <3>1. c.dhcp \in BOOLEAN /\ now.dhcp \in BOOLEAN
      BY <1>1, <1>3 DEF Settings
    <3> QED
      BY <1>3, <1>5, <1>6, <3>1
  <2>2. ASSUME NEW o \in Options, o # "wireless-mode" PROVE c.opt[o] = now.opt[o]
    <3> DEFINE of == {i \in DOMAIN body : body[i].key = o}
    <3>1. \A i \in of : body[i].arg = c.opt[o] /\ Written(o, c, wifi)
      BY <1>5, <1>6, OptionKinds
    <3>2. CASE c.opt[o] = Null
      <4>1. \A i \in DOMAIN body : body[i].key # o
        BY <3>1, <3>2 DEF Written
      <4>2. Said(o, body) = Null
        BY <4>1, Unsaid
      <4> QED
        BY <1>3, <3>2, <4>2
    <3>3. CASE c.opt[o] # Null
      <4>1. of # {} /\ of \subseteq 1 .. Len(body) /\ Len(body) \in Nat
        BY <1>2, <1>5, <3>3
      <4>2. Said(o, body) = FirstWord[body[Max(of)].arg]
        BY <4>1 DEF Said
      <4> HIDE DEF of
      <4>3. PICK m \in of : \A y \in of : m >= y
        BY <4>1, HasGreatest
      <4>4. Max(of) = m
        <5>1. of \subseteq Int
          BY <4>1
        <5> QED
          BY <4>3, <5>1, MaxIs
      <4>5. Said(o, body) = FirstWord[c.opt[o]]
        BY <3>1, <4>2, <4>4
      <4>6. c.opt[o] = old.opt[o]
        BY <1>8, <2>2 DEF Agrees
      <4> QED
        BY <1>3, <1>4, <3>3, <4>5, <4>6 DEF OneWord
    <3> QED
      BY <3>2, <3>3
  <2> QED
    BY <2>1, <2>2 DEF Agrees
<1> QED
  BY <1>7, <1>8 DEF c, now, old

\* IdleInv holds of the file and window a selection or a start leaves.
LEMMA ShowingIdle ==
  ASSUME NEW n \in Names, NEW old \in Entries, NetTypes,
         \A m \in Names : Fitting(m, etc),
         etc' = etc, name' = n, iface' = ReadIface(n, etc),
         entry' = Showing(n, iface', old)
  PROVE  Agrees(Collected', ReadIface(name', etc'))
<1>1. Proper(etc) /\ Fitting(n, etc)
  BY DEF NetTypes
<1>2. Agrees(Taken(n, ReadIface(n, etc), Showing(n, ReadIface(n, etc), old)),
             ReadIface(n, etc))
  BY <1>1, ShownAgrees
<1>3. Collected' = Taken(name', iface', entry')
  BY DEF Collected, Taken
<1> QED
  BY <1>2, <1>3

LEMMA IdleStarts ==
  ASSUME FilesApart, FilesFit, NetInit
  PROVE  IdleInv
<1>1. NetInv
  BY NetStarts
<1>2. \A n \in Names : Fitting(n, etc)
  BY DEF FilesFit, NetInit
<1>3. Proper(etc) /\ name \in Names /\ Fitting(name, etc)
  BY <1>1, <1>2 DEF NetInv, NetTypes
<1>4. iface = ReadIface(name, etc) /\ entry = Showing(name, ReadIface(name, etc), Unfilled)
  BY DEF NetInit
<1>5. Agrees(Taken(name, iface, entry), ReadIface(name, etc))
  BY <1>3, <1>4, UnfilledType, ShownAgrees
<1> QED
  BY <1>1, <1>2, <1>5, CollectedIs DEF IdleInv

LEMMA IdleStep ==
  ASSUME IdleInv, [NetNext]_netVars
  PROVE  IdleInv'
<1>0. /\ NetInv /\ NetInv' /\ NetTypes /\ Pending
      /\ \A n \in Names : Fitting(n, etc)
      /\ ~ touched => Agrees(Collected, ReadIface(name, etc))
  BY NetStep DEF IdleInv, NetInv
<1>1. ASSUME etc' = etc PROVE \A n \in Names : Fitting(n, etc')
  BY <1>0, <1>1
<1>2. ASSUME NEW n \in Names, Select(n) PROVE IdleInv'
  <2>1. /\ etc' = etc /\ name' = n /\ iface' = ReadIface(n, etc)
        /\ entry' = Showing(n, iface', entry) /\ entry \in Entries
    BY <1>0, <1>2 DEF Select, Edited, NetTypes
  <2>2. Agrees(Collected', ReadIface(name', etc'))
    BY <1>0, <2>1, ShowingIdle
  <2> QED
    BY <1>0, <1>1, <2>1, <2>2 DEF IdleInv
<1>3. ASSUME NEW o \in Options, NEW v \in Typed[o], Type(o, v) PROVE IdleInv'
  <2>1. etc' = etc /\ touched' = TRUE
    BY <1>3 DEF Type, Edited
  <2> QED
    BY <1>0, <1>1, <2>1 DEF IdleInv
<1>4. CASE Toggle
  <2>1. etc' = etc /\ touched' = TRUE
    BY <1>4 DEF Toggle, Edited
  <2> QED
    BY <1>0, <1>1, <2>1 DEF IdleInv
<1>5. CASE ApplyWrite
  <2>1. Collected' = Collected
    BY <1>0, <1>5, CollectedStays
  <2>2. etc' = etc /\ name' = name /\ touched' = touched
    BY <1>5 DEF ApplyWrite
  <2> QED
    BY <1>0, <1>1, <2>1, <2>2 DEF IdleInv
<1>6. CASE ApplyRename
  <2> DEFINE wifi == name \in Wireless
  <2>1. PICK v0 \in BOOLEAN : tmp = Others(name, etc, v0) \o Stanza(name, Collected, wifi)
    BY <1>0, <1>6 DEF ApplyRename, Pending
  <2>2. /\ Collected \in Settings /\ wifi \in BOOLEAN /\ Proper(etc) /\ name \in Names
        /\ iface \in Settings /\ entry \in Entries
    BY <1>0, CollectedType DEF NetTypes
  <2>3. Replaces(tmp, name, etc, Collected, wifi)
    <3> HIDE DEF wifi
    <3> QED
      BY <2>1, <2>2, Rewritten DEF wifi
  <2>4. PICK opts : /\ OptionsOf(opts, Collected, wifi)
                    /\ Body(name, tmp) = <<HeadLine(name, Collected)>> \o opts
    BY <2>3 DEF Replaces
  <2>5. Collected = Taken(name, iface, entry) /\ Proper(tmp)
    BY <2>3, CollectedIs DEF Replaces
  <2>6. /\ Fitting(name, tmp)
        /\ Agrees(Collected, ReadIface(name, etc)) => Agrees(Collected, ReadIface(name, tmp))
    BY <2>2, <2>4, <2>5, WrittenAgrees
  <2>7. ASSUME NEW n \in Names, n # name PROVE Fitting(n, tmp)
    <3>1. Row(n, tmp) = Row(n, etc)
      BY <2>3, <2>7 DEF Replaces
    <3>2. Body(n, tmp) = Body(n, etc)
      BY <3>1 DEF Row
    <3>3. Fitting(n, etc)
      BY <1>0
    <3> QED
      BY <3>2, <3>3 DEF Fitting
  <2>8. Collected' = Collected /\ etc' = tmp /\ name' = name /\ touched' = touched
    BY <1>6 DEF ApplyRename, Collected
  <2>9. \A n \in Names : Fitting(n, etc')
    BY <2>6, <2>7, <2>8
  <2> QED
    BY <1>0, <2>6, <2>8, <2>9 DEF IdleInv
<1>7. CASE ApplyUp
  <2>1. etc' = etc /\ name' = name /\ touched' = touched /\ Collected' = Collected
    BY <1>7 DEF ApplyUp, Collected
  <2> QED
    BY <1>0, <1>1, <2>1 DEF IdleInv
<1>8. CASE Reopen
  <2>1. /\ etc' = etc /\ name' \in Names /\ iface' = ReadIface(name', etc)
        /\ entry' = Showing(name', iface', Unfilled)
    BY <1>8 DEF Reopen
  <2>2. Agrees(Collected', ReadIface(name', etc'))
    BY <1>0, <2>1, UnfilledType, ShowingIdle
  <2> QED
    BY <1>0, <1>1, <2>1, <2>2 DEF IdleInv
<1>9. CASE UNCHANGED netVars
  <2>1. etc' = etc /\ name' = name /\ touched' = touched /\ Collected' = Collected
    BY <1>9 DEF netVars, Collected
  <2> QED
    BY <1>0, <1>1, <2>1 DEF IdleInv
<1> QED
  BY <1>2, <1>3, <1>4, <1>5, <1>6, <1>7, <1>8, <1>9 DEF NetNext

\* To press Apply and touch nothing changes no setting but the mode, of a file
\* whose stanzas are apart and set nothing the window would not write: neither an
\* address under dhcp nor a radio of a wired interface.
THEOREM ApplyIdleSafe ==
  ASSUME FilesApart, FilesFit
  PROVE  NetSpec => []ApplyIsIdle
<1>1. NetInit => IdleInv
  BY IdleStarts
<1>2. IdleInv /\ [NetNext]_netVars => IdleInv'
  BY IdleStep
<1>3. IdleInv => ApplyIsIdle
  BY DEF IdleInv, ApplyIsIdle, Agrees
<1> QED
  BY <1>1, <1>2, <1>3, PTL DEF NetSpec
==============================================================================
