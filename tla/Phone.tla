-------------------------------- MODULE Phone --------------------------------
(***************************************************************************)
(* sms-pdu: a run of the program tells a modem, in three commands, to      *)
(* send, list or delete messages.  After each command it sleeps half a     *)
(* second, reads the serial line once, and judges by what that read ends   *)
(* with.  What the modem says later stays in the line for the next read,   *)
(* or the next run.                                                        *)
(*                                                                         *)
(* The modem is external: it handles what it is sent in order, at its own  *)
(* pace, and refuses a message whose lengths disagree.  A text is          *)
(* abstracted to its length in octets of UCS-2, an answer to its end.      *)
(***************************************************************************)
EXTENDS Integers, Sequences, SequencesExt

CONSTANTS
  Numbers,       \* what stands from the number argument on: its characters, the
                 \* terminator, and what comes next in memory
  Lengths,       \* of the texts
  MaxRuns,       \* bound: how often the program is run
  MaxCuts        \* bound: runs that are killed, answers that come in two parts

Digits == 11     \* address_len
Header == 15     \* sizeof(PDU_send_header)

\* A character c is the octet c - '0'.
Octet == 0 .. 255
Plus  == 251
Nul   == 208

\* Beyond 496 octets the digits of the PDU overrun their buffer.
ASSUME PhoneAssumption ==
  /\ \A num \in Numbers :
       num \in Seq(Octet) /\ Len(num) > Digits /\ \E e \in 1 .. Len(num) : num[e] = Nul
  /\ Lengths \subseteq 0 .. 496
  /\ MaxRuns \in Nat /\ MaxCuts \in Nat

VARIABLES
  job,       \* what the program is run for, or NoJob
  step,      \* the command it has sent and waits for, 0 if none
  wire,      \* what it sent and the modem has not handled
  line,      \* what the modem said and nobody has read
  prompt,    \* the length announced by the at+cmgs whose PDU the modem awaits, or 0
  deleted,   \* the runs whose at+cmgd the modem obeyed
  sent,      \* the messages it sent
  ended,     \* the last run that ended, and whether its exit code is 0
  runs, cuts

phoneVars == <<job, step, wire, line, prompt, deleted, sent, ended, runs, cuts>>

NoJob == [cmd |-> "none", num |-> <<>>, len |-> 0, data |-> 0]

Commands(cmd) ==
  CASE cmd = "send"   -> <<"cmgf", "cmgs", "pdu">>
    [] cmd = "list"   -> <<"cmgf", "cscs", "cmgl">>
    [] cmd = "delete" -> <<"cmgf", "cscs", "cmgd">>

PhoneInit ==
  /\ job = NoJob /\ step = 0
  /\ wire = <<>> /\ line = <<>> /\ prompt = 0
  /\ deleted = {} /\ sent = {}
  /\ ended = [run |-> 0, cmd |-> "none", ok |-> FALSE]
  /\ runs = 0 /\ cuts = 0

-----------------------------------------------------------------------------
(* The PDU                                                                 *)

\* a | b of four bits each.
OrBit(a, b, k) == IF (a \div k) % 2 = 1 \/ (b \div k) % 2 = 1 THEN k ELSE 0
Or4(a, b) == OrBit(a, b, 1) + OrBit(a, b, 2) + OrBit(a, b, 4) + OrBit(a, b, 8)

\* (oh << 4) | ol in eight bits.
Packed(oh, ol) == 16 * Or4(oh % 16, ol \div 16) + (ol % 16)

\* Mutant: the digits of an octet are not swapped.
NibblesInOrder(num) ==
  [i \in 1 .. 6 |-> Packed(num[2 * i - 1], IF i < 6 THEN num[2 * i] ELSE 15)]

\* pdu_prepare_send_header: two of the first eleven characters to an octet,
\* whatever they are, the first in the low half.
Nibbles(num) ==
  [i \in 1 .. 6 |-> Packed(IF i < 6 THEN num[2 * i] ELSE 15, num[2 * i - 1])]

\* What the modem makes of them (external).
Dialled(octets) ==
  [i \in 1 .. Digits |-> IF i % 2 = 1 THEN octets[(i + 1) \div 2] % 16
                         ELSE octets[i \div 2] \div 16]

\* The length of the data is stored in eight bits.
Pdu(j) == [number |-> Nibbles(j.num), data_len |-> j.data % 256, octets |-> Header + j.data]

-----------------------------------------------------------------------------
(* The program                                                             *)

\* send_to_phone
Say(j, s, run) ==
  wire' = Append(wire, [cmd |-> Commands(j.cmd)[s], run |-> run, job |-> j, pdu |-> Pdu(j)])

\* A text that cannot be converted becomes an empty one.
Begin(j) ==
  /\ step = 0 /\ runs < MaxRuns
  /\ runs' = runs + 1
  /\ job' = j /\ step' = 1
  /\ Say(j, 1, runs')
  /\ UNCHANGED <<line, prompt, deleted, sent, ended, cuts>>

Jobs ==
  {[cmd |-> c, num |-> CHOOSE n \in Numbers : TRUE, len |-> 0, data |-> 0] :
     c \in {"list", "delete"}}
  \cup {j \in [cmd : {"send"}, num : Numbers, len : Lengths, data : Lengths \cup {0}] :
          j.data \in {j.len, 0}}

\* Mutant: any answer will do.
Accepts(cmd, answer) == TRUE

\* send_at_string: the end of what was read.
Matches(cmd, answer) ==
  CASE cmd = "cmgs" -> answer = "prompt"
    [] cmd = "pdu"  -> TRUE
    [] OTHER        -> answer = "ok"

\* read returns all there is.  Of send, only the first answer decides about the
\* exit code.
Read ==
  /\ step > 0 /\ line # <<>>
  /\ line' = <<>>
  /\ LET cmd  == Commands(job.cmd)[step]
         good == Matches(cmd, Last(line))
     IN  IF good /\ step < 3
         THEN /\ step' = step + 1
              /\ Say(job, step', runs)
              /\ UNCHANGED <<job, ended>>
         ELSE /\ step' = 0 /\ job' = NoJob
              /\ ended' = [run |-> runs, cmd |-> job.cmd,
                           ok |-> good \/ (job.cmd = "send" /\ step > 1)]
              /\ UNCHANGED wire
  /\ UNCHANGED <<prompt, deleted, sent, runs, cuts>>

KillPhone ==
  /\ step > 0 /\ cuts < MaxCuts
  /\ cuts' = cuts + 1
  /\ step' = 0 /\ job' = NoJob
  /\ UNCHANGED <<wire, line, prompt, deleted, sent, ended, runs>>

-----------------------------------------------------------------------------
(* The modem (external)                                                    *)

\* The answer comes at once, or its end comes later.
Answer(a) ==
  \/ line' = Append(line, a) /\ wire' = Tail(wire) /\ UNCHANGED cuts
  \/ /\ cuts < MaxCuts
     /\ cuts' = cuts + 1
     /\ line' = Append(line, "part")
     /\ wire' = <<[Head(wire) EXCEPT !.cmd = a]>> \o Tail(wire)

\* The end of an answer that came in two parts.
ModemGoesOn ==
  /\ wire # <<>> /\ Head(wire).cmd \in {"ok", "error", "prompt"}
  /\ line' = Append(line, Head(wire).cmd) /\ wire' = Tail(wire)
  /\ UNCHANGED <<job, step, prompt, deleted, sent, ended, runs, cuts>>

\* At the prompt everything but a PDU is taken for the beginning of one.
ModemSwallows ==
  /\ wire # <<>> /\ prompt # 0 /\ Head(wire).cmd \in {"cmgf", "cscs", "cmgl", "cmgd", "cmgs"}
  /\ wire' = Tail(wire)
  /\ UNCHANGED <<job, step, line, prompt, deleted, sent, ended, runs, cuts>>

ModemObeys ==
  /\ wire # <<>> /\ prompt = 0
  /\ LET c == Head(wire) IN
     /\ c.cmd \in {"cmgf", "cscs", "cmgl", "cmgd", "cmgs"}
     /\ \/ Answer("error") /\ UNCHANGED <<prompt, deleted>>
        \/ /\ Answer(IF c.cmd = "cmgs" THEN "prompt" ELSE "ok")
           /\ deleted' = IF c.cmd = "cmgd" THEN deleted \cup {c.run} ELSE deleted
           /\ prompt' = IF c.cmd = "cmgs" THEN c.pdu.octets - 1 ELSE 0
  /\ UNCHANGED <<job, step, sent, ended, runs>>

\* Without a prompt, a PDU is no command.
ModemSends ==
  /\ wire # <<>> /\ Head(wire).cmd = "pdu"
  /\ LET c == Head(wire)
         sound == /\ prompt = c.pdu.octets - 1
                  /\ c.pdu.data_len = c.pdu.octets - Header /\ c.pdu.data_len <= 140
     IN  \/ /\ sound /\ Answer("ok")
            /\ sent' = sent \cup {[job |-> c.job, num |-> Dialled(c.pdu.number),
                                   len |-> c.pdu.data_len]}
         \/ Answer("error") /\ UNCHANGED sent
  /\ prompt' = 0
  /\ UNCHANGED <<job, step, deleted, ended, runs>>

Modem == ModemGoesOn \/ ModemSwallows \/ ModemObeys \/ ModemSends

PhoneNext == (\E j \in Jobs : Begin(j)) \/ Read \/ KillPhone \/ Modem

PhoneSpec == PhoneInit /\ [][PhoneNext]_phoneVars

-----------------------------------------------------------------------------
(* Properties                                                              *)

\* Where the argument ends.
End(num) == CHOOSE e \in 1 .. Len(num) :
              num[e] = Nul /\ \A i \in 1 .. e - 1 : num[i] # Nul

\* The number that is meant, with or without the + of the international form.
Meant(num) ==
  SubSeq(num, IF num[1] = Plus THEN 2 ELSE 1, End(num) - 1)

\* The numbers the header is made for.
Eleven(num) ==
  (\A i \in 1 .. Digits : num[i] \in 0 .. 9) /\ num[Digits + 1] = Nul

\* What goes out is the whole text or, when it could not be converted, nothing.
\* It goes to the number that is meant if that is given as eleven digits and
\* nothing else; the +79234070523 of the usage text is not.
SentAsAsked ==
  \A m \in sent :
    /\ Eleven(m.job.num) => m.num = Meant(m.job.num)
    /\ m.len \in {m.job.len, 0}

\* The PDU never reaches the modem as a command line, whatever earlier runs were
\* killed or left unread.
PduAtPrompt == wire # <<>> /\ Head(wire).cmd = "pdu" => prompt # 0

\* A run of delete that succeeds has deleted, if no run before it was killed and
\* no answer came in parts.
DeleteDeletes ==
  cuts = 0 /\ ended.cmd = "delete" /\ ended.ok => ended.run \in deleted

\* A command follows only the answer it waits for: what that answer was the end
\* of is what the modem has done.
AnswersTrusted == PduAtPrompt /\ DeleteDeletes
==============================================================================
