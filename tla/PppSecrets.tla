----------------------------- MODULE PppSecrets -----------------------------
(***************************************************************************)
(* pppconfig: the button Apply writes what pppd is to dial with:           *)
(* /etc/ppp/peers/mobile in place, and, while that file is open, the       *)
(* password into pap-secrets and chap-secrets, each rewritten through a    *)
(* copy.  A file is a set of lines; of a line count the login and the      *)
(* password.  (The lines of the files end in a newline.)                   *)
(***************************************************************************)
EXTENDS Integers

CONSTANTS
  Logins,
  Begins,                \* the pairs <<l, m>> such that m begins with l
  Passwords,
  NoLogin, NoPassword,   \* empty entries
  MaxDials               \* bound: how often Apply is pressed

Login  == Logins \cup {NoLogin}
Secret == [login : Login, passwd : Passwords]

ASSUME PppAssumption ==
  /\ NoLogin \notin Logins /\ NoPassword \notin Passwords
  /\ Begins \subseteq Login \X Login
  /\ \A l \in Login : {<<l, l>>, <<NoLogin, l>>} \subseteq Begins
  /\ MaxDials \in Nat

VARIABLES
  pppPc,     \* "form", or in apply_ppp: "pap", "chap", "close"
  peers,     \* peers/mobile: whom it names, and whether by a password
  pap, chap, \* the secrets
  dial,      \* the entries while apply_ppp runs
  first,     \* (history) the secrets before the program was first used
  applied,   \* (history) the logins that secrets were written for
  refused,   \* (history) update_secret could not open a file
  dials

pppVars == <<pppPc, peers, pap, chap, dial, first, applied, refused, dials>>

NoPeers == [user |-> NoLogin, passwd |-> NoPassword, complete |-> FALSE]

PppInit ==
  /\ pppPc = "form"
  /\ peers = NoPeers
  /\ pap \in {s \in SUBSET [login : Logins, passwd : Passwords] :
                \A x, y \in s : x.login = y.login => x = y}
  /\ chap = pap /\ first = pap
  /\ dial = [login |-> NoLogin, passwd |-> NoPassword]
  /\ applied = {} /\ refused = FALSE /\ dials = 0

\* Mutant: the buffer of the peer is flushed before the secrets are written.
ApplyPppFlushed(l, w) ==
  /\ pppPc = "form" /\ dials < MaxDials
  /\ dials' = dials + 1
  /\ dial' = [login |-> l, passwd |-> w]
  /\ peers' = [user |-> l, passwd |-> w, complete |-> TRUE]
  /\ pppPc' = IF w = NoPassword THEN "close" ELSE "pap"
  /\ UNCHANGED <<pap, chap, first, applied, refused>>

\* fopen(peers/mobile, "wb"), and what is printed into its buffer; without a
\* password there is no secret to write.
ApplyPpp(l, w) ==
  /\ pppPc = "form" /\ dials < MaxDials
  /\ dials' = dials + 1
  /\ dial' = [login |-> l, passwd |-> w]
  /\ peers' = NoPeers
  /\ pppPc' = IF w = NoPassword THEN "close" ELSE "pap"
  /\ UNCHANGED <<pap, chap, first, applied, refused>>

\* Mutant: the other way round.
KeptReversed(file, l) == {s \in file : <<s.login, l>> \notin Begins}

\* The lines that do not begin with the login, which may be that of a longer one.
Kept(file, l) == {s \in file : <<l, s.login>> \notin Begins}

\* update_secret: the copy replaces the file, or there is no copy.
UpdatePap ==
  /\ pppPc = "pap"
  /\ pppPc' = "chap"
  /\ \/ /\ pap' = Kept(pap, dial.login) \cup {dial}
        /\ applied' = applied \cup {dial.login}
        /\ UNCHANGED refused
     \/ refused' = TRUE /\ UNCHANGED <<pap, applied>>
  /\ UNCHANGED <<peers, chap, dial, first, dials>>

UpdateChap ==
  /\ pppPc = "chap"
  /\ pppPc' = "close"
  /\ \/ /\ chap' = Kept(chap, dial.login) \cup {dial}
        /\ applied' = applied \cup {dial.login}
        /\ UNCHANGED refused
     \/ refused' = TRUE /\ UNCHANGED <<chap, applied>>
  /\ UNCHANGED <<peers, pap, dial, first, dials>>

\* fclose(outf): only now has the file of the peer a content.
ClosePeers ==
  /\ pppPc = "close"
  /\ pppPc' = "form"
  /\ peers' = [user |-> dial.login, passwd |-> dial.passwd, complete |-> TRUE]
  /\ UNCHANGED <<pap, chap, dial, first, applied, refused, dials>>

KillPpp ==
  /\ pppPc # "form"
  /\ pppPc' = "form"
  /\ UNCHANGED <<peers, pap, chap, dial, first, applied, refused, dials>>

PppNext ==
  \/ \E l \in Login, w \in Passwords \cup {NoPassword} : ApplyPpp(l, w)
  \/ UpdatePap \/ UpdateChap \/ ClosePeers \/ KillPpp

PppSpec == PppInit /\ [][PppNext]_pppVars

-----------------------------------------------------------------------------
(* Properties                                                              *)

Has(file, l, w) ==
  /\ [login |-> l, passwd |-> w] \in file
  /\ \A s \in file : s.login = l => s.passwd = w

\* pppd never finds a peer whose password is missing from pap-secrets or
\* chap-secrets, or ambiguous there, wherever pppconfig was killed; unless a file
\* could not be written, which it does not notice.
Dialable ==
  peers.complete /\ peers.passwd # NoPassword /\ ~ refused =>
    /\ Has(pap, peers.user, peers.passwd)
    /\ Has(chap, peers.user, peers.passwd)

\* A secret is lost only to a login that it begins with: any other stands in
\* both files, whatever was applied before and wherever pppconfig was killed.
SecretsKept ==
  \A s \in first :
    (\A l \in applied : <<l, s.login>> \notin Begins) => s \in pap \cap chap
=============================================================================
