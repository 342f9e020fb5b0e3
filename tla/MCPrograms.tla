----------------------------- MODULE MCPrograms -----------------------------
(***************************************************************************)
(* The small programs of the image, the rules that fetch their sources,    *)
(* and /init of the initramfs.  They share no state: a behaviour is one of *)
(* one of them, chosen at first, and the others stay as they begin.        *)
(***************************************************************************)
EXTENDS Splash, MCNetConfig, PppSecrets, Phone, Cursor, Minimount, Checkout,
        Initramfs

CONSTANTS ann, anna   \* logins

\* One login is the beginning of the other.
MCBegins == {<<l, m>> \in Login \X Login : l \in {m, NoLogin} \/ (l = ann /\ m = anna)}

\* A number of which no octet holds two equal digits, and the same as the usage
\* text of sms-pdu writes it.
SubscriberDigits == <<7, 9, 2, 3, 4, 0, 7, 0, 5, 2, 3, Nul>>
MCNumbers == {SubscriberDigits, <<Plus>> \o SubscriberDigits}

\* What NetConfigProofs takes of the files of netconfig.
ASSUME FilesAreApart ==
  \A f \in Files : OneStanza(f) /\ Apart(f) /\ \A n \in Names : Fitting(n, f)

VARIABLE program

progVars == <<program, vars, netVars, pppVars, phoneVars, cursorVars, mmVars, checkoutVars,
              initramfsVars>>

Programs == {"dancesplash", "netconfig", "pppconfig", "sms-pdu", "sn-monitor",
             "minimount", "checkout", "initramfs"}

Runs(p) == program = p /\ UNCHANGED program

ProgInit ==
  /\ program \in Programs
  /\ Init /\ NetInit /\ PppInit /\ PhoneInit /\ CursorInit /\ MinimountInit /\ CheckoutInit
  /\ InitramfsInit
  \* One initial state of those that do not run.
  /\ program # "netconfig" => etc = <<>> /\ name = eth0
  /\ program # "pppconfig" => pap = {}
  /\ program # "checkout"  => way = <<"svn", "plain">>
  /\ program # "initramfs" =>
       /\ machine = [aufs |-> FALSE, vram |-> FALSE]
       /\ bootDisks = [d \in Numbered |-> [candidate |-> FALSE, whole |-> FALSE,
                                         big |-> FALSE, writable |-> "none"]]

ProgNext ==
  \/ /\ Runs("dancesplash") /\ Next
     /\ UNCHANGED <<netVars, pppVars, phoneVars, cursorVars, mmVars, checkoutVars, initramfsVars>>
  \/ /\ Runs("netconfig") /\ NetNext
     /\ UNCHANGED <<vars, pppVars, phoneVars, cursorVars, mmVars, checkoutVars, initramfsVars>>
  \/ /\ Runs("pppconfig") /\ PppNext
     /\ UNCHANGED <<vars, netVars, phoneVars, cursorVars, mmVars, checkoutVars, initramfsVars>>
  \/ /\ Runs("sms-pdu") /\ PhoneNext
     /\ UNCHANGED <<vars, netVars, pppVars, cursorVars, mmVars, checkoutVars, initramfsVars>>
  \/ /\ Runs("sn-monitor") /\ CursorNext
     /\ UNCHANGED <<vars, netVars, pppVars, phoneVars, mmVars, checkoutVars, initramfsVars>>
  \/ /\ Runs("minimount") /\ MinimountNext
     /\ UNCHANGED <<vars, netVars, pppVars, phoneVars, cursorVars, checkoutVars, initramfsVars>>
  \/ /\ Runs("checkout") /\ CheckoutNext
     /\ UNCHANGED <<vars, netVars, pppVars, phoneVars, cursorVars, mmVars, initramfsVars>>
  \/ /\ Runs("initramfs") /\ InitramfsNext
     /\ UNCHANGED <<vars, netVars, pppVars, phoneVars, cursorVars, mmVars, checkoutVars>>

\* Of dancesplash, what FairSpec says.
ProgSpec ==
  /\ ProgInit /\ [][ProgNext]_progVars
  /\ WF_vars(Serve) /\ \A s \in Scripts : WF_vars(Update(s))
=============================================================================
