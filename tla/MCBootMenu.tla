----------------------------- MODULE MCBootMenu -----------------------------
(* Instances of BootMenu for TLC. *)
EXTENDS BootMenu, TLC

\* The entry of a PC (PCBOOT); a PlayStation 3 has a second one.
Pc == <<"poweroff">>

\* What the readers make of the files in ps3boot/test: two entries with kernel
\* and initrd, the second one the default, to be booted after two seconds ...
Kboot == [read |-> "ok", n |-> 2, shown |-> 2, auto |-> TRUE, timeout |-> 2,
          kernel |-> TRUE, initrd |-> TRUE, cmdline |-> TRUE]
\* ... one whose default comes after its entries, or has no command line ...
Grub == [Kboot EXCEPT !.n = 1, !.shown = 1, !.auto = FALSE, !.timeout = 1,
                      !.cmdline = FALSE]
\* ... a ps3boot.conf, whose entries name a command, and no entry at all.
Script == [Kboot EXCEPT !.n = 1, !.shown = 1, !.timeout = 1,
                        !.kernel = FALSE, !.initrd = FALSE]
Unmountable == [Nothing EXCEPT !.read = "no_mount"]
NoConf      == [Nothing EXCEPT !.read = "no_config"]

\* Any media, good or bad; those that start a kernel.
MenuMedia == {Kboot, Script, Grub, Unmountable, NoConf}
KexecMedia == {Kboot, Grub}

Same == Permutations(Disks) \cup Permutations(Nodes)
=============================================================================
