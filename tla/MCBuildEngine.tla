---------------------------- MODULE MCBuildEngine ----------------------------
(* Instances of BuildEngine for TLC. *)
EXTENDS BuildEngine, TLC

\* Every package has a stem of its own.
OwnStems == [p \in 1 .. NRules |-> ToString(p)]

\* gtk2.sh, cairo.sh and gtk2-directfb.sh: two versions of gtk+ with one stem.
GtkStems == <<"gtk+-2", "cairo-1", "gtk+-2">>

Clones == Permutations(Workdirs)
=============================================================================
