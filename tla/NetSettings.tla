---------------------------- MODULE NetSettings ----------------------------
(***************************************************************************)
(* What the window of netconfig promises: the settings of the interfaces   *)
(* are a table, and the button Apply replaces the row of the interface     *)
(* that is selected by what the window shows.                              *)
(***************************************************************************)
CONSTANT Names

VARIABLES
  table,     \* table[n]: the settings of interface n
  selected,
  shown      \* the settings in the window

vars == <<table, selected, shown>>

Apply == table' = [table EXCEPT ![selected] = shown] /\ UNCHANGED <<selected, shown>>

\* The user types, or selects another interface.
Edit == UNCHANGED table

Next == Apply \/ Edit

Init == selected \in Names

Spec == Init /\ [][Next]_vars
=============================================================================
