------------------------------- MODULE Cursor -------------------------------
(***************************************************************************)
(* sn-monitor: the cursor of the root window is a watch while programs     *)
(* start.  Launchers and programs announce startup sequences over X, libsn *)
(* turns the announcements into events, and sn-monitor sets the cursor by  *)
(* the type of the last event, without counting the sequences.  It sets no *)
(* time limit.                                                             *)
(***************************************************************************)
EXTENDS Integers, Sequences

CONSTANTS
  Launched,           \* startup sequences
  MaxSequenceEvents   \* bound: events

VARIABLES
  starting,    \* the sequences that have begun and not ended
  snEvents,    \* the events sn-monitor has not handled, in order
  cursor,      \* "busy", "normal"
  overlapped,  \* (history) since nothing started, two sequences were under way
  snCount

cursorVars == <<starting, snEvents, cursor, overlapped, snCount>>

CursorInit ==
  /\ starting = {} /\ snEvents = <<>> /\ cursor = "normal"
  /\ overlapped = FALSE /\ snCount = 0

\* What libsn makes of the messages of others (external).
SnEvent(type) ==
  /\ snCount < MaxSequenceEvents
  /\ snCount' = snCount + 1
  /\ snEvents' = Append(snEvents, type)
  /\ UNCHANGED cursor

Initiate(s) ==
  /\ s \notin starting
  /\ SnEvent("initiated")
  /\ starting' = starting \cup {s}
  /\ overlapped' = (overlapped \/ starting # {})

Change(s) ==
  /\ s \in starting
  /\ SnEvent("changed")
  /\ UNCHANGED <<starting, overlapped>>

EndSequence(s) ==
  /\ s \in starting
  /\ SnEvent("completed") \/ SnEvent("canceled")
  /\ starting' = starting \ {s}
  /\ overlapped' = (overlapped /\ starting' # {})

\* Mutant: a sequence that was given up is not ended.
CursorOfCompleted(type) == IF type = "completed" THEN "normal" ELSE "busy"

\* screen_set_root_cursor, by the type of the event.
CursorOf(type) == IF type \in {"initiated", "changed"} THEN "busy" ELSE "normal"

MonitorEvent ==
  /\ snEvents # <<>>
  /\ cursor' = CursorOf(Head(snEvents))
  /\ snEvents' = Tail(snEvents)
  /\ UNCHANGED <<starting, overlapped, snCount>>

CursorNext ==
  \/ \E s \in Launched : Initiate(s) \/ Change(s) \/ EndSequence(s)
  \/ MonitorEvent

CursorSpec == CursorInit /\ [][CursorNext]_cursorVars

-----------------------------------------------------------------------------
(* Properties                                                              *)

\* Once all events are handled the cursor is not a watch if nothing starts,
\* whatever came before; and it is one if something does, unless two sequences
\* were under way at once: the end of the first takes the watch away from the
\* second, and a change of the second brings it back.
WatchWhileStarting ==
  snEvents = <<>> /\ ~ overlapped => (cursor = "busy" <=> starting # {})
==============================================================================
