--------------------------- MODULE MCBootHotplug ---------------------------
(* Two machines: one whose only drive changes its media a lot, and one with *)
(* a fixed disk beside the drive.                                           *)
EXTENDS BootHotplug

CONSTANTS DriveEvents, BothEvents

MCMaxEvents ==
  [w \in SUBSET Devices |->
     CASE w = Removable -> DriveEvents
       [] w = Devices   -> BothEvents
       [] OTHER         -> 0]
============================================================================
