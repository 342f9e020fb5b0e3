---------------------------- MODULE MCBootConfig ----------------------------
(* An instance of BootConfig: two labels, and for each reader the lines it   *)
(* tells apart.                                                              *)
EXTENDS BootConfig

All(kinds, vals) == [kind : kinds, val : vals]
Plain(kinds)     == All(kinds, {None})
OneLabel         == {CHOOSE l \in Labels : TRUE}

MCLines ==
  [r \in Readers |->
    CASE r = "kboot" ->
           Plain({"blank", "comment"}) \cup All({"timeout"}, Timeouts)
           \cup All({"default", "head"}, Labels)
      [] r = "yaboot" ->
           Plain({"blank", "arg", "head"}) \cup All({"timeout"}, Timeouts)
           \cup All({"default", "arg"}, OneLabel) \cup All({"label"}, Labels)
      [] r = "ps3boot" ->
           Plain({"blank", "message"}) \cup All({"timeout"}, Timeouts)
           \cup All({"default", "arg"}, OneLabel) \cup All({"head"}, Labels)
      [] r = "syslinux" ->
           Plain({"blank", "comment"})
           \cup All({"message", "arg", "head"}, (OneLabel \cup {None}))
      [] r = "grub" ->
           Plain({"blank", "kernel"}) \cup All({"timeout"}, Timeouts)
           \cup All({"default"}, {0, 1}) \cup All({"head"}, Labels)]
=============================================================================
