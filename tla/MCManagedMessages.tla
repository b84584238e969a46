------------------------- MODULE MCManagedMessages --------------------------
(* Two managed messages, one with a reaction, and histories of config.json. *)
EXTENDS ManagedMessages

MCNames == <<"welcome", "rules">>
MCSeeded == {"rules"}

Msg(channel, content) == [channel |-> channel, content |-> content]
Config(c1, t1, c2, t2) == [n \in NameSet |-> IF n = "welcome" THEN Msg(c1, t1) ELSE Msg(c2, t2)]

\* New contents, a message that moves, a file that is no use, an ambiguous channel.
MCConfigs ==
  << Config("lobby", 1, "lobby", 11), Config("lobby", 2, "lobby", 12), Config("lobby", 2, "lobby", 12),
     Config("lobby", 2, "lobby", 12), Config("hall", 3, "attic", 13) >>

\* A message that is changed and changed back.
MCReverted == << Config("lobby", 1, "lobby", 11), Config("lobby", 2, "lobby", 11),
                 Config("lobby", 1, "lobby", 11) >>

MCRejected == {3}
MCUnreadable == {4}
MCNoVersion == {}
MCChannels == {"lobby", "hall"}
=============================================================================
