-------------------------- MODULE MCReactionRoles --------------------------
(* Two mappings on one message, and a configuration that swaps them for    *)
(* others; roles made, deleted and renamed.                                *)
EXTENDS ReactionRoles, TLC

Map(m, e, r, seed) == [message |-> m, emoji |-> e, role |-> r, seed |-> seed]
Config(managed1, mappings1) == [managed |-> managed1, mappings |-> mappings1]

Welcome == Named("welcome")
Rules   == Named("rules")

\* One role by name, one by id; a version that is no use; a message changes its place, the role
\* that had an id gets a name and one is mapped that is not unique. A message is listed twice, and
\* one without a name.
MCConfigs ==
  << Config(<<Welcome>>, <<Map(Welcome, "a", Named("red"), TRUE), Map(Welcome, "b", Direct(12), FALSE)>>),
     Config(<<Welcome>>, <<Map(Welcome, "a", Named("blue"), FALSE)>>),
     Config(<<Rules, Rules, Direct(-1)>>, <<Map(Rules, "a", Named("blue"), FALSE), Map(Welcome, "a", Named("green"), FALSE)>>) >>
MCRejected == {2}

\* One role is deleted, one renamed, two are made: with the renamed one "blue" is borne twice in
\* the second list, and "green" by a role of each list.
MCGuilds == << (11 :> "red" @@ 12 :> "green" @@ 13 :> "gray"),
               (11 :> "red" @@ 13 :> "blue" @@ 14 :> "green" @@ 15 :> "blue") >>
MCOthers == {}

\* Two emojis for one role.
MCShared == << Config(<<Welcome>>, <<Map(Welcome, "a", Direct(12), FALSE), Map(Welcome, "b", Direct(12), FALSE)>>) >>
MCNoVersion == {}

\* A role gets the name of another one.
MCRenamed == << (11 :> "red" @@ 12 :> "green" @@ 13 :> "old"),
                (11 :> "red" @@ 13 :> "blue" @@ 14 :> "blue") >>
=============================================================================
