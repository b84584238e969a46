\* Two mappings of one role: the second takes away what the first gives.
SPECIFICATION Spec
CONSTANTS
  Users = {"ann"}
  Bot = "kippe"
  Configs <- MCShared
  Rejected <- MCNoVersion
  Guilds <- MCGuilds
  Others <- MCOthers
  Emojis = {"a", "b"}
  MaxActions = 2
  MaxReactions = 2
  MaxFaults = 2
INVARIANT LastReactionDecidesAlways
