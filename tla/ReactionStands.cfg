\* A second reaction takes away what the first one gave.
SPECIFICATION Spec
CONSTANTS
  Users = {"ann"}
  Bot = "kippe"
  Configs <- MCConfigs
  Rejected <- MCRejected
  Guilds <- MCGuilds
  Others <- MCOthers
  Emojis = {"a", "b"}
  MaxActions = 2
  MaxReactions = 2
  MaxFaults = 2
INVARIANT StandingReactionsCount
