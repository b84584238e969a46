\* Reactions, role requests that fail or come late, reloads, resumes, restarts.
SPECIFICATION Spec
CONSTANTS
  Users = {"ann"}
  Bot = "kippe"
  Configs <- MCConfigs
  Rejected <- MCRejected
  Guilds <- MCGuilds
  Others <- MCOthers
  Emojis = {"a", "b"}
  MaxActions = 2
  MaxReactions = 2
  MaxFaults = 2
INVARIANTS LastReactionDecides RefsMeanNames
PROPERTY NobodyElseBroughtIt
