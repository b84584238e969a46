\* A role gets the name of another one between two GUILD_CREATEs of a session.
SPECIFICATION Spec
CONSTANTS
  Users = {"ann"}
  Bot = "kippe"
  Configs <- MCConfigs
  Rejected <- MCRejected
  Guilds <- MCRenamed
  Others <- MCOthers
  Emojis = {"a", "b"}
  MaxActions = 2
  MaxReactions = 2
  MaxFaults = 2
PROPERTY NobodyElseBearsIt
