\* config.json edited while there is no gateway session.
SPECIFICATION Spec
CONSTANTS
  Names <- MCNames
  Seeded <- MCSeeded
  Configs <- MCReverted
  Unreadable <- MCNoVersion
  Rejected <- MCNoVersion
  MaxActions = 2
  GuildChannels <- MCChannels
  MaxPosts = 3
  MaxFaults = 1
INVARIANT NoEditIsMissed
