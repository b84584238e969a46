\* A message changed and changed back, with an answer lost between.
SPECIFICATION Spec
CONSTANTS
  Names <- MCNames
  Seeded <- MCSeeded
  Configs <- MCReverted
  Unreadable <- MCNoVersion
  Rejected <- MCNoVersion
  MaxActions = 2
  GuildChannels <- MCChannels
  MaxPosts = 3
  MaxFaults = 1
INVARIANT StaysInSync
