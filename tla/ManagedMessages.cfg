\* Posts, edits, crashes, failed saves, lost answers, reloads.
SPECIFICATION Spec
CONSTANTS
  Names <- MCNames
  Seeded <- MCSeeded
  Configs <- MCConfigs
  Unreadable <- MCUnreadable
  Rejected <- MCRejected
  MaxActions = 2
  GuildChannels <- MCChannels
  MaxPosts = 5
  MaxFaults = 3
INVARIANTS TypeOK CopiesCostFaults RememberedIsPosted CleanIsInSync
PROPERTY EditIsNoticed
