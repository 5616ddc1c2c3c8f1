SPECIFICATION FairSpec
CONSTANTS
  MailIds <- TwoMailboxes
  AppBodies <- AllKinds
  Receivers <- AllSdks
  Enveloped = TRUE
  MsgIds <- TwoIds
INVARIANTS
  LevelKept
  PayloadKeptButEmpty
  IdIsServers
  NothingDropped
PROPERTY EveryMessageArrives
CHECK_DEADLOCK FALSE
