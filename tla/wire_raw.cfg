SPECIFICATION Spec
CONSTANTS
  MailIds <- NamedMailboxes
  AppBodies <- Opaque
  Receivers <- AllSdks
  Enveloped = FALSE
  MsgIds <- TwoIds
INVARIANTS
  OwnMailboxOnly
  DeleteFinds
  LevelKept
  PayloadKept
  OnlyBinaryDropped
CHECK_DEADLOCK FALSE
