SPECIFICATION Spec
CONSTANTS
  MailIds <- TwoMailboxes
  AppBodies <- BinaryOnly
  Receivers <- PythonOnly
  Enveloped = FALSE
  MsgIds <- TwoIds
INVARIANT NothingDropped
CHECK_DEADLOCK FALSE
