SPECIFICATION Spec
CONSTANTS
  MailIds <- NestedMailboxes
  AppBodies <- TextOnly
  Receivers <- PythonOnly
  Enveloped = FALSE
  MsgIds <- TwoIds
INVARIANT OwnMailboxOnly
CHECK_DEADLOCK FALSE
