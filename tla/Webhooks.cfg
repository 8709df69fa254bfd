SPECIFICATION HookSpec
CONSTANTS
  h1 = h1
  h2 = h2
  e1 = e1
  k = k
  Hooks = {h1, h2}
  Editors = {e1}
  Kinds = {k}
  QueueSize = 1
  MaxRetries = 2
  MaxJobs = 2
  NoHook = NoHook
  NoEdit = NoEdit
PROPERTIES
  HookSeesOrder
  DeletedFallsSilent
CHECK_DEADLOCK FALSE
