SPECIFICATION Spec
CONSTANTS
  e1 = e1
  e2 = e2
  w = w
  s = s
  approval = approval
  result = result
  Pubkeys = {w}
  Reasons <- MCReasons
  NoReason = NoReason
  Kinds = {result, approval}
  Events = {e1, e2}
  Author <- WriterAuthor
  KindOf <- BothKind
  ApprovalKinds = {approval}
  AdminKinds = {}
  ExecutionKinds = {result}
  AuthKinds = {approval}
  ServerKey = s
  AllowlistMode = TRUE
CHECK_DEADLOCK FALSE
INVARIANTS
  TypeOK
  StoredAuthorWasWelcome
  DeniedKindNotStored
  ShutdownStoresNothingUnchecked
  StoredAuthorHadAuthority
