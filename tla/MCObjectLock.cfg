SPECIFICATION Spec
CONSTANTS
  e1 = e1
  e2 = e2
  e3 = e3
  Paths <- TwoPaths
  Root <- RootPath
  Parent <- ParentPath
  Below <- BelowPath
  Prefixed <- BelowPath
  Sessions = {e1, e2, e3}
  UserOf <- TwoUsers
  Overriders = {"bob"}
  MaxPending = 2
  MayLogout = {e3}
  MayRelease = TRUE
  None = None
SYMMETRY Alike
PROPERTIES Exclusive EndedByOwner
\* Every session may end.
CHECK_DEADLOCK FALSE
