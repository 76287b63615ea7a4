\* One careful client, every kind of call.
CONSTANTS
  Names = {1, 2, 9}
  Apple = {9}
  Bytes = {2}
  Offsets = {1}
  Handlers = {h1}
  Base <- MCBase
  Place <- MCPlace
  Calls = {"create", "mkdir", "remove", "rename", "write", "trunc"}
  Careful = TRUE
  PageSizes = {2, 3}
  MaxOps = 3
  MaxCommits = 1
  MaxMishaps = 1
SPECIFICATION Spec
INVARIANTS TreeIsRooted TablesAgree ReplayMatchesLive ReplayTwiceIsOnce ReaddirComplete LoggedPaths ReplayInStep NoAppleCommitted EntriesInGitOrder
PROPERTIES CommitChangesOnlyLogged CommitHasWrites NamesStayApart
CHECK_DEADLOCK FALSE
