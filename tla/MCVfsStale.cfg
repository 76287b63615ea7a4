\* One write, then a commit.
CONSTANTS
  Names = {1}
  Apple = {}
  Bytes = {2}
  Offsets = {1}
  Handlers = {h1}
  Base <- MCBase
  Place <- MCPlace
  Calls = {"write"}
  Careful = TRUE
  PageSizes = {2, 3}
  MaxOps = 1
  MaxCommits = 1
  MaxMishaps = 0
SPECIFICATION Spec
PROPERTY CommitKeepsView
CHECK_DEADLOCK FALSE
