SPECIFICATION Spec
CONSTANTS
  Options = {"--", "word", "--dump", "--debug"}
  MaxArgs = 2
  MaxFiles = 2
  Statuses = {2, 256}
INVARIANT ExitStatus
CHECK_DEADLOCK FALSE
