SPECIFICATION Spec
CONSTANTS
  Options = {"--", "word", "--opt=value", "--C", "--dump", "--debug", "--cpp-output", "--typedef", "++option", "-unknown", "--output", "--verbose"}
  MaxArgs = 4
  MaxFiles = 2
  Statuses = {2, 256}
INVARIANTS TypeOK InputsReady FailuresCounted
PROPERTY EndsClean
CHECK_DEADLOCK FALSE
