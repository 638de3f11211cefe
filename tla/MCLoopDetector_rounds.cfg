SPECIFICATION Spec
CONSTANTS
  Repertoire <- EditRunRead
  Sensitive = {"edit_file", "execute_command", "read_file"}
  MultiAction = {"browser"}
INVARIANT RoundsOfThreeAreBlocked
CHECK_DEADLOCK FALSE
