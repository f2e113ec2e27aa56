SPECIFICATION Spec
CONSTANTS
  Kinds = {"stmt", "quit", "open", "bad", "word", "set_word", "set_blank", "empty", "spaces"}
  MaxLines = 3
CHECK_DEADLOCK FALSE
INVARIANTS
  OnceInOrder
  ExitIsLast
  NothingSkipped
