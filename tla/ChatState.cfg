\* archived under both addresses, or everything under one; a command and other devices
CONSTANTS
  Command = {c1}
  Changed = {"archived", "pinned", "muted"}
  MaxHappens = 3
SPECIFICATION Spec
CONSTRAINT Small
CHECK_DEADLOCK FALSE
INVARIANTS ListTellsTruth
