CONSTANTS
  Node <- MCNode2
  BootstrapSeq <- MCBoot2
  RestartNodes = {}
  MaxRestarts = 0
  SequentialBoot = TRUE
SPECIFICATION Spec
PROPERTY JoinCompletes
CHECK_DEADLOCK FALSE
