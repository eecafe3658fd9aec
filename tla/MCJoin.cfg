CONSTANTS
  Node <- MCNode1
  BootstrapSeq <- MCBoot1
  RestartNodes = {"j1", "j2"}
  MaxRestarts = 2
  SequentialBoot = TRUE
SPECIFICATION Spec
INVARIANT TypeOK UniqueIds RegistryTrue
PROPERTY JoinCompletes
CHECK_DEADLOCK FALSE
