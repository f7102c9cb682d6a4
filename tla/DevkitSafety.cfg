SPECIFICATION Spec
CONSTANTS
  Root = "garak"
  Paths <- MCPaths
  Parent <- MCParent
  Sources <- MCSources
  CMakeFiles <- MCCMakeFiles
  IgnoreFile <- MCIgnoreFile
  IgnoreDir <- MCIgnoreDir
INVARIANTS
  ListsRespected
