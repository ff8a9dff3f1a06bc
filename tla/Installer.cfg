SPECIFICATION FairSpec
CONSTANTS
  Null = Null
  Torn = Torn
  Workspaces <- MCWorkspaces
  Plugins = {"absent", "noFilter"}
  McpFiles = {"missing", "without", "stale", "torn"}
  Servers <- MCServers
  Forms <- MCForms
  MaxSlips = 1
  MaxKills = 1
INVARIANTS GreenIsTrue
PROPERTIES RerunKeeps SetupEnds
CHECK_DEADLOCK FALSE
