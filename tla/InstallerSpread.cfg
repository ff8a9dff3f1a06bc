SPECIFICATION Spec
CONSTANTS
  Null = Null
  Torn = Torn
  Workspaces <- MCWorkspaces
  Plugins = {"absent", "noFilter"}
  McpFiles = {"missing", "without", "stale", "torn"}
  Servers <- MCServers
  Forms <- SpreadForms
  MaxSlips = 1
  MaxKills = 1
INVARIANTS GreenIsTrue
CHECK_DEADLOCK FALSE
