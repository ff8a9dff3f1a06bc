SPECIFICATION Spec
CONSTANTS
  Null = Null
  Torn = Torn
  Workspaces <- HtmlWorkspaces
  Plugins = {"absent"}
  McpFiles = {"missing"}
  Servers <- NoServer
  Forms <- MCForms
  MaxSlips = 0
  MaxKills = 0
INVARIANTS InitCompletesHtml
CHECK_DEADLOCK FALSE
