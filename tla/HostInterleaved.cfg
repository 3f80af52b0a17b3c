SPECIFICATION Spec
CONSTANTS
  c1 = c1  c2 = c2
  read = read  toolRun = toolRun  shell = shell  exec = exec
  noShell = noShell  askTool = askTool  byOperator = byOperator
  None = None
  Client = {c1, c2}
  Action = {read, toolRun, shell, exec}
  Proposable = {read, toolRun, shell}
  ToolAction = {read, toolRun}
  ToolExecuted = exec
  Rule <- MCRule
  DenyRule = {noShell}
  ApprovalRule = {askTool}
  Matches <- MCMatches
  DeniedByOperator = byOperator
  Time = {0}
  Sqlite = TRUE
  Faults = {}
  Day <- MCDay
  Second <- MCSecond
  MaxRequests = 2
SYMMETRY ClientSymmetry
INVARIANT EveryMintIsAppended
CHECK_DEADLOCK FALSE
