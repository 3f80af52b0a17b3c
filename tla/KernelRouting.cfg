SPECIFICATION Spec
CONSTANTS
  tokens = tokens
  toolRun = toolRun  toolAsk = toolAsk  shell = shell  exec = exec  sleep = sleep
  noShell = noShell  askTool = askTool  byOperator = byOperator  overBudget = overBudget
  Action = {toolRun, toolAsk, shell, exec, sleep}
  Proposable = {toolRun, toolAsk, shell}
  ToolAction = {toolRun, toolAsk}
  ToolExecuted = exec
  SleepAction = {sleep}
  saidOver = saidOver  saidGhost = saidGhost
  Rule <- MCRule
  CallerRules <- MCCallerRules
  BudgetRules = {overBudget, saidOver}
  ApprovalRules = {byOperator}
  DollarRules = {overBudget, saidOver, byOperator, saidGhost}
  Unmatched = {saidGhost}
  DenyRule = {noShell}
  ApprovalRule = {askTool}
  Matches <- MCMatches
  DeniedByOperator = byOperator
  BudgetRule = overBudget
  Time = {0}
  Resource = {tokens}
  MaxAmount <- MCMaxAmount
  Grant <- MCGrant
  Costs <- MCCosts
  Forgery <- MCForgery
  CallerDecision = {"Allowed", "Denied"}
  MaxEvents = 2
INVARIANT StoryIsLogged
CHECK_DEADLOCK FALSE
