------------------------------ MODULE MCKernel ------------------------------
(* Small instances of Kernel and Explain for TLC: one counter, in which    *)
(* the lease can pay for two of the proposed actions.                      *)
EXTENDS Explain, TLC

CONSTANTS tokens, toolRun, toolAsk, shell, exec, sleep,
          noShell, askTool, byOperator, overBudget,
          saidOver, saidGhost

MCRule == {noShell, askTool, byOperator, overBudget, saidOver, saidGhost}

\* What a proposer may bring along: nothing; the kernel's own word for an operator's
\* denial; or a rule that reads like the budget's beside one of a kernel that does not
\* exist, which it says did not match.
MCCallerRules == {{}, {byOperator}, {saidOver, saidGhost}}
MCMatches == (noShell :> {shell}) @@ (askTool :> {toolAsk})

MCMaxAmount == tokens :> 3
MCGrant == tokens :> 2
MCCosts == {tokens :> 1}

\* A pending receipt of another kernel, and a denied receipt of this one
\* that was made to read "Allowed".
MCForgery ==
  {Minted(Genesis, 0, toolAsk, "Pending", {}, ZeroDigest),
   Minted(Genesis, 0, shell, "Allowed", {noShell}, ZeroDigest),
   Minted(Genesis, 0, toolRun, "Allowed", {noShell}, ZeroDigest)}
=============================================================================
