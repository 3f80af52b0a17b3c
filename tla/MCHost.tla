------------------------------- MODULE MCHost -------------------------------
(* Small instances of Host for TLC. *)
EXTENDS Host, TLC

CONSTANTS c1, c2, read, toolRun, shell, exec, noShell, askTool, byOperator

MCMatches == (noShell :> {shell}) @@ (askTool :> {toolRun, shell})
MCRule == {noShell, askTool, byOperator}

\* The 400 years that the calendar repeats, and some before; the ends of a second,
\* a minute, an hour and a day.
MCDay == -1000 .. 146096
MCSecond == {86400 * d - s : d \in -3 .. 20, s \in {1, 2, 60, 61, 3600, 3601}}

ClientSymmetry == Permutations(Client)
=============================================================================
