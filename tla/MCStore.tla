------------------------------ MODULE MCStore ------------------------------
(* Small instances of Sleep and Wire, and of what they extend, for TLC.    *)
EXTENDS Sleep, Wire, TLC

CONSTANTS p1, p2, k1, k2, work, tool, altered

MCAction == Work \cup Tool \cup SleepAction

\* First receipts that no process signs here: those that name an operator as issuer and
\* bear the stranger's signature, and those that an operator signed for another log.
MCStrange == Sign(1, Stranger, Minted(Genesis, 0, work, "Allowed", {}, ZeroDigest))
MCElsewhere(k) == Sign(1, k, Minted(Genesis, 0, tool, "Allowed", {}, ZeroDigest))
MCOffered == {[MCStrange EXCEPT !.issuer = k] : k \in Key}
MCOutside == MCOffered \cup {MCElsewhere(k) : k \in Key}

\* 2^53 + 1 is read as 2^53.
MCInexact == [n \in {MaxSafe + 1} |-> Decimal(MaxSafe)]

MCSymmetry == Permutations(Process) \cup Permutations(Key)
=============================================================================
