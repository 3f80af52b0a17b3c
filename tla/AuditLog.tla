------------------------------ MODULE AuditLog ------------------------------
(***************************************************************************)
(* What the host promises its clients: one chain of receipts that only     *)
(* grows at its end, by a receipt that carries the next position and the   *)
(* leaf of its predecessor, and acknowledgements only for receipts that    *)
(* are on the chain.  Where TailLoss holds (a power cut under SQLite's     *)
(* synchronous=NORMAL, or a log kept in memory) a tail may disappear.      *)
(***************************************************************************)
EXTENDS Receipts

CONSTANT TailLoss   \* a Boolean

VARIABLES
  chain,   \* the receipts GET /receipts/<id> can find, in order
  acked    \* the receipts some client was sent in a 200 response

avars == <<chain, acked>>

AInit == chain = << >> /\ acked = {}

Extend ==
  /\ Len(chain') = Len(chain) + 1
  /\ IsPrefix(chain, chain')
  /\ Appendable(chain, Last(chain'))
  /\ UNCHANGED acked

Acknowledge ==
  /\ \E r \in ToSet(chain) : acked' = acked \cup {r}
  /\ UNCHANGED chain

LoseTail ==
  /\ TailLoss
  /\ IsPrefix(chain', chain)
  /\ UNCHANGED acked

ANext == Extend \/ Acknowledge \/ LoseTail

ASpec == AInit /\ [][ANext]_avars
=============================================================================
