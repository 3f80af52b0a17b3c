------------------------------ MODULE Receipts ------------------------------
(***************************************************************************)
(* Receipts, the kernel state that chains them, and the two checks every   *)
(* ReceiptLog makes: may this receipt be appended, is the whole chain      *)
(* sound.                                                                  *)
(*                                                                         *)
(* BLAKE3 is taken to be free of collisions: a leaf hash is the sequence   *)
(* of everything hashed into it, the fields of its own receipt appended to *)
(* those behind prev_hash, and the all-zero digest is the empty sequence.  *)
(* As in compute_leaf_hash, the rules and the provenance of a receipt are  *)
(* not hashed into its leaf.  The content id of a receipt is the record    *)
(* itself.  All receipts are signed by the one issuer the log is pinned    *)
(* to, so the signature, version and issuer checks always pass here.       *)
(*                                                                         *)
(* Of the provenance of a receipt only `cites` is kept: the leaf of the    *)
(* receipt named by its "receipt:<id>" edge, or ZeroDigest without one.    *)
(* Only proposal receipts are ever cited, and the leaf of one determines   *)
(* its body, so leaf and content id single out the same receipt.           *)
(***************************************************************************)
EXTENDS Naturals, Sequences, SequencesExt

CONSTANTS
  Action,   \* every action a receipt can record
  Rule,     \* every rule id a receipt can record
  Time      \* values of issued_at (the clock has one-second resolution)

Decision == {"Allowed", "Denied", "Approved", "Pending"}

\* What one receipt contributes to the chain of hashes.
Entry == [seq : Nat, at : Time, action : Action, decision : Decision]

Digest == Seq(Entry)
ZeroDigest == << >>

LeafHash(seq, at, action, decision, prev) ==
  Append(prev, [seq |-> seq, at |-> at, action |-> action, decision |-> decision])

Receipt ==
  [seq : Nat, at : Time, action : Action, decision : Decision,
   rules : SUBSET Rule, cites : Digest, prev : Digest, leaf : Digest]

-----------------------------------------------------------------------------
(* KernelState: the position and the predecessor of the next receipt.      *)

KernelState == [sequence : Nat, prev_hash : Digest]

Genesis == [sequence |-> 0, prev_hash |-> ZeroDigest]

\* The receipt Kernel::mint signs in state k.
Minted(k, at, action, decision, rules, cites) ==
  [seq |-> k.sequence, at |-> at, action |-> action, decision |-> decision,
   rules |-> rules, cites |-> cites, prev |-> k.prev_hash,
   leaf |-> LeafHash(k.sequence, at, action, decision, k.prev_hash)]

Advance(k, leaf) == [sequence |-> k.sequence + 1, prev_hash |-> leaf]

-----------------------------------------------------------------------------
(* ReceiptLog.                                                             *)

HeadLeaf(log) == IF log = << >> THEN ZeroDigest ELSE log[Len(log)].leaf

\* The position check and the link check of ReceiptLog::append.
InOrder(log, r) == r.seq = Len(log)
Linked(log, r)  == r.prev = HeadLeaf(log)

\* Faulty Appendable: sequence numbers need only grow.
AppendableWithGaps(log, r) == r.seq >= Len(log)

Appendable(log, r) == InOrder(log, r) /\ Linked(log, r)

\* ReceiptLog::verify_chain returns Ok.
VerifyChain(log) ==
  \A i \in 1 .. Len(log) :
    /\ log[i].seq = i - 1
    /\ log[i].prev = IF i = 1 THEN ZeroDigest ELSE log[i - 1].leaf

\* Faulty ResumeFrom: the position is restored, the predecessor is not.
ResumeUnlinked(log) == [sequence |-> Len(log), prev_hash |-> ZeroDigest]

\* build_kernel_from_log: continue behind the last receipt, or start anew.
ResumeFrom(log) ==
  IF log = << >>
  THEN Genesis
  ELSE [sequence |-> log[Len(log)].seq + 1, prev_hash |-> HeadLeaf(log)]
=============================================================================
