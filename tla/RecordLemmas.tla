---------------------------- MODULE RecordLemmas ----------------------------
(***************************************************************************)
(* What the kernel signs and what a charge does to a lease: lemmas about   *)
(* Receipts and Lease, for the proofs about the modules that extend them.  *)
(***************************************************************************)
EXTENDS Receipts, Lease, SequenceTheorems, TLAPS

-----------------------------------------------------------------------------
(* Receipts.                                                               *)

\* r is well typed, takes the position of a kernel in state k and adds one
\* entry to the hashes behind it.
Continues(k, r) ==
  /\ r \in Receipt
  /\ r.seq = k.sequence
  /\ r.prev = k.prev_hash
  /\ \E x \in Entry : r.leaf = Append(k.prev_hash, x)
  /\ Advance(k, r.leaf) \in KernelState

\* A receipt minted from well-typed fields continues the kernel's chain.
LEMMA MintedProperties ==
  ASSUME NEW k \in KernelState, NEW at \in Time, NEW a \in Action,
         NEW d \in Decision, NEW rules \in SUBSET Rule, NEW cites \in Digest
  PROVE  Continues(k, Minted(k, at, a, d, rules, cites))
<1> DEFINE x == [seq |-> k.sequence, at |-> at, action |-> a, decision |-> d]
<1>1. x \in Entry
  BY DEF Entry, KernelState
<1>2. Append(k.prev_hash, x) \in Digest
  BY <1>1, AppendProperties DEF KernelState, Digest
<1>3. LeafHash(k.sequence, at, a, d, k.prev_hash) = Append(k.prev_hash, x)
  BY DEF LeafHash
<1> QED
  BY <1>1, <1>2, <1>3 DEF Continues, Minted, Receipt, KernelState, Advance

-----------------------------------------------------------------------------
(* Leases.                                                                 *)

\* One counter: what fits is added exactly.
LEMMA SumFits ==
  ASSUME NEW b \in Nat, NEW c \in Nat, NEW u \in Nat, NEW max \in Nat,
         c <= b, b <= max, u <= SaturatingSub(b, c)
  PROVE  /\ c + u \in Nat
         /\ c + u <= b
         /\ c + u <= max
         /\ SaturatingAdd(c, u, max) = c + u
BY DEF SaturatingSub, SaturatingAdd

\* The counters of a charge that fits are added exactly: the saturation of
\* try_charge never sets in, and the lease stays within its budget.
LEMMA ChargedExactly ==
  ASSUME NEW l \in CapabilityLease, NEW u \in ResourceUse,
         Chargeable(l, u), Within(l.consumed, l.budget)
  PROVE  /\ Charged(l, u) \in CapabilityLease
         /\ Charged(l, u).consumed = [r \in Resource |-> l.consumed[r] + u[r]]
         /\ Charged(l, u).budget = l.budget
         /\ Charged(l, u).revoked = l.revoked
         /\ Within(Charged(l, u).consumed, l.budget)
<1> DEFINE sum == [r \in Resource |-> l.consumed[r] + u[r]]
<1>1. /\ l.budget \in ResourceUse
      /\ l.consumed \in ResourceUse
      /\ l.revoked \in BOOLEAN
      /\ l = [budget |-> l.budget, consumed |-> l.consumed, revoked |-> l.revoked]
  BY DEF CapabilityLease
<1>2. MaxAmount \in [Resource -> Nat]
  BY LeaseAssumption
<1>3. ASSUME NEW r \in Resource
      PROVE  /\ l.consumed[r] + u[r] \in Nat
             /\ l.consumed[r] + u[r] <= l.budget[r]
             /\ l.consumed[r] + u[r] <= MaxAmount[r]
             /\ SaturatingAdd(l.consumed[r], u[r], MaxAmount[r]) =
                  l.consumed[r] + u[r]
  <2>1. /\ l.budget[r] \in Nat
        /\ l.budget[r] <= MaxAmount[r]
        /\ l.consumed[r] \in Nat
        /\ u[r] \in Nat
        /\ MaxAmount[r] \in Nat
    BY <1>1, <1>2 DEF ResourceUse
  <2>2. u[r] <= SaturatingSub(l.budget[r], l.consumed[r])
    BY DEF Chargeable, Within, Remaining
  <2>3. l.consumed[r] <= l.budget[r]
    BY DEF Within
  <2> DEFINE b == l.budget[r]
             c == l.consumed[r]
             x == u[r]
             m == MaxAmount[r]
  <2>4. b \in Nat /\ c \in Nat /\ x \in Nat /\ m \in Nat /\ c <= b /\ b <= m
    BY <2>1, <2>3
  <2>5. x <= SaturatingSub(b, c)
    BY <2>2
  <2> HIDE DEF b, c, x, m
  <2>6. c + x \in Nat /\ c + x <= b /\ c + x <= m /\ SaturatingAdd(c, x, m) = c + x
    BY <2>4, <2>5, SumFits
  <2> QED
    BY <2>6 DEF b, c, x, m
<1>5. Plus(l.consumed, u) = sum
  BY <1>3 DEF Plus
<1>6. Charged(l, u) =
        [budget |-> l.budget, consumed |-> sum, revoked |-> l.revoked]
  BY <1>1, <1>5 DEF Charged
<1>7. sum \in ResourceUse
  BY <1>3 DEF ResourceUse
<1> QED
  BY <1>1, <1>3, <1>6, <1>7 DEF CapabilityLease, Within

\* A new lease is within its budget.
LEMMA NewLeaseType ==
  ASSUME NEW b \in ResourceUse
  PROVE  /\ NewLease(b) \in CapabilityLease
         /\ NewLease(b).consumed = NoUse
         /\ Within(NewLease(b).consumed, NewLease(b).budget)
<1>1. NoUse \in ResourceUse
  BY LeaseAssumption DEF NoUse, ResourceUse
<1>2. \A r \in Resource : b[r] \in Nat
  BY DEF ResourceUse
<1> QED
  BY <1>1, <1>2 DEF NewLease, CapabilityLease, Within, NoUse
=============================================================================
