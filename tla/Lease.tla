------------------------------- MODULE Lease -------------------------------
(***************************************************************************)
(* The arithmetic of boardproof-budget: what a CapabilityLease has left,   *)
(* and what a charge does to it.                                           *)
(*                                                                         *)
(* Budget and ResourceUse have the same five counters (net_bytes,          *)
(* file_writes, llm_tokens, wall_ms, uses); both are functions from        *)
(* Resource.  A counter has a width of its own, so all arithmetic is       *)
(* saturating, as in the code.  Which counter a BudgetError names is left  *)
(* out: only that the charge was refused.                                  *)
(***************************************************************************)
EXTENDS Naturals

CONSTANTS
  Resource,   \* the counters
  MaxAmount   \* the largest value of each: u64::MAX or u32::MAX

ASSUME LeaseAssumption == MaxAmount \in [Resource -> Nat]

ResourceUse ==
  {u \in [Resource -> Nat] : \A r \in Resource : u[r] <= MaxAmount[r]}

NoUse == [r \in Resource |-> 0]

CapabilityLease == [budget : ResourceUse, consumed : ResourceUse, revoked : BOOLEAN]

NewLease(budget) == [budget |-> budget, consumed |-> NoUse, revoked |-> FALSE]

SaturatingSub(a, b) == IF b > a THEN 0 ELSE a - b
SaturatingAdd(a, b, max) == IF a + b > max THEN max ELSE a + b

Remaining(l) == [r \in Resource |-> SaturatingSub(l.budget[r], l.consumed[r])]

Plus(u, v) == [r \in Resource |-> SaturatingAdd(u[r], v[r], MaxAmount[r])]

\* u stays within v in every counter.
Within(u, v) == \A r \in Resource : u[r] <= v[r]

\* Faulty Chargeable: one counter that still has room is enough.
ChargeableAnywhere(l, u) ==
  ~l.revoked /\ \E r \in Resource : u[r] <= Remaining(l)[r]

\* The checks of try_charge and delegate: all counters before any is changed.
Chargeable(l, u) == ~l.revoked /\ Within(u, Remaining(l))

\* Faulty Charged: the charge is paid back.
ChargedAsRefund(l, u) ==
  [l EXCEPT !.consumed = [r \in Resource |-> @[r] - u[r]]]

Charged(l, u) == [l EXCEPT !.consumed = Plus(@, u)]

\* try_charge, success or failure.
TryCharge(l, u) == IF Chargeable(l, u) THEN Charged(l, u) ELSE l
=============================================================================
