------------------------------- MODULE Budget -------------------------------
(***************************************************************************)
(* Delegation: a root lease and the leases carved from it, directly or     *)
(* through other leases.  Each lease is a value its holder owns; the only  *)
(* thing a parent and a child share is what delegate debited.  The holders *)
(* charge, delegate and revoke in any order.                               *)
(***************************************************************************)
EXTENDS Lease, Functions

CONSTANTS
  LeaseId,   \* ids the callers draw, each at most once
  Root,      \* the id of the lease that was not delegated
  Grant,     \* the budget of the root lease
  NoParent,
  Charges    \* the charges and the child budgets that are tried

ASSUME BudgetAssumption ==
  /\ Root \in LeaseId
  /\ NoParent \notin LeaseId
  /\ Grant \in ResourceUse
  /\ Charges \subseteq ResourceUse

VARIABLES
  lease,    \* id |-> the lease, for the ids in use
  parent,   \* id |-> CapabilityLease.parent
  spent     \* history: id |-> what its holder was granted, counted exactly

vars == <<lease, parent, spent>>

Live == DOMAIN lease

Init ==
  /\ lease = [l \in {Root} |-> NewLease(Grant)]
  /\ parent = [l \in {Root} |-> NoParent]
  /\ spent = [l \in {Root} |-> NoUse]

\* try_charge; a refused charge changes nothing.
Charge(l, u) ==
  /\ Chargeable(lease[l], u)
  /\ lease' = [lease EXCEPT ![l] = Charged(@, u)]
  /\ spent' = [spent EXCEPT ![l] = [r \in Resource |-> @[r] + u[r]]]
  /\ UNCHANGED parent

\* A new lease beside the old ones, its parent's state after delegation.
Carve(l, child, b, parentAfter) ==
  LET ids == Live \cup {child} IN
    /\ lease' = [i \in ids |-> IF i = child THEN NewLease(b)
                               ELSE IF i = l THEN parentAfter ELSE lease[i]]
    /\ parent' = [i \in ids |-> IF i = child THEN l ELSE parent[i]]
    /\ spent' = [i \in ids |-> IF i = child THEN NoUse ELSE spent[i]]

\* Faulty Delegate: nothing is reserved, the child draws on a pool of its own.
DelegateUnreserved(l, child, b) ==
  /\ child \notin Live
  /\ Chargeable(lease[l], b)
  /\ Carve(l, child, b, lease[l])

\* Faulty Delegate: a revoked lease can still hand out what it has left.
DelegateRevoked(l, child, b) ==
  /\ child \notin Live
  /\ Within(b, Remaining(lease[l]))
  /\ Carve(l, child, b, Charged(lease[l], b))

\* delegate: the child's whole budget is debited from the parent at once.
Delegate(l, child, b) ==
  /\ child \notin Live
  /\ Chargeable(lease[l], b)
  /\ Carve(l, child, b, Charged(lease[l], b))

\* revoke: final, and only for this lease: its children keep theirs.
Revoke(l) ==
  /\ ~lease[l].revoked
  /\ lease' = [lease EXCEPT ![l].revoked = TRUE]
  /\ UNCHANGED <<parent, spent>>

Next ==
  \E l \in Live :
    \/ \E u \in Charges : Charge(l, u)
    \/ \E child \in LeaseId, b \in Charges : Delegate(l, child, b)
    \/ Revoke(l)

Spec == Init /\ [][Next]_vars

-----------------------------------------------------------------------------
(* Properties.                                                             *)

\* Every variable has its type, and every parent is a lease.
TypeOK ==
  /\ Live \subseteq LeaseId
  /\ lease \in [Live -> CapabilityLease]
  /\ parent \in [Live -> Live \cup {NoParent}]
  /\ spent \in [Live -> [Resource -> Nat]]

\* The leases whose chain of parents leads to l, and l: no set that has l and,
\* with a lease, its children leaves one of them out.
Below(l) ==
  {d \in Live : \A S \in SUBSET Live :
     l \in S /\ (\A c \in Live : parent[c] \in S => c \in S) => d \in S}

\* README.md:42 "A delegated child agent can't spend more authority than its
\* parent leased it": however a lease is split further, its holder and all
\* below it together never spend more than its budget, in any counter.
SpentWithinGrant ==
  \A l \in Live, r \in Resource :
    SumFunctionOnSet([d \in Live |-> spent[d][r]], Below(l)) <= lease[l].budget[r]

\* Nothing is lost either: what is consumed of a lease is exactly what its
\* holder spent and what it reserved for its children.
ConsumedIsAccountedFor ==
  \A l \in Live, r \in Resource :
    lease[l].consumed[r] =
      spent[l][r] + SumFunctionOnSet([d \in Live |-> lease[d].budget[r]],
                                     {d \in Live : parent[d] = l})

\* Once revoked, a lease grants nothing and carves no child any more; and a
\* parent gets nothing back of what it reserved, whatever becomes of the child.
RevokedIsFinal ==
  [][\A l \in Live :
       /\ lease[l].revoked => lease'[l] = lease[l] /\ spent'[l] = spent[l]
       /\ \A r \in Resource : lease'[l].consumed[r] >= lease[l].consumed[r]]_vars
=============================================================================
