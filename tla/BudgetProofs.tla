---------------------------- MODULE BudgetProofs ----------------------------
(***************************************************************************)
(* Theorems about Budget, for every set of counters and their widths,      *)
(* every number of leases and every shape of the delegation tree.          *)
(*                                                                         *)
(* As in KernelProofs, the types need the bound that no lease consumes     *)
(* more than its budget.                                                   *)
(***************************************************************************)
EXTENDS Budget, RecordLemmas, FoldLemmas

WithinBudgets == \A l \in Live : Within(lease[l].consumed, lease[l].budget)

TypeInv == TypeOK /\ WithinBudgets

\* The two conjuncts of RevokedIsFinal, for one step.
FinalStep ==
  \A l \in Live :
    /\ lease[l].revoked => lease'[l] = lease[l] /\ spent'[l] = spent[l]
    /\ \A r \in Resource : lease'[l].consumed[r] >= lease[l].consumed[r]

\* The initial state.
LEMMA InitTypeInv == Init => TypeInv
<1> SUFFICES ASSUME Init PROVE TypeInv
  OBVIOUS
<1>1. /\ NewLease(Grant) \in CapabilityLease
      /\ Within(NewLease(Grant).consumed, NewLease(Grant).budget)
  BY BudgetAssumption, NewLeaseType
<1>2. NoUse \in [Resource -> Nat]
  BY DEF NoUse
<1> QED
  BY <1>1, <1>2, BudgetAssumption DEF Init, TypeInv, TypeOK, WithinBudgets, Live

\* Consumption never shrinks when a charge fits.
LEMMA ChargedGrows ==
  ASSUME NEW l \in CapabilityLease, NEW u \in ResourceUse,
         Chargeable(l, u), Within(l.consumed, l.budget)
  PROVE  \A r \in Resource : Charged(l, u).consumed[r] >= l.consumed[r]
<1>1. Charged(l, u).consumed = [r \in Resource |-> l.consumed[r] + u[r]]
  BY ChargedExactly
<1>2. \A r \in Resource : l.consumed[r] \in Nat /\ u[r] \in Nat
  BY DEF CapabilityLease, ResourceUse
<1>3. ASSUME NEW r \in Resource
      PROVE  Charged(l, u).consumed[r] >= l.consumed[r]
  <2> DEFINE c == l.consumed[r]
             x == u[r]
  <2>1. Charged(l, u).consumed[r] = c + x /\ c \in Nat /\ x \in Nat
    BY <1>1, <1>2
  <2> HIDE DEF c, x
  <2>2. c + x >= c
    BY <2>1
  <2> QED
    BY <2>1, <2>2 DEF c
<1> QED
  BY <1>3

\* A charge.
LEMMA ChargeKeeps ==
  ASSUME TypeInv, NEW l \in Live, NEW u \in Charges, Charge(l, u)
  PROVE  TypeInv' /\ FinalStep
<1>1. u \in ResourceUse /\ lease[l] \in CapabilityLease
  BY BudgetAssumption DEF TypeInv, TypeOK
<1>2. /\ Chargeable(lease[l], u)
      /\ lease' = [lease EXCEPT ![l] = Charged(lease[l], u)]
      /\ spent' = [spent EXCEPT ![l] = [r \in Resource |-> spent[l][r] + u[r]]]
      /\ parent' = parent
  BY DEF Charge
<1>3. /\ Charged(lease[l], u) \in CapabilityLease
      /\ Within(Charged(lease[l], u).consumed, Charged(lease[l], u).budget)
  BY <1>1, <1>2, ChargedExactly DEF TypeInv, WithinBudgets
<1>4. Live' = Live
  BY <1>2 DEF Live, TypeInv, TypeOK
<1>5. TypeInv'
  <2>1. lease' \in [Live -> CapabilityLease]
    BY <1>2, <1>3 DEF TypeInv, TypeOK
  <2>2. [r \in Resource |-> spent[l][r] + u[r]] \in [Resource -> Nat]
    BY <1>1 DEF TypeInv, TypeOK, ResourceUse
  <2>3. spent' \in [Live -> [Resource -> Nat]]
    BY <1>2, <2>2 DEF TypeInv, TypeOK
  <2>4. \A i \in Live : Within(lease'[i].consumed, lease'[i].budget)
    BY <1>2, <1>3 DEF TypeInv, TypeOK, WithinBudgets
  <2> QED
    BY <1>2, <1>4, <2>1, <2>3, <2>4 DEF TypeInv, TypeOK, WithinBudgets
<1>6. FinalStep
  <2>1. ~lease[l].revoked
    BY <1>2 DEF Chargeable
  <2>2. \A r \in Resource : lease'[l].consumed[r] >= lease[l].consumed[r]
    BY <1>1, <1>2, ChargedGrows DEF TypeInv, TypeOK, WithinBudgets
  <2>3. \A i \in Live : i # l => lease'[i] = lease[i] /\ spent'[i] = spent[i]
    BY <1>2 DEF TypeInv, TypeOK
  <2>4. \A i \in Live, r \in Resource : lease[i].consumed[r] \in Nat
    BY DEF TypeInv, TypeOK, CapabilityLease, ResourceUse
  <2>5. ASSUME NEW i \in Live, NEW r \in Resource
        PROVE  lease'[i].consumed[r] >= lease[i].consumed[r]
    BY <2>2, <2>3, <2>4
  <2> QED
    BY <2>1, <2>3, <2>5 DEF FinalStep
<1> QED
  BY <1>5, <1>6

\* A delegation: the parent is charged the child's budget, the child is new.
LEMMA DelegateKeeps ==
  ASSUME TypeInv, NEW l \in Live, NEW child \in LeaseId, NEW b \in Charges,
         Delegate(l, child, b)
  PROVE  TypeInv' /\ FinalStep
<1> DEFINE after == Charged(lease[l], b)
           ids == Live \cup {child}
<1>1. b \in ResourceUse /\ lease[l] \in CapabilityLease
  BY BudgetAssumption DEF TypeInv, TypeOK
<1>2. /\ child \notin Live
      /\ Chargeable(lease[l], b)
      /\ lease' = [i \in ids |-> IF i = child THEN NewLease(b)
                                 ELSE IF i = l THEN after ELSE lease[i]]
      /\ parent' = [i \in ids |-> IF i = child THEN l ELSE parent[i]]
      /\ spent' = [i \in ids |-> IF i = child THEN NoUse ELSE spent[i]]
  BY DEF Delegate, Carve
<1>3. /\ after \in CapabilityLease
      /\ Within(after.consumed, after.budget)
  BY <1>1, <1>2, ChargedExactly DEF TypeInv, WithinBudgets
<1>4. /\ NewLease(b) \in CapabilityLease
      /\ Within(NewLease(b).consumed, NewLease(b).budget)
      /\ NoUse \in [Resource -> Nat]
  BY <1>1, NewLeaseType DEF NoUse
<1>5. Live' = ids
  BY <1>2 DEF Live
<1>6. \A r \in Resource : after.consumed[r] >= lease[l].consumed[r]
  BY <1>1, <1>2, ChargedGrows DEF TypeInv, WithinBudgets
<1> HIDE DEF after
<1>7. TypeInv'
  <2>1. lease' \in [ids -> CapabilityLease]
    BY <1>2, <1>3, <1>4 DEF TypeInv, TypeOK
  <2>2. parent' \in [ids -> ids \cup {NoParent}]
    BY <1>2 DEF TypeInv, TypeOK
  <2>3. spent' \in [ids -> [Resource -> Nat]]
    BY <1>2, <1>4 DEF TypeInv, TypeOK
  <2>4. \A i \in ids : Within(lease'[i].consumed, lease'[i].budget)
    BY <1>2, <1>3, <1>4 DEF TypeInv, WithinBudgets
  <2>5. ids \subseteq LeaseId
    BY DEF TypeInv, TypeOK
  <2> QED
    BY <1>5, <2>1, <2>2, <2>3, <2>4, <2>5 DEF TypeInv, TypeOK, WithinBudgets
<1>8. FinalStep
  <2>1. ~lease[l].revoked
    BY <1>2 DEF Chargeable
  <2>2. lease'[l] = after
    BY <1>2
  <2>3. \A i \in Live : spent'[i] = spent[i] /\ (i # l => lease'[i] = lease[i])
    BY <1>2
  <2>4. \A i \in Live, r \in Resource : lease[i].consumed[r] \in Nat
    BY DEF TypeInv, TypeOK, CapabilityLease, ResourceUse
  <2>5. ASSUME NEW i \in Live, NEW r \in Resource
        PROVE  lease'[i].consumed[r] >= lease[i].consumed[r]
    BY <1>6, <2>2, <2>3, <2>4
  <2> QED
    BY <2>1, <2>3, <2>5 DEF FinalStep
<1> QED
  BY <1>7, <1>8

\* A revocation.
LEMMA RevokeKeeps ==
  ASSUME TypeInv, NEW l \in Live, Revoke(l)
  PROVE  TypeInv' /\ FinalStep
<1> DEFINE after == [lease[l] EXCEPT !.revoked = TRUE]
<1>1. /\ lease' = [lease EXCEPT ![l] = after]
      /\ ~lease[l].revoked
      /\ UNCHANGED <<parent, spent>>
  BY DEF Revoke
<1>2. /\ after \in CapabilityLease
      /\ after.consumed = lease[l].consumed
      /\ after.budget = lease[l].budget
  BY DEF TypeInv, TypeOK, CapabilityLease
<1>3. Live' = Live
  BY <1>1 DEF Live, TypeInv, TypeOK
<1> HIDE DEF after
<1>4. \A i \in Live :
        /\ lease'[i].consumed = lease[i].consumed
        /\ lease'[i].budget = lease[i].budget
        /\ i # l => lease'[i] = lease[i]
  BY <1>1, <1>2 DEF TypeInv, TypeOK
<1>5. TypeInv'
  <2>1. lease' \in [Live -> CapabilityLease]
    BY <1>1, <1>2 DEF TypeInv, TypeOK
  <2> QED
    BY <1>1, <1>3, <1>4, <2>1 DEF TypeInv, TypeOK, WithinBudgets
<1>6. FinalStep
  <2>1. \A i \in Live, r \in Resource : lease[i].consumed[r] \in Nat
    BY DEF TypeInv, TypeOK, CapabilityLease, ResourceUse
  <2> QED
    BY <1>1, <1>4, <2>1 DEF FinalStep
<1> QED
  BY <1>5, <1>6

\* Any step, or none.
LEMMA NextKeeps == TypeInv /\ [Next]_vars => TypeInv' /\ (FinalStep \/ UNCHANGED vars)
<1> SUFFICES ASSUME TypeInv, [Next]_vars PROVE TypeInv' /\ (FinalStep \/ UNCHANGED vars)
  OBVIOUS
<1>1. CASE Next
  <2>1. PICK l \in Live :
          \/ \E u \in Charges : Charge(l, u)
          \/ \E child \in LeaseId, b \in Charges : Delegate(l, child, b)
          \/ Revoke(l)
    BY <1>1 DEF Next
  <2> QED
    BY <2>1, ChargeKeeps, DelegateKeeps, RevokeKeeps
<1>2. CASE UNCHANGED vars
  BY <1>2 DEF vars, TypeInv, TypeOK, WithinBudgets, Within, Live
<1> QED
  BY <1>1, <1>2

\* Types are kept, and no lease ever consumes more than its budget.
THEOREM TypeCorrect == Spec => [](TypeOK /\ WithinBudgets)
<1>1. TypeInv /\ [Next]_vars => TypeInv'
  BY NextKeeps
<1>2. TypeInv => TypeOK /\ WithinBudgets
  BY DEF TypeInv
<1> QED
  BY InitTypeInv, <1>1, <1>2, PTL DEF Spec

\* A revoked lease stays as it is, and what a lease has consumed is never
\* credited back, by whatever charges, delegations and revocations around it.
THEOREM RevocationIsFinal == Spec => RevokedIsFinal
<1>1. TypeInv /\ [Next]_vars => TypeInv'
  BY NextKeeps
<1>2. TypeInv /\ [Next]_vars => [FinalStep]_vars
  BY NextKeeps
<1>3. [FinalStep]_vars =>
        [\A l \in Live :
           /\ lease[l].revoked => lease'[l] = lease[l] /\ spent'[l] = spent[l]
           /\ \A r \in Resource : lease'[l].consumed[r] >= lease[l].consumed[r]]_vars
  BY DEF FinalStep
<1> QED
  BY InitTypeInv, <1>1, <1>2, <1>3, PTL DEF Spec, RevokedIsFinal

-----------------------------------------------------------------------------
(* Conservation.  What a lease was granted is always all there, below it:  *)
(* spent by somebody, or still to be had from somebody.  A charge moves it *)
(* from one to the other, a delegation from one holder to the next.        *)

\* What the holder of a lease has had, and what it can still have.
Share(r) == [d \in Live |-> spent[d][r] + (lease[d].budget[r] - lease[d].consumed[r])]

Conserved ==
  \A l \in Live, r \in Resource : SumFunctionOnSet(Share(r), Below(l)) = lease[l].budget[r]

LedgerInv == TypeInv /\ IsFiniteSet(Live) /\ Conserved /\ ConsumedIsAccountedFor

Children(l) == {d \in Live : parent[d] = l}
Budgets(r) == [d \in Live |-> lease[d].budget[r]]

\* The amounts of a lease are numbers.
LEMMA Amounts ==
  ASSUME TypeInv, NEW d \in Live, NEW r \in Resource
  PROVE  /\ spent[d][r] \in Nat
         /\ lease[d].budget[r] \in Nat
         /\ lease[d].consumed[r] \in Nat
         /\ lease[d].consumed[r] <= lease[d].budget[r]
         /\ Share(r)[d] = spent[d][r] + (lease[d].budget[r] - lease[d].consumed[r])
         /\ Share(r)[d] \in Nat
         /\ Budgets(r)[d] = lease[d].budget[r]
<1>1. /\ lease[d].budget \in [Resource -> Nat]
      /\ lease[d].consumed \in [Resource -> Nat]
      /\ spent[d] \in [Resource -> Nat]
  BY DEF TypeInv, TypeOK, CapabilityLease, ResourceUse
<1>2. lease[d].consumed[r] <= lease[d].budget[r]
  BY DEF TypeInv, WithinBudgets, Within
<1>3. Share(r)[d] = spent[d][r] + (lease[d].budget[r] - lease[d].consumed[r])
  BY DEF Share
<1>4. Budgets(r)[d] = lease[d].budget[r]
  BY DEF Budgets
<1> DEFINE c == lease[d].consumed[r]
           b == lease[d].budget[r]
           x == spent[d][r]
<1>5. c \in Nat /\ b \in Nat /\ x \in Nat /\ c <= b
  BY <1>1, <1>2
<1>6. x + (b - c) \in Nat
  <2> HIDE DEF b, c, x
  <2> QED
    BY <1>5
<1> QED
  BY <1>3, <1>4, <1>5, <1>6

\* What is below a lease: itself, and with a lease its children.
LEMMA BelowHas ==
  ASSUME NEW l \in Live
  PROVE  /\ l \in Below(l)
         /\ Below(l) \subseteq Live
         /\ \A c \in Live : parent[c] \in Below(l) => c \in Below(l)
BY DEF Below

\* And nothing else.
LEMMA BelowLeast ==
  ASSUME NEW l \in Live, NEW S \in SUBSET Live,
         l \in S, \A c \in Live : parent[c] \in S => c \in S
  PROVE  Below(l) \subseteq S
BY DEF Below

\* Before anything happens the root has all of its grant.
LEMMA InitLedger == Init => LedgerInv
<1> SUFFICES ASSUME Init PROVE LedgerInv
  OBVIOUS
<1>1. TypeInv
  BY InitTypeInv
<1>2. Live = {Root} /\ IsFiniteSet(Live)
  BY FS_Singleton DEF Init, Live
<1>3. ASSUME NEW r \in Resource
      PROVE  /\ Share(r)[Root] = lease[Root].budget[r]
             /\ spent[Root][r] = 0
             /\ lease[Root].consumed[r] = 0
  <2>1. spent[Root][r] = 0 /\ lease[Root].consumed[r] = 0
    BY DEF Init, NewLease, NoUse
  <2>2. lease[Root].budget[r] \in Nat
    BY <1>1, <1>2, Amounts
  <2> QED
    BY <2>1, <2>2, <1>2 DEF Share
<1>4. Below(Root) = {Root}
  BY <1>2, BelowHas
<1>5. Children(Root) = {}
  BY <1>2, BudgetAssumption DEF Children, Init
<1>6. Conserved
  <2>1. ASSUME NEW r \in Resource
        PROVE  SumFunctionOnSet(Share(r), {Root}) = lease[Root].budget[r]
    <3>1. Numbers(Share(r), {Root})
      BY <1>1, <1>2, Amounts DEF Numbers
    <3>2. SumFunctionOnSet(Share(r), {Root}) = Share(r)[Root] + SumFunctionOnSet(Share(r), {Root} \ {Root})
      BY <3>1, <1>2, SumAdd
    <3>3. SumFunctionOnSet(Share(r), {Root} \ {Root}) = 0
      <4>1. {Root} \ {Root} = {}
        OBVIOUS
      <4> QED
        BY <4>1, SumEmpty
    <3>4. Share(r)[Root] \in Nat
      BY <1>1, <1>2, Amounts
    <3> QED
      BY <1>3, <3>2, <3>3, <3>4
  <2> QED
    BY <1>2, <1>4, <2>1 DEF Conserved
<1>7. ConsumedIsAccountedFor
  <2>1. ASSUME NEW r \in Resource
        PROVE  SumFunctionOnSet(Budgets(r), Children(Root)) = 0
    BY <1>5, SumEmpty
  <2>2. ASSUME NEW r \in Resource
        PROVE  lease[Root].consumed[r] =
                 spent[Root][r] + SumFunctionOnSet(Budgets(r), Children(Root))
    <3> DEFINE sum == SumFunctionOnSet(Budgets(r), Children(Root))
    <3>1. sum = 0
      BY <2>1
    <3> HIDE DEF sum
    <3> QED
      BY <1>3, <3>1 DEF sum
  <2> QED
    BY <1>2, <2>2 DEF ConsumedIsAccountedFor, Budgets, Children
<1> QED
  BY <1>1, <1>2, <1>6, <1>7 DEF LedgerInv

\* A step that moves nothing between leases: each keeps its share, its budget
\* and its parent, and consumes as much more as its holder spends.
LEMMA SharesKept ==
  ASSUME LedgerInv, TypeInv', Live' = Live, parent' = parent,
         \A d \in Live, r \in Resource :
           /\ lease'[d].budget[r] = lease[d].budget[r]
           /\ spent'[d][r] + lease[d].consumed[r] = spent[d][r] + lease'[d].consumed[r]
  PROVE  LedgerInv'
<1>1. TypeInv /\ IsFiniteSet(Live)
  BY DEF LedgerInv
<1>2. ASSUME NEW l \in Live
      PROVE  Below(l)' = Below(l) /\ Children(l)' = Children(l)
  BY DEF Below, Children
<1>3. ASSUME NEW d \in Live, NEW r \in Resource
      PROVE  /\ spent'[d][r] \in Nat /\ spent[d][r] \in Nat
             /\ lease'[d].consumed[r] \in Nat /\ lease[d].consumed[r] \in Nat
             /\ lease'[d].budget[r] \in Nat /\ lease[d].budget[r] \in Nat
             /\ Share(r)'[d] = spent'[d][r] + (lease'[d].budget[r] - lease'[d].consumed[r])
             /\ Share(r)[d] = spent[d][r] + (lease[d].budget[r] - lease[d].consumed[r])
             /\ Share(r)[d] \in Nat
             /\ Budgets(r)'[d] = lease'[d].budget[r]
             /\ Budgets(r)[d] = lease[d].budget[r]
  <2>1. /\ spent'[d] \in [Resource -> Nat]
        /\ lease'[d].budget \in [Resource -> Nat]
        /\ lease'[d].consumed \in [Resource -> Nat]
    BY DEF TypeInv, TypeOK, CapabilityLease, ResourceUse
  <2>2. /\ Share(r)'[d] = spent'[d][r] + (lease'[d].budget[r] - lease'[d].consumed[r])
        /\ Budgets(r)'[d] = lease'[d].budget[r]
    BY DEF Share, Budgets
  <2> QED
    BY <1>1, <2>1, <2>2, Amounts
<1>4. ASSUME NEW d \in Live, NEW r \in Resource
      PROVE  Share(r)'[d] = Share(r)[d] /\ Budgets(r)'[d] = Budgets(r)[d]
  <2> DEFINE s == spent[d][r]
             t == spent'[d][r]
             b == lease[d].budget[r]
             c == lease[d].consumed[r]
             e == lease'[d].consumed[r]
  <2>1. s \in Nat /\ t \in Nat /\ b \in Nat /\ c \in Nat /\ e \in Nat /\ t + c = s + e
    BY <1>3
  <2>2. lease'[d].budget[r] = b
    OBVIOUS
  <2>3. t + (b - e) = s + (b - c)
    <3> HIDE DEF s, t, b, c, e
    <3> QED
      BY <2>1
  <2> QED
    BY <1>3, <2>2, <2>3
<1>5. ASSUME NEW S \in SUBSET Live, NEW r \in Resource
      PROVE  /\ SumFunctionOnSet(Share(r)', S) = SumFunctionOnSet(Share(r), S)
             /\ SumFunctionOnSet(Budgets(r)', S) = SumFunctionOnSet(Budgets(r), S)
             /\ SumFunctionOnSet(Budgets(r), S) \in Nat
  <2>1. IsFiniteSet(S)
    BY <1>1, FS_Subset
  <2>2. Numbers(Share(r), S) /\ Numbers(Budgets(r), S)
    BY <1>3 DEF Numbers
  <2> QED
    BY <1>4, <2>1, <2>2, SumSame, SumType
<1>6. Conserved'
  <2> SUFFICES ASSUME NEW l \in Live, NEW r \in Resource
               PROVE  SumFunctionOnSet(Share(r)', Below(l)') = lease'[l].budget[r]
    BY DEF Conserved
  <2>1. Below(l)' = Below(l) /\ Below(l) \in SUBSET Live
    BY <1>2, BelowHas
  <2> QED
    BY <1>5, <2>1 DEF LedgerInv, Conserved
<1>7. ConsumedIsAccountedFor'
  <2> SUFFICES ASSUME NEW l \in Live, NEW r \in Resource
               PROVE  lease'[l].consumed[r] =
                        spent'[l][r] + SumFunctionOnSet(Budgets(r)', Children(l)')
    BY DEF ConsumedIsAccountedFor, Budgets, Children
  <2>1. Children(l)' = Children(l) /\ Children(l) \in SUBSET Live
    BY <1>2 DEF Children
  <2>2. SumFunctionOnSet(Budgets(r)', Children(l)') = SumFunctionOnSet(Budgets(r), Children(l))
    BY <1>5, <2>1
  <2>3. lease[l].consumed[r] = spent[l][r] + SumFunctionOnSet(Budgets(r), Children(l))
    BY DEF LedgerInv, ConsumedIsAccountedFor, Budgets, Children
  <2> DEFINE sum == SumFunctionOnSet(Budgets(r), Children(l))
             s == spent[l][r]
             t == spent'[l][r]
             c == lease[l].consumed[r]
             e == lease'[l].consumed[r]
  <2>4. sum \in Nat /\ s \in Nat /\ t \in Nat /\ c \in Nat /\ e \in Nat
    BY <1>3, <1>5, <2>1
  <2>5. c = s + sum /\ t + c = s + e
    BY <2>3
  <2>6. e = t + sum
    <3> HIDE DEF sum, s, t, c, e
    <3> QED
      BY <2>4, <2>5
  <2> QED
    BY <2>2, <2>6
<1> QED
  BY <1>1, <1>6, <1>7 DEF LedgerInv

\* A charge moves from what the lease has left to what its holder spent.
LEMMA ChargeConserves ==
  ASSUME LedgerInv, NEW l \in Live, NEW u \in Charges, Charge(l, u)
  PROVE  LedgerInv'
<1>1. TypeInv /\ TypeInv'
  BY ChargeKeeps DEF LedgerInv
<1>2. u \in ResourceUse /\ lease[l] \in CapabilityLease
  BY <1>1, BudgetAssumption DEF TypeInv, TypeOK
<1>3. /\ Chargeable(lease[l], u)
      /\ lease' = [lease EXCEPT ![l] = Charged(lease[l], u)]
      /\ spent' = [spent EXCEPT ![l] = [r \in Resource |-> spent[l][r] + u[r]]]
      /\ parent' = parent
  BY DEF Charge
<1>4. /\ Charged(lease[l], u).consumed = [r \in Resource |-> lease[l].consumed[r] + u[r]]
      /\ Charged(lease[l], u).budget = lease[l].budget
  BY <1>1, <1>2, <1>3, ChargedExactly DEF TypeInv, WithinBudgets
<1>5. Live' = Live
  BY <1>1, <1>3 DEF Live, TypeInv, TypeOK
<1>6. ASSUME NEW d \in Live, NEW r \in Resource
      PROVE  /\ lease'[d].budget[r] = lease[d].budget[r]
             /\ spent'[d][r] + lease[d].consumed[r] = spent[d][r] + lease'[d].consumed[r]
  <2>1. CASE d # l
    BY <1>1, <1>3, <2>1 DEF TypeInv, TypeOK
  <2>2. CASE d = l
    <3>1. lease'[l] = Charged(lease[l], u) /\ spent'[l][r] = spent[l][r] + u[r]
      BY <1>1, <1>3 DEF TypeInv, TypeOK
    <3>2. lease'[l].consumed[r] = lease[l].consumed[r] + u[r]
      BY <1>4, <3>1
    <3>3. u[r] \in Nat /\ spent[l][r] \in Nat /\ lease[l].consumed[r] \in Nat
      BY <1>1, <1>2, Amounts DEF ResourceUse
    <3> DEFINE x == u[r]
               s == spent[l][r]
               c == lease[l].consumed[r]
    <3>4. (s + x) + c = s + (c + x)
      <4>1. x \in Nat /\ s \in Nat /\ c \in Nat
        BY <3>3
      <4> HIDE DEF x, s, c
      <4> QED
        BY <4>1
    <3> QED
      BY <1>4, <2>2, <3>1, <3>2, <3>4
  <2> QED
    BY <2>1, <2>2
<1> QED
  BY <1>1, <1>3, <1>5, <1>6, SharesKept

\* A revocation moves nothing.
LEMMA RevokeConserves ==
  ASSUME LedgerInv, NEW l \in Live, Revoke(l)
  PROVE  LedgerInv'
<1>1. TypeInv /\ TypeInv'
  BY RevokeKeeps DEF LedgerInv
<1>2. lease' = [lease EXCEPT ![l].revoked = TRUE] /\ parent' = parent /\ spent' = spent
  BY DEF Revoke
<1>3. Live' = Live
  BY <1>1, <1>2 DEF Live, TypeInv, TypeOK
<1>4. ASSUME NEW d \in Live
      PROVE  lease'[d].consumed = lease[d].consumed /\ lease'[d].budget = lease[d].budget
  BY <1>1, <1>2 DEF TypeInv, TypeOK, CapabilityLease
<1> QED
  BY <1>1, <1>2, <1>3, <1>4, SharesKept

\* A delegation moves from what the parent has left to what the child has.
LEMMA DelegateConserves ==
  ASSUME LedgerInv, NEW p \in Live, NEW child \in LeaseId, NEW b \in Charges,
         Delegate(p, child, b)
  PROVE  LedgerInv'
<1> DEFINE after == Charged(lease[p], b)
           ids == Live \cup {child}
<1>1. TypeInv /\ TypeInv' /\ IsFiniteSet(Live)
  BY DelegateKeeps DEF LedgerInv
<1>2. b \in ResourceUse /\ lease[p] \in CapabilityLease
  BY <1>1, BudgetAssumption DEF TypeInv, TypeOK
<1>3. /\ child \notin Live
      /\ Chargeable(lease[p], b)
      /\ lease' = [i \in ids |-> IF i = child THEN NewLease(b)
                                 ELSE IF i = p THEN after ELSE lease[i]]
      /\ parent' = [i \in ids |-> IF i = child THEN p ELSE parent[i]]
      /\ spent' = [i \in ids |-> IF i = child THEN NoUse ELSE spent[i]]
  BY DEF Delegate, Carve
<1>4. /\ after.consumed = [r \in Resource |-> lease[p].consumed[r] + b[r]]
      /\ after.budget = lease[p].budget
  BY <1>1, <1>2, <1>3, ChargedExactly DEF TypeInv, WithinBudgets
<1>5. Live' = ids /\ IsFiniteSet(ids)
  BY <1>1, <1>3, FS_AddElement DEF Live
<1>6. \A d \in Live : parent[d] # child /\ parent'[d] = parent[d] /\ d # child
  BY <1>1, <1>3, BudgetAssumption DEF TypeInv, TypeOK
<1>7. parent'[child] = p
  BY <1>3
<1>8. \A r \in Resource : b[r] \in Nat
  BY <1>2 DEF ResourceUse
\* The numbers, before and after.
<1>9. ASSUME NEW d \in Live, NEW r \in Resource
      PROVE  /\ lease'[d].budget[r] = lease[d].budget[r]
             /\ spent'[d][r] = spent[d][r]
             /\ lease'[d].consumed[r] = IF d = p THEN lease[d].consumed[r] + b[r]
                                        ELSE lease[d].consumed[r]
  BY <1>3, <1>4, <1>6
<1>10. ASSUME NEW r \in Resource
       PROVE  /\ lease'[child].budget[r] = b[r]
              /\ lease'[child].consumed[r] = 0
              /\ spent'[child][r] = 0
  BY <1>3 DEF NewLease, NoUse
<1> HIDE DEF after
<1>11. ASSUME NEW d \in ids, NEW r \in Resource
       PROVE  /\ Share(r)'[d] = spent'[d][r] + (lease'[d].budget[r] - lease'[d].consumed[r])
              /\ Share(r)'[d] \in Nat
              /\ Budgets(r)'[d] = lease'[d].budget[r]
              /\ Budgets(r)'[d] \in Nat
              /\ lease'[d].consumed[r] <= lease'[d].budget[r]
  <2>1. /\ spent'[d] \in [Resource -> Nat]
        /\ lease'[d].budget \in [Resource -> Nat]
        /\ lease'[d].consumed \in [Resource -> Nat]
        /\ lease'[d].consumed[r] <= lease'[d].budget[r]
    BY <1>1, <1>5 DEF TypeInv, TypeOK, CapabilityLease, ResourceUse, WithinBudgets, Within
  <2>2. /\ Share(r)'[d] = spent'[d][r] + (lease'[d].budget[r] - lease'[d].consumed[r])
        /\ Budgets(r)'[d] = lease'[d].budget[r]
    BY <1>5 DEF Share, Budgets
  <2> DEFINE x == spent'[d][r]
             y == lease'[d].budget[r]
             z == lease'[d].consumed[r]
  <2>3. x \in Nat /\ y \in Nat /\ z \in Nat /\ z <= y
    BY <2>1
  <2>4. x + (y - z) \in Nat
    <3> HIDE DEF x, y, z
    <3> QED
      BY <2>3
  <2> QED
    BY <2>1, <2>2, <2>4
<1>12. ASSUME NEW r \in Resource
       PROVE  /\ \A d \in Live : d # p => Share(r)'[d] = Share(r)[d]
              /\ Share(r)'[p] + b[r] = Share(r)[p]
              /\ Share(r)'[child] = b[r]
              /\ \A d \in Live : Budgets(r)'[d] = Budgets(r)[d]
              /\ Budgets(r)'[child] = b[r]
  <2>1. \A d \in Live : d # p => Share(r)'[d] = Share(r)[d]
    BY <1>1, <1>9, <1>11, Amounts
  <2>2. Share(r)'[p] + b[r] = Share(r)[p]
    <3> DEFINE s == spent[p][r]
               c == lease[p].consumed[r]
               y == lease[p].budget[r]
               x == b[r]
    <3>1. s \in Nat /\ c \in Nat /\ y \in Nat /\ x \in Nat
      BY <1>1, <1>8, Amounts
    <3>2. Share(r)'[p] = s + (y - (c + x)) /\ Share(r)[p] = s + (y - c)
      BY <1>1, <1>9, <1>11, Amounts
    <3>3. (s + (y - (c + x))) + x = s + (y - c)
      <4> HIDE DEF s, c, y, x
      <4> QED
        BY <3>1
    <3> QED
      BY <3>2, <3>3
  <2>3. Share(r)'[child] = b[r]
    BY <1>8, <1>10, <1>11
  <2>4. \A d \in Live : Budgets(r)'[d] = Budgets(r)[d]
    BY <1>1, <1>9, <1>11, Amounts
  <2>5. Budgets(r)'[child] = b[r]
    BY <1>10, <1>11
  <2> QED
    BY <2>1, <2>2, <2>3, <2>4, <2>5
\* The shape of the tree.
<1>13. Below(child)' = {child}
  <2>1. child \in Below(child)'
    BY <1>5 DEF Below
  <2>2. {child} \in SUBSET Live' /\ \A c \in Live' : parent'[c] \in {child} => c \in {child}
    BY <1>3, <1>5, <1>6, <1>7
  <2> QED
    BY <2>1, <2>2 DEF Below
<1>14. ASSUME NEW l \in Live
       PROVE  Below(l)' = Below(l) \cup (IF p \in Below(l) THEN {child} ELSE {})
  <2> DEFINE new == Below(l) \cup (IF p \in Below(l) THEN {child} ELSE {})
  <2>1. Below(l)' \subseteq new
    <3>1. new \in SUBSET Live' /\ l \in new
      BY <1>5, BelowHas
    <3>2. ASSUME NEW c \in Live', parent'[c] \in new
          PROVE  c \in new
      BY <1>3, <1>5, <1>6, <1>7, <3>2, BelowHas
    <3> HIDE DEF new
    <3> QED
      BY <3>1, <3>2 DEF Below
  <2>2. ASSUME NEW S \in SUBSET Live', l \in S, \A c \in Live' : parent'[c] \in S => c \in S
        PROVE  new \subseteq S
    <3>1. S \cap Live \in SUBSET Live /\ l \in S \cap Live
      BY <2>2
    <3>2. ASSUME NEW c \in Live, parent[c] \in S \cap Live
          PROVE  c \in S \cap Live
      BY <1>5, <1>6, <2>2, <3>2
    <3>3. Below(l) \subseteq S \cap Live
      BY <3>1, <3>2, BelowLeast
    <3>4. p \in Below(l) => child \in S
      BY <1>5, <1>7, <2>2, <3>3
    <3> QED
      BY <3>3, <3>4
  <2>3. new \subseteq Live'
    BY <1>5, BelowHas
  <2> HIDE DEF new
  <2> QED
    BY <2>1, <2>2, <2>3 DEF Below, new
<1>15. ASSUME NEW l \in Live
       PROVE  Children(l)' = Children(l) \cup (IF l = p THEN {child} ELSE {})
  BY <1>3, <1>5, <1>6, <1>7 DEF Children
<1>16. Children(child)' = {}
  BY <1>3, <1>5, <1>6, <1>7 DEF Children
\* Sums over the old leases, and over the old ones and the child.
<1>17. ASSUME NEW S \in SUBSET ids, NEW r \in Resource
       PROVE  IsFiniteSet(S) /\ Numbers(Share(r)', S) /\ Numbers(Budgets(r)', S)
  BY <1>5, <1>11, FS_Subset DEF Numbers
<1>18. ASSUME NEW S \in SUBSET Live, NEW r \in Resource
       PROVE  IsFiniteSet(S) /\ Numbers(Share(r), S) /\ Numbers(Budgets(r), S)
  BY <1>1, Amounts, FS_Subset DEF Numbers
<1>19. ASSUME NEW S \in SUBSET Live, NEW r \in Resource
       PROVE  LET T == S \cup {child} IN
              /\ SumFunctionOnSet(Share(r)', T) = b[r] + SumFunctionOnSet(Share(r)', S)
              /\ SumFunctionOnSet(Budgets(r)', T) = b[r] + SumFunctionOnSet(Budgets(r), S)
  <2> DEFINE T == S \cup {child}
  <2>1. T \in SUBSET ids /\ child \in T /\ T \ {child} = S
    BY <1>3
  <2>2. SumFunctionOnSet(Share(r)', T) = Share(r)'[child] + SumFunctionOnSet(Share(r)', S)
    BY <1>17, <2>1, SumAdd
  <2>3. SumFunctionOnSet(Budgets(r)', T) = Budgets(r)'[child] + SumFunctionOnSet(Budgets(r)', S)
    BY <1>17, <2>1, SumAdd
  <2>4. SumFunctionOnSet(Budgets(r)', S) = SumFunctionOnSet(Budgets(r), S)
    BY <1>12, <1>18, SumSame
  <2> QED
    BY <1>12, <2>2, <2>3, <2>4
<1>20. ASSUME NEW l \in Live, NEW r \in Resource
       PROVE  SumFunctionOnSet(Share(r)', Below(l)') = SumFunctionOnSet(Share(r), Below(l))
  <2> DEFINE S == Below(l)
             old == SumFunctionOnSet(Share(r), S)
             new == SumFunctionOnSet(Share(r)', S)
  <2>1. S \in SUBSET Live
    BY BelowHas
  <2>2. CASE p \notin S
    <3>1. Below(l)' = S
      BY <1>14, <2>2
    <3>2. \A d \in S : Share(r)'[d] = Share(r)[d]
      BY <1>12, <2>1, <2>2
    <3>3. new = old
      BY <1>18, <2>1, <3>2, SumSame
    <3> QED
      BY <3>1, <3>3
  <2>3. CASE p \in S
    <3>1. Below(l)' = S \cup {child}
      BY <1>14, <2>3
    <3>2. SumFunctionOnSet(Share(r)', Below(l)') = b[r] + new
      BY <1>19, <2>1, <3>1
    <3>3. \A d \in S \ {p} : Share(r)'[d] = Share(r)[d]
      BY <1>12, <2>1
    <3>4. IsFiniteSet(S) /\ Numbers(Share(r), S) /\ Numbers(Share(r)', S)
      BY <1>17, <1>18, <2>1
    <3>5. new + Share(r)[p] = old + Share(r)'[p]
      BY <2>3, <3>3, <3>4, SumChanged
    <3>6. new \in Nat /\ old \in Nat /\ Share(r)[p] \in Nat /\ Share(r)'[p] \in Nat
      BY <3>4, <2>3, SumType DEF Numbers
    <3>7. Share(r)'[p] + b[r] = Share(r)[p] /\ b[r] \in Nat
      BY <1>8, <1>12
    <3> HIDE DEF new, old, S
    <3> QED
      BY <3>2, <3>5, <3>6, <3>7 DEF old, S
  <2> QED
    BY <2>2, <2>3
<1>21. Conserved'
  <2>1. ASSUME NEW l \in Live, NEW r \in Resource
        PROVE  SumFunctionOnSet(Share(r)', Below(l)') = lease'[l].budget[r]
    BY <1>9, <1>20 DEF LedgerInv, Conserved
  <2>2. ASSUME NEW r \in Resource
        PROVE  SumFunctionOnSet(Share(r)', Below(child)') = lease'[child].budget[r]
    <3>1. {} \in SUBSET Live /\ {} \cup {child} = {child}
      OBVIOUS
    <3>2. SumFunctionOnSet(Share(r)', {child}) = b[r] + SumFunctionOnSet(Share(r)', {})
      BY <1>19, <3>1
    <3>3. SumFunctionOnSet(Share(r)', {}) = 0
      BY SumEmpty
    <3> QED
      BY <1>8, <1>10, <1>13, <3>2, <3>3
  <2> QED
    BY <1>5, <2>1, <2>2 DEF Conserved
<1>22. ConsumedIsAccountedFor'
  <2>1. ASSUME NEW l \in Live, NEW r \in Resource
        PROVE  lease'[l].consumed[r] = spent'[l][r] + SumFunctionOnSet(Budgets(r)', Children(l)')
    <3> DEFINE S == Children(l)
               old == SumFunctionOnSet(Budgets(r), S)
               s == spent[l][r]
               c == lease[l].consumed[r]
               x == b[r]
    <3>1. S \in SUBSET Live
      BY DEF Children
    <3>2. c = s + old
      BY DEF LedgerInv, ConsumedIsAccountedFor, Budgets, Children
    <3>3. old \in Nat /\ s \in Nat /\ c \in Nat /\ x \in Nat
      BY <1>1, <1>8, <1>18, <3>1, Amounts, SumType
    <3>4. spent'[l][r] = s
      BY <1>9
    <3>5. CASE l # p
      <4>1. Children(l)' = S
        BY <1>15, <3>5
      <4>2. SumFunctionOnSet(Budgets(r)', S) = old
        BY <1>12, <1>18, <3>1, SumSame
      <4>3. lease'[l].consumed[r] = c
        BY <1>9, <3>5
      <4> QED
        BY <3>2, <3>4, <4>1, <4>2, <4>3
    <3>6. CASE l = p
      <4>1. Children(l)' = S \cup {child}
        BY <1>15, <3>6
      <4>2. SumFunctionOnSet(Budgets(r)', Children(l)') = x + old
        BY <1>19, <3>1, <4>1
      <4>3. lease'[l].consumed[r] = c + x
        BY <1>9, <3>6
      <4>4. c + x = s + (x + old)
        <5> HIDE DEF old, s, c, x
        <5> QED
          BY <3>2, <3>3
      <4> QED
        BY <3>4, <4>2, <4>3, <4>4
    <3> QED
      BY <3>5, <3>6
  <2>2. ASSUME NEW r \in Resource
        PROVE  lease'[child].consumed[r] =
                 spent'[child][r] + SumFunctionOnSet(Budgets(r)', Children(child)')
    <3> DEFINE sum == SumFunctionOnSet(Budgets(r)', Children(child)')
    <3>1. sum = 0
      BY <1>16, SumEmpty
    <3> HIDE DEF sum
    <3> QED
      BY <1>10, <3>1 DEF sum
  <2> QED
    BY <1>5, <2>1, <2>2 DEF ConsumedIsAccountedFor, Budgets, Children
<1> QED
  BY <1>1, <1>5, <1>21, <1>22 DEF LedgerInv

\* Any step, or none.
LEMMA NextConserves == LedgerInv /\ [Next]_vars => LedgerInv'
<1> SUFFICES ASSUME LedgerInv, [Next]_vars PROVE LedgerInv'
  OBVIOUS
<1>1. CASE Next
  <2>1. PICK l \in Live :
          \/ \E u \in Charges : Charge(l, u)
          \/ \E child \in LeaseId, b \in Charges : Delegate(l, child, b)
          \/ Revoke(l)
    BY <1>1 DEF Next
  <2> QED
    BY <2>1, ChargeConserves, DelegateConserves, RevokeConserves
<1>2. CASE UNCHANGED vars
  <2>1. TypeInv'
    BY <1>2, NextKeeps DEF LedgerInv
  <2>2. lease' = lease /\ parent' = parent /\ spent' = spent /\ Live' = Live
    BY <1>2 DEF vars, Live
  <2> QED
    BY <2>1, <2>2, SharesKept
<1> QED
  BY <1>1, <1>2

\* What all below a lease have had is part of what they share.
LEMMA ConservedBounds == LedgerInv => SpentWithinGrant
<1> SUFFICES ASSUME LedgerInv, NEW l \in Live, NEW r \in Resource
             PROVE  SumFunctionOnSet([d \in Live |-> spent[d][r]], Below(l)) <= lease[l].budget[r]
  BY DEF SpentWithinGrant
<1> DEFINE S == Below(l)
           had == [d \in Live |-> spent[d][r]]
<1>1. TypeInv /\ IsFiniteSet(S) /\ S \subseteq Live
  BY BelowHas, FS_Subset DEF LedgerInv
<1>2. ASSUME NEW d \in S
      PROVE  had[d] \in Nat /\ Share(r)[d] \in Nat /\ had[d] <= Share(r)[d]
  <2> DEFINE x == spent[d][r]
             y == lease[d].budget[r]
             z == lease[d].consumed[r]
  <2>1. x \in Nat /\ y \in Nat /\ z \in Nat /\ z <= y
    BY <1>1, Amounts
  <2>2. x <= x + (y - z)
    <3> HIDE DEF x, y, z
    <3> QED
      BY <2>1
  <2>3. had[d] = x /\ Share(r)[d] = x + (y - z) /\ Share(r)[d] \in Nat
    BY <1>1, Amounts
  <2> QED
    BY <2>1, <2>2, <2>3
<1>3. Numbers(had, S) /\ Numbers(Share(r), S)
  BY <1>2 DEF Numbers
<1>4. SumFunctionOnSet(had, S) <= SumFunctionOnSet(Share(r), S)
  BY <1>1, <1>2, <1>3, SumMono
<1> QED
  BY <1>4 DEF LedgerInv, Conserved

\* However a lease is split, its holder and all below it together never spend
\* more than its budget, in any counter.
THEOREM DelegationSpendsWithinGrant == Spec => []SpentWithinGrant
BY InitLedger, NextConserves, ConservedBounds, PTL DEF Spec

\* And what is consumed of a lease is what its holder spent and what its
\* children were given, exactly.
THEOREM ConsumptionIsAccountedFor == Spec => []ConsumedIsAccountedFor
<1>1. LedgerInv => ConsumedIsAccountedFor
  BY DEF LedgerInv
<1> QED
  BY InitLedger, NextConserves, <1>1, PTL DEF Spec
=============================================================================
