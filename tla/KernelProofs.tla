---------------------------- MODULE KernelProofs ----------------------------
(***************************************************************************)
(* Theorems about Kernel and Explain, for every set of actions, rules,     *)
(* costs and forged receipts, and every number of events.                  *)
(*                                                                         *)
(* TypeOK is not inductive: a charge stays within the width of a counter   *)
(* because the lease never consumes more than its budget.  That conjunct   *)
(* makes TypeInv.  SpentIsCharged and CitationsAuthentic are inductive     *)
(* relative to TypeInv, so each lemma below takes one action through all   *)
(* three.                                                                  *)
(***************************************************************************)
EXTENDS Explain, RecordLemmas

TypeInv == TypeOK /\ Within(lease.consumed, lease.budget)

\* No caller declares a proposal pending.
NoneProposedPending == "Pending" \notin CallerDecision

\* The two properties survive the step, each under its own hypotheses.
CountedStep == NoneProposedPending /\ SpentIsCharged => SpentIsCharged'
CitedStep == CitationsAuthentic => CitationsAuthentic'

(***************************************************************************)
(* The receipts.                                                           *)
(***************************************************************************)

\* The receipt of a proposal, whatever the constitution and the budget say.
LEMMA EvaluatedProperties ==
  ASSUME NEW k \in KernelState, NEW at \in Time, NEW p \in Proposal
  PROVE  Continues(k, EvaluatedReceipt(k, at, p))
<1>1. p.action \in Action /\ p.decision \in Decision
  BY KernelAssumption DEF Proposal
<1>2. EvaluatedDecision(p) \in Decision
  BY <1>1 DEF EvaluatedDecision, ConstitutionalDecision, OverrideDecision, Decision
<1>3. MergeRules(p) \cup (IF BudgetRefuses(p) THEN {BudgetRule} ELSE {}) \in SUBSET Rule
  BY KernelAssumption, ConstitutionAssumption DEF MatchedRules, MergeRules, Proposal
<1>4. ZeroDigest \in Digest
  BY DEF ZeroDigest, Digest
<1> QED
  BY <1>1, <1>2, <1>3, <1>4, MintedProperties DEF EvaluatedReceipt

\* The receipt of an operator's answer.
LEMMA ResolvedProperties ==
  ASSUME NEW k \in KernelState, NEW at \in Time, NEW r \in Receipt,
         NEW p \in Proposal, NEW response \in {"Approved", "Denied"}
  PROVE  Continues(k, ResolvedReceipt(k, at, r, p, response))
<1>1. p.action \in Action /\ r.leaf \in Digest
  BY KernelAssumption DEF Proposal, Receipt
<1>2. ResolvedDecision(p, response) \in Decision
  BY DEF ResolvedDecision, Decision
<1>3. ResolvedRules(p, response) \in SUBSET Rule
  BY KernelAssumption DEF ResolvedRules
<1> QED
  BY <1>1, <1>2, <1>3, MintedProperties DEF ResolvedReceipt

\* What the kernel records of itself: a tool that ran, a sleep pass.
LEMMA RecordProperties ==
  ASSUME NEW k \in KernelState, NEW at \in Time, NEW cites \in Digest,
         NEW a \in SleepAction \cup {ToolExecuted}
  PROVE  Continues(k, Minted(k, at, a, "Allowed", {}, cites))
<1>1. a \in Action /\ "Allowed" \in Decision /\ {} \in SUBSET Rule
  BY KernelAssumption DEF Decision
<1> QED
  BY <1>1, MintedProperties

\* Signing and keeping a receipt keeps the types.
LEMMA SignType ==
  ASSUME TypeInv, NEW r, Continues(kernel, r), Sign(r), Keep(r)
  PROVE  kernel' \in KernelState /\ signed' \subseteq Receipt /\ log' \in Seq(Receipt)
BY AppendProperties DEF TypeInv, TypeOK, Continues, Sign, Keep

\* The proposals of an agent are well typed and carry its lease.
LEMMA ProposalsType ==
  ASSUME TypeInv, NEW p \in Proposals
  PROVE  p \in Proposal /\ p.lease = lease
BY DEF TypeInv, TypeOK, Proposals, Proposal

(***************************************************************************)
(* The lease.                                                              *)
(***************************************************************************)

\* Whether or not a charge is tried, the lease stays well typed.
LEMMA LeaseType ==
  ASSUME TypeInv, NEW p \in Proposal, NEW r,
         \/ lease' = lease
         \/ lease' = TryCharge(lease, p.charge),
         Account(r, p)
  PROVE  /\ lease' \in CapabilityLease
         /\ Within(lease.consumed, lease.budget)'
         /\ spent' \in [Resource -> Nat]
<1>1. p.charge \in ResourceUse
  BY KernelAssumption DEF Proposal
<1>2. spent' \in [Resource -> Nat]
  BY <1>1 DEF Account, TypeInv, TypeOK, ResourceUse
<1>3. CASE lease' = lease
  BY <1>2, <1>3 DEF TypeInv, TypeOK
<1>4. CASE lease' = TryCharge(lease, p.charge)
  BY <1>1, <1>2, <1>4, ChargedExactly DEF TryCharge, TypeInv, TypeOK
<1> QED
  BY <1>3, <1>4

\* A charge that is tried exactly when a receipt may be granted, and counted
\* exactly when it is, keeps the two in step.
LEMMA ChargeCounted ==
  ASSUME TypeInv, SpentIsCharged, NEW p \in Proposal, NEW r, NEW tried \in BOOLEAN,
         lease' = IF tried THEN TryCharge(lease, p.charge) ELSE lease,
         Granted(r.decision) <=> tried /\ Chargeable(lease, p.charge),
         Account(r, p)
  PROVE  SpentIsCharged'
<1>1. p.charge \in ResourceUse
  BY KernelAssumption DEF Proposal
<1>2. CASE tried /\ Chargeable(lease, p.charge)
  <2>1. lease' = Charged(lease, p.charge)
    BY <1>2 DEF TryCharge
  <2>2. lease'.consumed = [x \in Resource |-> lease.consumed[x] + p.charge[x]]
    BY <1>1, <1>2, <2>1, ChargedExactly DEF TypeInv, TypeOK
  <2>3. spent' = [x \in Resource |-> spent[x] + p.charge[x]]
    BY <1>2 DEF Account
  <2> QED
    BY <2>2, <2>3 DEF SpentIsCharged
<1>3. CASE ~(tried /\ Chargeable(lease, p.charge))
  <2>1. lease' = lease
    BY <1>3 DEF TryCharge
  <2>2. spent' = spent
    BY <1>3 DEF Account
  <2> QED
    BY <2>1, <2>2 DEF SpentIsCharged
<1> QED
  BY <1>2, <1>3

\* The kernel grants a proposal that was not made as pending if and only if
\* it charges for it.
LEMMA EvaluationGrants ==
  ASSUME NEW p \in Proposal, NoneProposedPending
  PROVE  Granted(EvaluatedDecision(p)) <=> AttemptsCharge(p) /\ Chargeable(p.lease, p.charge)
<1>1. p.decision \in Decision /\ p.decision # "Pending"
  BY KernelAssumption DEF Proposal, NoneProposedPending
<1>2. OverrideDecision(p.action) \in {"Denied", "Pending", "PassThrough"}
  BY DEF OverrideDecision
<1> QED
  BY <1>1, <1>2
     DEF Granted, EvaluatedDecision, BudgetRefuses, AttemptsCharge,
         ConstitutionalDecision, Decision

\* An answer grants if and only if it is an approval that is charged for.
LEMMA ResolutionGrants ==
  ASSUME NEW p, NEW response \in {"Approved", "Denied"}
  PROVE  Granted(ResolvedDecision(p, response))
           <=> response = "Approved" /\ Chargeable(p.lease, p.charge)
BY DEF Granted, ResolvedDecision

(***************************************************************************)
(* The citations.                                                          *)
(***************************************************************************)

\* New receipts whose citations are authentic keep the property.
LEMMA CitationsGrow ==
  ASSUME CitationsAuthentic, signed \subseteq signed',
         \A r \in signed' \ signed :
           r.cites # ZeroDigest =>
             \E p \in signed' : p.leaf = r.cites /\ Authorizes(p, r)
  PROVE  CitationsAuthentic'
BY DEF CitationsAuthentic, Authorizes

(***************************************************************************)
(* One lemma per action.                                                   *)
(***************************************************************************)

Kept == TypeInv' /\ CountedStep /\ CitedStep

\* EvaluateProposal.
LEMMA ProposeKeeps == TypeInv /\ Propose => Kept
<1> SUFFICES ASSUME TypeInv, Propose PROVE Kept
  OBVIOUS
<1>1. PICK p \in Proposals : Evaluate(p)
  BY DEF Propose
<1>2. PICK at \in Time :
        LET r == EvaluatedReceipt(kernel, at, p) IN
          /\ Sign(r)
          /\ Keep(r)
          /\ Account(r, p)
          /\ lease' = EvaluatedLease(p)
          /\ waiting' = IF r.decision = "Pending"
                        THEN waiting \cup {[receipt |-> r, proposal |-> [p EXCEPT !.rules = {}]]}
                        ELSE waiting
  BY <1>1 DEF Evaluate
<1> DEFINE r == EvaluatedReceipt(kernel, at, p)
<1>3. p \in Proposal /\ p.lease = lease
  BY ProposalsType
<1>4. Continues(kernel, r) /\ r \in Receipt
  BY <1>3, EvaluatedProperties DEF TypeInv, TypeOK, Continues
<1>5. r.decision = EvaluatedDecision(p) /\ r.cites = ZeroDigest
  BY DEF EvaluatedReceipt, Minted
<1> HIDE DEF r
<1>6. lease' = IF AttemptsCharge(p) THEN TryCharge(lease, p.charge) ELSE lease
  BY <1>2, <1>3 DEF EvaluatedLease
<1>7. TypeInv'
  <2>1. kernel' \in KernelState /\ signed' \subseteq Receipt /\ log' \in Seq(Receipt)
    BY <1>2, <1>4, SignType DEF r
  <2>2. /\ lease' \in CapabilityLease
        /\ Within(lease.consumed, lease.budget)'
        /\ spent' \in [Resource -> Nat]
    BY <1>2, <1>3, <1>6, LeaseType DEF r
  <2>3. waiting' \subseteq [receipt : Receipt, proposal : Proposal]
    <3>1. PICK q \in Proposal : q = [p EXCEPT !.rules = {}]
      BY <1>3, KernelAssumption DEF Proposal
    <3>2. PICK w \in [receipt : Receipt, proposal : Proposal] : w = [receipt |-> r, proposal |-> q]
      BY <1>4, <3>1
    <3>3. waiting' \subseteq waiting \cup {w}
      BY <1>2, <3>1, <3>2 DEF r
    <3> QED
      BY <3>3 DEF TypeInv, TypeOK
  <2> QED
    BY <2>1, <2>2, <2>3 DEF TypeInv, TypeOK
<1>8. CountedStep
  <2> SUFFICES ASSUME NoneProposedPending, SpentIsCharged PROVE SpentIsCharged'
    BY DEF CountedStep
  <2>1. Granted(r.decision) <=> AttemptsCharge(p) /\ Chargeable(lease, p.charge)
    BY <1>3, <1>5, EvaluationGrants
  <2>2. AttemptsCharge(p) \in BOOLEAN
    BY DEF AttemptsCharge
  <2> QED
    BY <1>2, <1>3, <1>6, <2>1, <2>2, ChargeCounted DEF r
<1>9. CitedStep
  BY <1>2, <1>5, CitationsGrow DEF CitedStep, Sign, r
<1> QED
  BY <1>7, <1>8, <1>9 DEF Kept

\* ResolveApproval.
LEMMA ResolveKeeps == TypeInv /\ ResolveWaiting => Kept
<1> SUFFICES ASSUME TypeInv, ResolveWaiting PROVE Kept
  OBVIOUS
<1>1. PICK q \in Presentable, w \in waiting, response \in {"Approved", "Denied"},
           at \in Time :
        LET p == [w.proposal EXCEPT !.lease = lease]
            f == ResolvedReceipt(kernel, at, q, p, response)
        IN /\ ResolveAdmits(q, p)
           /\ Sign(f)
           /\ Keep(f)
           /\ Account(f, p)
           /\ lease' = ResolvedLease(p, response)
           /\ UNCHANGED waiting
  BY DEF ResolveWaiting
<1> DEFINE p == [w.proposal EXCEPT !.lease = lease]
           f == ResolvedReceipt(kernel, at, q, p, response)
<1>2. p \in Proposal /\ p.lease = lease
  <2>1. w.proposal \in Proposal
    BY DEF TypeInv, TypeOK
  <2> QED
    BY <2>1 DEF Proposal, TypeInv, TypeOK
<1>3. q \in signed /\ q \in Receipt /\ q.decision = "Pending" /\ q.action = p.action
  BY <1>1 DEF ResolveAdmits, Authentic, TypeInv, TypeOK
<1> HIDE DEF p
<1>4. Continues(kernel, f)
  BY <1>2, <1>3, ResolvedProperties DEF TypeInv, TypeOK
<1>5. /\ f.decision = ResolvedDecision(p, response)
      /\ f.action = p.action
      /\ f.cites = q.leaf
  BY DEF ResolvedReceipt, Minted
<1> HIDE DEF f
<1>6. lease' = IF response = "Approved" THEN TryCharge(lease, p.charge) ELSE lease
  BY <1>1, <1>2 DEF ResolvedLease, p
<1>7. Sign(f) /\ Keep(f) /\ Account(f, p) /\ waiting' = waiting
  BY <1>1 DEF f, p
<1>8. TypeInv'
  <2>1. kernel' \in KernelState /\ signed' \subseteq Receipt /\ log' \in Seq(Receipt)
    BY <1>4, <1>7, SignType
  <2>2. /\ lease' \in CapabilityLease
        /\ Within(lease.consumed, lease.budget)'
        /\ spent' \in [Resource -> Nat]
    BY <1>2, <1>6, <1>7, LeaseType
  <2> QED
    BY <1>7, <2>1, <2>2 DEF TypeInv, TypeOK
<1>9. CountedStep
  <2> SUFFICES ASSUME NoneProposedPending, SpentIsCharged PROVE SpentIsCharged'
    BY DEF CountedStep
  <2>1. Granted(f.decision) <=> response = "Approved" /\ Chargeable(lease, p.charge)
    BY <1>2, <1>5, ResolutionGrants
  <2> DEFINE approved == response = "Approved"
  <2>2. approved \in BOOLEAN
    OBVIOUS
  <2> QED
    BY <1>2, <1>6, <1>7, <2>1, <2>2, ChargeCounted
<1>10. CitedStep
  <2>1. Authorizes(q, f)
    BY <1>3, <1>5 DEF Authorizes, ResolvedDecision
  <2> QED
    BY <1>3, <1>5, <1>7, <2>1, CitationsGrow DEF CitedStep, Sign
<1> QED
  BY <1>8, <1>9, <1>10 DEF Kept

\* evaluate_with_routing, when the router answers.  The pending receipt takes
\* the kernel to k, the final one onwards.
LEMMA RouteKeeps ==
  ASSUME TypeInv, NEW p \in Proposals, Route(p)
  PROVE  Kept
<1>1. PICK at \in Time, response \in {"Approved", "Denied"} :
        LET r == EvaluatedReceipt(kernel, at, p)
            k == Advance(kernel, r.leaf)
            f == ResolvedReceipt(k, at, r, p, response)
        IN /\ r.decision = "Pending"
           /\ k.sequence < MaxEvents
           /\ kernel' = Advance(k, f.leaf)
           /\ signed' = signed \cup {r, f}
           /\ Keep(f)
           /\ Account(f, p)
           /\ lease' = ResolvedLease(p, response)
           /\ UNCHANGED waiting
  BY DEF Route
<1> DEFINE r == EvaluatedReceipt(kernel, at, p)
           k == Advance(kernel, r.leaf)
           f == ResolvedReceipt(k, at, r, p, response)
<1>2. p \in Proposal /\ p.lease = lease
  BY ProposalsType
<1>3. r \in Receipt /\ k \in KernelState
  BY <1>2, EvaluatedProperties DEF TypeInv, TypeOK, Continues
<1>4. r.decision = "Pending" /\ r.action = p.action /\ r.cites = ZeroDigest
  BY <1>1 DEF EvaluatedReceipt, Minted
<1>5. /\ kernel' = Advance(k, f.leaf)
      /\ signed' = signed \cup {r, f}
      /\ Keep(f)
      /\ Account(f, p)
      /\ lease' = ResolvedLease(p, response)
      /\ waiting' = waiting
  BY <1>1
<1> HIDE DEF r, k
<1>6. Continues(k, f)
  BY <1>2, <1>3, ResolvedProperties
<1>7. /\ f.decision = ResolvedDecision(p, response)
      /\ f.action = p.action
      /\ f.cites = r.leaf
  BY DEF ResolvedReceipt, Minted
<1> HIDE DEF f
<1>8. lease' = IF response = "Approved" THEN TryCharge(lease, p.charge) ELSE lease
  BY <1>2, <1>5 DEF ResolvedLease
<1>9. TypeInv'
  <2>1. kernel' \in KernelState /\ signed' \subseteq Receipt /\ log' \in Seq(Receipt)
    BY <1>3, <1>5, <1>6, AppendProperties DEF TypeInv, TypeOK, Continues, Keep
  <2>2. /\ lease' \in CapabilityLease
        /\ Within(lease.consumed, lease.budget)'
        /\ spent' \in [Resource -> Nat]
    BY <1>2, <1>5, <1>8, LeaseType
  <2> QED
    BY <1>5, <2>1, <2>2 DEF TypeInv, TypeOK
<1>10. CountedStep
  <2> SUFFICES ASSUME NoneProposedPending, SpentIsCharged PROVE SpentIsCharged'
    BY DEF CountedStep
  <2>1. Granted(f.decision) <=> response = "Approved" /\ Chargeable(lease, p.charge)
    BY <1>2, <1>7, ResolutionGrants
  <2> DEFINE approved == response = "Approved"
  <2>2. approved \in BOOLEAN
    OBVIOUS
  <2> QED
    BY <1>2, <1>5, <1>8, <2>1, <2>2, ChargeCounted
<1>11. CitedStep
  <2>1. Authorizes(r, f)
    BY <1>4, <1>7 DEF Authorizes, ResolvedDecision
  <2> QED
    BY <1>4, <1>5, <1>7, <2>1, CitationsGrow DEF CitedStep
<1> QED
  BY <1>9, <1>10, <1>11 DEF Kept

\* A step that leaves lease and waiting alone, signs r and keeps or drops it.
LEMMA QuietKeeps ==
  ASSUME TypeInv, NEW r, Continues(kernel, r), Sign(r), Keep(r) \/ log' = log,
         UNCHANGED <<lease, waiting, spent>>,
         r.cites # ZeroDigest =>
           \E p \in signed : p.leaf = r.cites /\ Authorizes(p, r)
  PROVE  Kept
<1>1. kernel' \in KernelState /\ signed' \subseteq Receipt /\ log' \in Seq(Receipt)
  <2>1. CASE Keep(r)
    BY <2>1, SignType
  <2>2. CASE log' = log
    BY <2>2 DEF TypeInv, TypeOK, Continues, Sign
  <2> QED
    BY <2>1, <2>2
<1>2. TypeInv'
  BY <1>1 DEF TypeInv, TypeOK, Within
<1>3. CountedStep
  BY DEF CountedStep, SpentIsCharged
<1>4. CitedStep
  BY CitationsGrow DEF CitedStep, Sign
<1> QED
  BY <1>2, <1>3, <1>4 DEF Kept

\* evaluate_with_routing, when the router fails.
LEMMA RouteFailsKeeps ==
  ASSUME TypeInv, NEW p \in Proposals, RouteFails(p)
  PROVE  Kept
<1>1. PICK at \in Time :
        LET r == EvaluatedReceipt(kernel, at, p) IN
          /\ r.decision = "Pending"
          /\ Sign(r)
          /\ UNCHANGED <<lease, waiting, log, spent>>
  BY DEF RouteFails
<1>2. Continues(kernel, EvaluatedReceipt(kernel, at, p))
  BY ProposalsType, EvaluatedProperties DEF TypeInv, TypeOK
<1>3. EvaluatedReceipt(kernel, at, p).cites = ZeroDigest
  BY DEF EvaluatedReceipt, Minted
<1> QED
  BY <1>1, <1>2, <1>3, QuietKeeps

\* RecordToolExecution.
LEMMA ToolKeeps == TypeInv /\ RecordToolExecution => Kept
<1> SUFFICES ASSUME TypeInv, RecordToolExecution PROVE Kept
  OBVIOUS
<1>1. PICK r \in Presentable, at \in Time :
        LET f == Minted(kernel, at, ToolExecuted, "Allowed", {}, r.leaf) IN
          /\ ToolAdmits(r)
          /\ Sign(f)
          /\ Keep(f)
          /\ UNCHANGED <<lease, waiting, spent>>
  BY DEF RecordToolExecution
<1> DEFINE f == Minted(kernel, at, ToolExecuted, "Allowed", {}, r.leaf)
<1>2. r \in signed /\ r \in Receipt /\ r.decision = "Allowed" /\ r.action \in ToolAction
  BY <1>1 DEF ToolAdmits, Authentic, TypeInv, TypeOK
<1>3. Continues(kernel, f)
  BY <1>2, RecordProperties DEF Receipt, TypeInv, TypeOK
<1>4. f.cites = r.leaf /\ Authorizes(r, f)
  BY <1>2 DEF Authorizes, Minted
<1> HIDE DEF f
<1>5. Sign(f) /\ Keep(f) /\ UNCHANGED <<lease, waiting, spent>>
  BY <1>1 DEF f
<1> QED
  BY <1>2, <1>3, <1>4, <1>5, QuietKeeps

\* RunLightSleep and RunDeepSleep.
LEMMA SleepKeeps == TypeInv /\ RecordSleep => Kept
<1> SUFFICES ASSUME TypeInv, RecordSleep PROVE Kept
  OBVIOUS
<1>1. PICK a \in SleepAction, at \in Time :
        LET f == Minted(kernel, at, a, "Allowed", {}, ZeroDigest) IN
          /\ Sign(f)
          /\ Keep(f)
          /\ UNCHANGED <<lease, waiting, spent>>
  BY DEF RecordSleep
<1> DEFINE f == Minted(kernel, at, a, "Allowed", {}, ZeroDigest)
<1>2. Continues(kernel, f)
  <2>1. ZeroDigest \in Digest
    BY DEF ZeroDigest, Digest
  <2> QED
    BY <2>1, RecordProperties DEF TypeInv, TypeOK
<1>3. f.cites = ZeroDigest
  BY DEF Minted
<1> QED
  BY <1>1, <1>2, <1>3, QuietKeeps

\* The holder revokes the lease.
LEMMA RevokeKeeps == TypeInv /\ RevokeLease => Kept
<1> SUFFICES ASSUME TypeInv, RevokeLease PROVE Kept
  OBVIOUS
<1>1. /\ lease' \in CapabilityLease
      /\ lease'.consumed = lease.consumed
      /\ lease'.budget = lease.budget
  BY DEF RevokeLease, TypeInv, TypeOK, CapabilityLease
<1>2. TypeInv'
  BY <1>1 DEF TypeInv, TypeOK, RevokeLease
<1>3. CountedStep
  BY <1>1 DEF CountedStep, SpentIsCharged, RevokeLease
<1>4. CitedStep
  BY DEF CitedStep, CitationsAuthentic, RevokeLease
<1> QED
  BY <1>2, <1>3, <1>4 DEF Kept

\* Any step, or none.
LEMMA NextKeeps == TypeInv /\ [Next]_vars => Kept
<1> SUFFICES ASSUME TypeInv, [Next]_vars PROVE Kept
  OBVIOUS
<1>1. CASE Propose
  BY <1>1, ProposeKeeps
<1>2. CASE ResolveWaiting
  BY <1>2, ResolveKeeps
<1>3. CASE RouteProposal
  BY <1>3, RouteKeeps, RouteFailsKeeps DEF RouteProposal
<1>4. CASE RecordToolExecution
  BY <1>4, ToolKeeps
<1>5. CASE RecordSleep
  BY <1>5, SleepKeeps
<1>6. CASE RevokeLease
  BY <1>6, RevokeKeeps
<1>7. CASE UNCHANGED vars
  BY <1>7 DEF vars, Kept, TypeInv, TypeOK, Within, CountedStep, SpentIsCharged,
              CitedStep, CitationsAuthentic
<1> QED
  BY <1>1, <1>2, <1>3, <1>4, <1>5, <1>6, <1>7 DEF Next

\* The initial state.
LEMMA InitKept == Init => TypeInv /\ SpentIsCharged /\ CitationsAuthentic
<1> SUFFICES ASSUME Init PROVE TypeInv /\ SpentIsCharged /\ CitationsAuthentic
  OBVIOUS
<1>1. /\ lease \in CapabilityLease
      /\ lease.consumed = NoUse
      /\ Within(lease.consumed, lease.budget)
  BY KernelAssumption, NewLeaseType DEF Init
<1>2. NoUse \in [Resource -> Nat]
  BY DEF NoUse
<1>3. kernel \in KernelState
  BY DEF Init, Genesis, KernelState, Digest, ZeroDigest
<1> QED
  BY <1>1, <1>2, <1>3
     DEF Init, TypeInv, TypeOK, SpentIsCharged, CitationsAuthentic

(***************************************************************************)
(* The theorems.                                                           *)
(***************************************************************************)

\* Types are kept, and the lease within its budget.
LEMMA TypeInvHolds == Spec => []TypeInv
<1>1. TypeInv /\ [Next]_vars => TypeInv'
  BY NextKeeps DEF Kept
<1> QED
  BY InitKept, <1>1, PTL DEF Spec

\* Every variable always has its type; in particular no counter of the lease
\* ever leaves its width.
THEOREM TypeCorrect == Spec => []TypeOK
<1>1. TypeInv => TypeOK
  BY DEF TypeInv
<1> QED
  BY TypeInvHolds, <1>1, PTL

\* The lease has lost exactly what the granted actions cost, for an agent that
\* proposes nothing as pending: no approval, denial or repetition is charged
\* too much or too little.
THEOREM ChargesMatchGrants ==
  ASSUME NoneProposedPending
  PROVE  Spec => []SpentIsCharged
<1>1. TypeInv /\ SpentIsCharged /\ [Next]_vars => SpentIsCharged'
  BY NextKeeps DEF Kept, CountedStep
<1> QED
  BY InitKept, TypeInvHolds, <1>1, PTL DEF Spec

\* The granted actions never cost more than the lease allows.
THEOREM BudgetIsKept ==
  ASSUME NoneProposedPending
  PROVE  Spec => []SpentWithinBudget
<1>1. TypeInv /\ SpentIsCharged => SpentWithinBudget
  BY DEF TypeInv, SpentIsCharged, SpentWithinBudget
<1> QED
  BY ChargesMatchGrants, TypeInvHolds, <1>1, PTL

\* Whatever is presented to the kernel, every receipt that names another one
\* names one that the kernel signed and that entitles it.
THEOREM CitationsAreAuthentic == Spec => []CitationsAuthentic
<1>1. TypeInv /\ CitationsAuthentic /\ [Next]_vars => CitationsAuthentic'
  BY NextKeeps DEF Kept, CitedStep
<1> QED
  BY InitKept, TypeInvHolds, <1>1, PTL DEF Spec

(***************************************************************************)
(* What a receipt explains.                                                *)
(***************************************************************************)

\* The claim of VerdictNamesCause about one receipt.
CauseNamed(r) ==
  LET e == Explanation(r) IN
    /\ r.decision = "Denied" /\ r.cites = ZeroDigest /\ OverrideDecision(r.action) = "Denied"
         => e.verdict = "DeniedByConstitution"
    /\ e.verdict = "DeniedByConstitution" =>
         \/ OverrideDecision(r.action) = "Denied" /\ e.named \subseteq MatchedRules(r.action)
         \/ Of("Constitution", Said(r)) # {}
    /\ e.verdict = "DeniedByOperator" =>
         \/ \E p \in signed :
              p.leaf = e.provenance /\ p.action = r.action /\ Explanation(p).verdict = "Pending"
         \/ DeniedByOperator \in Said(r)
    /\ e.verdict = "DeniedByBudget" =>
         \/ \E c \in Costs : ~Chargeable(lease, c)
         \/ Of("KernelBudget", Said(r)) # {}
    /\ e.verdict = "DeniedAsProposed" =>
         "Denied" \in CallerDecision /\ OverrideDecision(r.action) = "PassThrough"
    /\ e.merkle.is_genesis <=> r.seq = 0

\* The kernel's position is the first exactly when nothing precedes it.
GenesisFirst == kernel.prev_hash = ZeroDigest <=> kernel.sequence = 0

CauseInv ==
  /\ GenesisFirst
  /\ \A r \in signed : r.leaf # ZeroDigest
  /\ VerdictNamesCause

\* The fields of an explanation.
LEMMA ExplanationFields ==
  ASSUME NEW r
  PROVE  /\ Explanation(r).verdict = Verdict(r)
         /\ Explanation(r).named = Named(r)
         /\ Explanation(r).provenance = r.cites
         /\ Explanation(r).merkle.is_genesis <=> r.prev = ZeroDigest
BY DEF Explanation, MerkleInfo

\* The kernel's own rules have the kind their ids say, and say they matched; the
\* constitution's rules are of the constitution.
LEMMA RuleKinds ==
  /\ RuleKind(BudgetRule) = "KernelBudget" /\ BudgetRule \notin Unmatched
  /\ RuleKind(DeniedByOperator) = "KernelApproval" /\ DeniedByOperator \notin Unmatched
  /\ DeniedByOperator # BudgetRule
  /\ \A rule \in ConstitutionRule : RuleKind(rule) = "Constitution" /\ rule \notin Unmatched
<1>1. BudgetRule \in BudgetRules /\ BudgetRule \notin Unmatched
  BY ExplainAssumption
<1>2. DeniedByOperator \in ApprovalRules /\ DeniedByOperator \notin (BudgetRules \cup Unmatched)
  BY ExplainAssumption
<1>3. ASSUME NEW rule \in ConstitutionRule
      PROVE  rule \notin DollarRules /\ rule \notin Unmatched
  BY ExplainAssumption
<1>4. BudgetRules \cup ApprovalRules \subseteq DollarRules /\ BudgetRule \notin ApprovalRules
  BY <1>1, ExplainAssumption
<1>5. RuleKind(BudgetRule) = "KernelBudget"
  BY <1>1, <1>4 DEF RuleKind
<1>6. RuleKind(DeniedByOperator) = "KernelApproval"
  BY <1>2, <1>4 DEF RuleKind
<1>7. \A rule \in ConstitutionRule : RuleKind(rule) = "Constitution"
  BY <1>3, <1>4 DEF RuleKind
<1> QED
  BY <1>1, <1>2, <1>3, <1>5, <1>6, <1>7

\* The last rule of a proposal that the budget refuses is the budget's.
Refusing(p) == IF BudgetRefuses(p) THEN {BudgetRule} ELSE {}

\* Of a proposal on which the constitution is silent: what its rules say is its own word,
\* but for the budget's.
LEMMA SilentCause ==
  ASSUME NEW p \in Proposal, MatchedRules(p.action) = {}, NEW r,
         r.cites = ZeroDigest, r.action = p.action, r.rules = p.rules \cup Refusing(p),
         NEW kind
  PROVE  /\ p.rules \subseteq Said(r)
         /\ Of(kind, r.rules) \subseteq Of(kind, Said(r)) \cup (IF kind = "KernelBudget" THEN Refusing(p) ELSE {})
<1>1. OverrideDecision(p.action) = "PassThrough"
  BY DEF OverrideDecision
<1>2. p.rules \in CallerRules
  BY DEF Proposal
<1>3. p.rules \subseteq Said(r)
  BY <1>1, <1>2 DEF Said
<1>4. \A rule \in Refusing(p) : RuleKind(rule) = "KernelBudget"
  BY RuleKinds DEF Refusing
<1> QED
  BY <1>3, <1>4 DEF Of

\* Of a proposal: the operator has not spoken, and who denied it is the
\* constitution, the budget, or the caller, who may say anything where the
\* constitution says nothing.
LEMMA EvaluatedCause ==
  ASSUME NEW k, NEW at, NEW p \in Proposal
  PROVE  LET r == EvaluatedReceipt(k, at, p)
             v == Verdict(r)
         IN /\ r.cites = ZeroDigest
            /\ r.action = p.action
            /\ r.decision = "Denied" /\ OverrideDecision(p.action) = "Denied"
                 => v = "DeniedByConstitution"
            /\ v = "DeniedByConstitution" =>
                 \/ OverrideDecision(p.action) = "Denied" /\ Named(r) \subseteq MatchedRules(p.action)
                 \/ Of("Constitution", Said(r)) # {}
            /\ v = "DeniedByOperator" => DeniedByOperator \in Said(r)
            /\ v = "DeniedByBudget" => BudgetRefuses(p) \/ Of("KernelBudget", Said(r)) # {}
            /\ v = "DeniedAsProposed" =>
                 p.decision = "Denied" /\ OverrideDecision(p.action) = "PassThrough"
            /\ r.decision = "Pending" => v = "Pending"
<1> DEFINE r == EvaluatedReceipt(k, at, p)
           a == p.action
<1>1. /\ r.cites = ZeroDigest
      /\ r.action = a
      /\ r.rules = MergeRules(p) \cup Refusing(p)
      /\ r.decision = EvaluatedDecision(p)
  BY DEF EvaluatedReceipt, Minted, Refusing
<1>2. MatchedRules(a) \subseteq ConstitutionRule
  BY DEF MatchedRules
<1>3. MatchedRules(a) = {} <=> OverrideDecision(a) = "PassThrough"
  BY <1>2 DEF OverrideDecision, ConstitutionRule
<1>4. OverrideDecision(a) \in {"Denied", "Pending", "PassThrough"}
  BY DEF OverrideDecision
<1>5. p.decision \in Decision
  BY KernelAssumption DEF Proposal
<1>6. r.decision \in Decision
  BY <1>1, <1>5 DEF EvaluatedDecision, ConstitutionalDecision, OverrideDecision, Decision
<1>7. BudgetRefuses(p) => r.decision = "Denied" /\ OverrideDecision(a) # "Denied"
  BY <1>1 DEF EvaluatedDecision, BudgetRefuses, AttemptsCharge, ConstitutionalDecision
<1>8. ~BudgetRefuses(p) =>
        r.decision = IF OverrideDecision(a) = "PassThrough" THEN p.decision ELSE OverrideDecision(a)
  BY <1>1 DEF EvaluatedDecision, ConstitutionalDecision
<1>9. BudgetRefuses(p) => BudgetRule \in Of("KernelBudget", r.rules)
  BY <1>1, RuleKinds DEF Refusing, Of
<1>10. ~BudgetRefuses(p) => Refusing(p) = {}
  BY DEF Refusing
<1>11. r.decision = "Pending" => Verdict(r) = "Pending"
  BY DEF Verdict
<1>12. Verdict(r) \in {"DeniedByConstitution", "DeniedByOperator", "DeniedByBudget",
                       "DeniedAsProposed"} => r.decision = "Denied"
  BY <1>6 DEF Verdict, Decision
<1> HIDE DEF r
<1>13. CASE MatchedRules(a) = {}
  <2>1. r.rules = p.rules \cup Refusing(p)
    BY <1>1, <1>13 DEF MergeRules
  <2>2. \A kind : Of(kind, r.rules) \subseteq
                  Of(kind, Said(r)) \cup (IF kind = "KernelBudget" THEN Refusing(p) ELSE {})
    BY <1>1, <1>13, <2>1, SilentCause
  <2>3. Of("KernelApproval", r.rules) \subseteq Of("KernelApproval", Said(r))
    BY <2>2
  <2>4. Of("Constitution", r.rules) \subseteq Of("Constitution", Said(r))
    BY <2>2
  <2>5. Of("KernelBudget", r.rules) \subseteq Of("KernelBudget", Said(r)) \cup Refusing(p)
    BY <2>2
  <2>6. Verdict(r) = "DeniedByOperator" => DeniedByOperator \in Said(r)
    BY <1>12, <2>3 DEF Verdict, Of
  <2>7. Verdict(r) = "DeniedByBudget" => BudgetRefuses(p) \/ Of("KernelBudget", Said(r)) # {}
    BY <1>10, <1>12, <2>5 DEF Verdict
  <2>8. Verdict(r) = "DeniedByConstitution" => Of("Constitution", Said(r)) # {}
    BY <1>12, <2>4 DEF Verdict
  <2>9. Verdict(r) = "DeniedAsProposed" => r.decision = "Denied" /\ Of("KernelBudget", r.rules) = {}
    BY <1>12 DEF Verdict
  <2> QED
    BY <1>1, <1>3, <1>8, <1>9, <1>11, <1>13, <2>6, <2>7, <2>8, <2>9 DEF r
<1>14. CASE MatchedRules(a) # {}
  <2>1. r.rules = MatchedRules(a) \cup Refusing(p)
    BY <1>1, <1>14 DEF MergeRules
  <2>2. Of("KernelApproval", r.rules) = {}
    BY <1>2, <2>1, RuleKinds DEF Of, Refusing
  <2>3. Of("KernelBudget", r.rules) # {} <=> BudgetRefuses(p)
    BY <1>2, <2>1, RuleKinds DEF Of, Refusing
  <2>4. Of("Constitution", r.rules) = MatchedRules(a)
    BY <1>2, <2>1, RuleKinds DEF Of, Refusing
  <2>5. Verdict(r) = IF r.decision # "Denied" THEN r.decision
                     ELSE IF BudgetRefuses(p) THEN "DeniedByBudget"
                     ELSE "DeniedByConstitution"
    BY <1>14, <2>2, <2>3, <2>4 DEF Verdict
  <2>6. Named(r) \subseteq MatchedRules(a) \/ Verdict(r) = "DeniedByBudget"
    BY <2>4 DEF Named
  <2>7. r.decision = "Denied" /\ ~BudgetRefuses(p) => OverrideDecision(a) = "Denied"
    BY <1>3, <1>8, <1>14
  <2> QED
    BY <1>1, <1>7, <1>11, <1>12, <2>5, <2>6, <2>7 DEF r
<1> QED
  BY <1>13, <1>14

\* Of an operator's answer: only the operator or the budget can have denied it.
LEMMA ResolvedCause ==
  ASSUME NEW k, NEW at, NEW q, NEW p, NEW response \in {"Approved", "Denied"}
  PROVE  LET r == ResolvedReceipt(k, at, q, p, response)
             v == Verdict(r)
         IN /\ r.cites = q.leaf
            /\ r.action = p.action
            /\ v \in {"Approved", "DeniedByOperator", "DeniedByBudget"}
            /\ v = "DeniedByBudget" => ~Chargeable(p.lease, p.charge)
<1> DEFINE r == ResolvedReceipt(k, at, q, p, response)
<1>1. /\ r.cites = q.leaf
      /\ r.action = p.action
      /\ r.rules = ResolvedRules(p, response)
      /\ r.decision = ResolvedDecision(p, response)
  BY DEF ResolvedReceipt, Minted
<1>2. CASE response = "Denied"
  <2>1. DeniedByOperator \in Of("KernelApproval", r.rules)
    BY <1>1, <1>2, RuleKinds DEF ResolvedRules, Of
  <2> QED
    BY <1>1, <1>2, <2>1 DEF ResolvedDecision, Verdict
<1>3. CASE response = "Approved" /\ Chargeable(p.lease, p.charge)
  BY <1>1, <1>3 DEF ResolvedDecision, Verdict
<1>4. CASE response = "Approved" /\ ~Chargeable(p.lease, p.charge)
  <2>1. r.rules = {BudgetRule} /\ r.decision = "Denied"
    BY <1>1, <1>4 DEF ResolvedRules, ResolvedDecision
  <2>2. Of("KernelApproval", r.rules) = {} /\ Of("KernelBudget", r.rules) # {}
    BY <2>1, RuleKinds DEF Of
  <2> QED
    BY <1>1, <1>4, <2>1, <2>2 DEF Verdict
<1> QED
  BY <1>2, <1>3, <1>4

\* What cannot be paid for any more never can be again.
LEMMA ChargeableShrinks ==
  ASSUME TypeInv, NEW c \in ResourceUse, NEW d \in ResourceUse,
         ~Chargeable(lease, d),
         lease' \in {lease, TryCharge(lease, c), [lease EXCEPT !.revoked = TRUE]}
  PROVE  ~Chargeable(lease', d)
<1>1. lease \in CapabilityLease /\ Within(lease.consumed, lease.budget)
  BY DEF TypeInv, TypeOK
<1>2. CASE lease' = lease
  BY <1>2
<1>3. CASE lease' = [lease EXCEPT !.revoked = TRUE]
  BY <1>1, <1>3 DEF Chargeable, CapabilityLease
<1>4. CASE lease' = TryCharge(lease, c) /\ ~Chargeable(lease, c)
  BY <1>4 DEF TryCharge
<1>5. CASE lease' = TryCharge(lease, c) /\ Chargeable(lease, c)
  <2>1. lease' = Charged(lease, c)
    BY <1>5 DEF TryCharge
  <2>2. /\ lease'.consumed = [r \in Resource |-> lease.consumed[r] + c[r]]
        /\ lease'.budget = lease.budget
        /\ lease'.revoked = lease.revoked
    BY <1>1, <1>5, <2>1, ChargedExactly
  <2>3. PICK r \in Resource : ~(d[r] <= Remaining(lease)[r])
    BY <1>5 DEF Chargeable, Within
  <2> DEFINE b == lease.budget[r]
             u == lease.consumed[r]
             x == c[r]
             y == d[r]
  <2>4. b \in Nat /\ u \in Nat /\ x \in Nat /\ y \in Nat
    BY <1>1 DEF CapabilityLease, ResourceUse
  <2>5. ~(y <= SaturatingSub(b, u))
    BY <2>3 DEF Remaining
  <2>6. Remaining(lease')[r] = SaturatingSub(b, u + x)
    BY <2>2 DEF Remaining
  <2>7. ~(y <= SaturatingSub(b, u + x))
    <3> HIDE DEF b, u, x, y
    <3> QED
      BY <2>4, <2>5 DEF SaturatingSub
  <2> QED
    BY <2>6, <2>7 DEF Chargeable, Within
<1> QED
  BY <1>2, <1>3, <1>4, <1>5

\* The lease after an event is one of three.
LeaseStep ==
  \/ lease' = lease
  \/ \E c \in ResourceUse : lease' = TryCharge(lease, c)
  \/ lease' = [lease EXCEPT !.revoked = TRUE]

\* The explanations of old receipts stay true, whatever happens to the lease.
LEMMA CauseKept ==
  ASSUME TypeInv, VerdictNamesCause, LeaseStep, signed \subseteq signed',
         \A r \in signed' \ signed : CauseNamed(r)'
  PROVE  VerdictNamesCause'
<1>1. \A c \in Costs : ~Chargeable(lease, c) => ~Chargeable(lease', c)
  BY ChargeableShrinks, KernelAssumption DEF LeaseStep
<1>2. ASSUME NEW r \in signed
      PROVE  CauseNamed(r)'
  <2>1. CauseNamed(r)
    BY DEF VerdictNamesCause, CauseNamed
  <2> QED
    BY <1>1, <2>1 DEF CauseNamed
<1> QED
  BY <1>2 DEF VerdictNamesCause, CauseNamed

\* A receipt that continues the kernel's chain is its first if it says so.
LEMMA FirstSaysSo ==
  ASSUME TypeInv, GenesisFirst, NEW k, k = kernel, NEW r, Continues(k, r)
  PROVE  /\ r.prev = ZeroDigest <=> r.seq = 0
         /\ r.leaf # ZeroDigest
         /\ Advance(k, r.leaf).sequence # 0
         /\ Advance(k, r.leaf).prev_hash # ZeroDigest
<1>1. r.seq = kernel.sequence /\ r.prev = kernel.prev_hash
  BY DEF Continues
<1>2. r.leaf # ZeroDigest
  BY AppendProperties DEF Continues, ZeroDigest, TypeInv, TypeOK, KernelState, Digest
<1>3. kernel.sequence + 1 # 0
  BY DEF TypeInv, TypeOK, KernelState
<1> QED
  BY <1>1, <1>2, <1>3 DEF GenesisFirst, Advance

\* The receipt of a proposal is explained truly.
LEMMA EvaluatedNamed ==
  ASSUME TypeInv, GenesisFirst, NEW at \in Time, NEW p \in Proposals, NEW r,
         r = EvaluatedReceipt(kernel, at, p), r \in signed', LeaseStep
  PROVE  CauseNamed(r)'
<1>1. p \in Proposal /\ p.lease = lease
  BY ProposalsType
<1>2. Continues(kernel, r)
  BY <1>1, EvaluatedProperties DEF TypeInv, TypeOK
<1>3. r.prev = ZeroDigest <=> r.seq = 0
  BY <1>2, FirstSaysSo
<1>4. /\ r.cites = ZeroDigest
      /\ r.action = p.action
      /\ r.decision = "Denied" /\ OverrideDecision(p.action) = "Denied"
           => Verdict(r) = "DeniedByConstitution"
      /\ Verdict(r) = "DeniedByConstitution" =>
           \/ OverrideDecision(p.action) = "Denied" /\ Named(r) \subseteq MatchedRules(p.action)
           \/ Of("Constitution", Said(r)) # {}
      /\ Verdict(r) = "DeniedByOperator" => DeniedByOperator \in Said(r)
      /\ Verdict(r) = "DeniedByBudget" => BudgetRefuses(p) \/ Of("KernelBudget", Said(r)) # {}
      /\ Verdict(r) = "DeniedAsProposed" =>
           p.decision = "Denied" /\ OverrideDecision(p.action) = "PassThrough"
  BY <1>1, EvaluatedCause
<1>5. p.charge \in Costs /\ p.decision \in CallerDecision /\ p.charge \in ResourceUse
  BY <1>1, KernelAssumption DEF Proposal
<1>6. BudgetRefuses(p) => ~Chargeable(lease', p.charge)
  BY <1>1, <1>5, ChargeableShrinks DEF BudgetRefuses, LeaseStep
<1> QED
  BY <1>3, <1>4, <1>5, <1>6, ExplanationFields DEF CauseNamed

\* So is the receipt of an answer to a receipt explained as pending.
LEMMA ResolvedNamed ==
  ASSUME TypeInv, NEW k, NEW at, NEW p \in Proposal, p.lease = lease,
         NEW q \in signed', q.decision = "Pending", q.action = p.action, q.leaf # ZeroDigest,
         NEW response \in {"Approved", "Denied"}, NEW r,
         r = ResolvedReceipt(k, at, q, p, response),
         r.prev = ZeroDigest <=> r.seq = 0, LeaseStep
  PROVE  CauseNamed(r)'
<1>1. /\ r.cites = q.leaf
      /\ r.action = p.action
      /\ Verdict(r) \in {"Approved", "DeniedByOperator", "DeniedByBudget"}
      /\ Verdict(r) = "DeniedByBudget" => ~Chargeable(lease, p.charge)
  BY ResolvedCause
<1>2. p.charge \in Costs /\ p.charge \in ResourceUse
  BY KernelAssumption DEF Proposal
<1>3. ~Chargeable(lease, p.charge) => ~Chargeable(lease', p.charge)
  BY <1>2, ChargeableShrinks DEF LeaseStep
<1>4. Verdict(q) = "Pending"
  BY DEF Verdict
<1> QED
  BY <1>1, <1>2, <1>3, <1>4, ExplanationFields DEF CauseNamed

\* What the kernel records of itself is never a denial.
LEMMA RecordNamed ==
  ASSUME NEW r, r.decision = "Allowed", r.prev = ZeroDigest <=> r.seq = 0
  PROVE  CauseNamed(r)'
<1>1. Verdict(r) = "Allowed"
  BY DEF Verdict
<1> QED
  BY <1>1, ExplanationFields DEF CauseNamed

\* One event that signs one receipt.
LEMMA SignedOnce ==
  ASSUME TypeInv, CauseInv, LeaseStep, NEW r, Continues(kernel, r), Sign(r), CauseNamed(r)'
  PROVE  CauseInv'
<1>1. VerdictNamesCause'
  BY CauseKept DEF CauseInv, Sign
<1>2. GenesisFirst' /\ r.leaf # ZeroDigest
  BY FirstSaysSo DEF CauseInv, GenesisFirst, Sign
<1>3. \A x \in signed' : x.leaf # ZeroDigest
  BY <1>2 DEF CauseInv, Sign
<1> QED
  BY <1>1, <1>2, <1>3 DEF CauseInv

\* EvaluateProposal.
LEMMA ProposeNames == TypeInv /\ CauseInv /\ Propose => CauseInv'
<1> SUFFICES ASSUME TypeInv, CauseInv, Propose PROVE CauseInv'
  OBVIOUS
<1>1. PICK p \in Proposals : Evaluate(p)
  BY DEF Propose
<1>2. PICK at \in Time : /\ Sign(EvaluatedReceipt(kernel, at, p))
                         /\ lease' = EvaluatedLease(p)
  BY <1>1 DEF Evaluate
<1>3. PICK r : r = EvaluatedReceipt(kernel, at, p)
  OBVIOUS
<1>4. p \in Proposal /\ p.lease = lease /\ p.charge \in ResourceUse
  BY ProposalsType, KernelAssumption DEF Proposal
<1>5. LeaseStep
  BY <1>2, <1>4 DEF EvaluatedLease, LeaseStep
<1>6. Continues(kernel, r)
  BY <1>3, <1>4, EvaluatedProperties DEF TypeInv, TypeOK
<1>7. Sign(r) /\ r \in signed'
  BY <1>2, <1>3 DEF Sign
<1>8. CauseNamed(r)'
  BY <1>3, <1>5, <1>7, EvaluatedNamed DEF CauseInv
<1> QED
  BY <1>5, <1>6, <1>7, <1>8, SignedOnce

\* ResolveApproval.
LEMMA ResolveNames == TypeInv /\ CauseInv /\ ResolveWaiting => CauseInv'
<1> SUFFICES ASSUME TypeInv, CauseInv, ResolveWaiting PROVE CauseInv'
  OBVIOUS
<1>1. PICK q \in Presentable, w \in waiting, response \in {"Approved", "Denied"},
           at \in Time :
        LET p == [w.proposal EXCEPT !.lease = lease]
            f == ResolvedReceipt(kernel, at, q, p, response)
        IN /\ ResolveAdmits(q, p)
           /\ Sign(f)
           /\ lease' = ResolvedLease(p, response)
  BY DEF ResolveWaiting
<1>2. PICK p : p = [w.proposal EXCEPT !.lease = lease]
  OBVIOUS
<1>3. PICK r : r = ResolvedReceipt(kernel, at, q, p, response)
  OBVIOUS
<1>4. p \in Proposal /\ p.lease = lease
  <2>1. w.proposal \in Proposal
    BY DEF TypeInv, TypeOK
  <2> QED
    BY <1>2, <2>1 DEF Proposal, TypeInv, TypeOK
<1>5. ResolveAdmits(q, p) /\ Sign(r) /\ lease' = ResolvedLease(p, response)
  BY <1>1, <1>2, <1>3
<1>6. q \in signed /\ q \in Receipt /\ q.decision = "Pending" /\ q.action = p.action
  BY <1>5 DEF ResolveAdmits, Authentic, TypeInv, TypeOK
<1>7. Continues(kernel, r)
  BY <1>3, <1>4, <1>6, ResolvedProperties DEF TypeInv, TypeOK
<1>8. LeaseStep
  BY <1>4, <1>5, KernelAssumption DEF ResolvedLease, LeaseStep, Proposal
<1>9. q \in signed' /\ q.leaf # ZeroDigest
  BY <1>5, <1>6 DEF Sign, CauseInv
<1>10. r.prev = ZeroDigest <=> r.seq = 0
  BY <1>7, FirstSaysSo DEF CauseInv
<1>11. CauseNamed(r)'
  BY <1>3, <1>4, <1>6, <1>8, <1>9, <1>10, ResolvedNamed
<1> QED
  BY <1>5, <1>7, <1>8, <1>11, SignedOnce

\* evaluate_with_routing, when the router answers.
LEMMA RouteNames ==
  ASSUME TypeInv, CauseInv, NEW p \in Proposals, Route(p)
  PROVE  CauseInv'
<1>1. PICK at \in Time, response \in {"Approved", "Denied"} :
        LET r == EvaluatedReceipt(kernel, at, p)
            k == Advance(kernel, r.leaf)
            f == ResolvedReceipt(k, at, r, p, response)
        IN /\ r.decision = "Pending"
           /\ kernel' = Advance(k, f.leaf)
           /\ signed' = signed \cup {r, f}
           /\ lease' = ResolvedLease(p, response)
  BY DEF Route
<1>2. PICK r : r = EvaluatedReceipt(kernel, at, p)
  OBVIOUS
<1>3. PICK k : k = Advance(kernel, r.leaf)
  OBVIOUS
<1>4. PICK f : f = ResolvedReceipt(k, at, r, p, response)
  OBVIOUS
<1>5. /\ r.decision = "Pending"
      /\ kernel' = Advance(k, f.leaf)
      /\ signed' = signed \cup {r, f}
      /\ lease' = ResolvedLease(p, response)
  BY <1>1, <1>2, <1>3, <1>4
<1>6. p \in Proposal /\ p.lease = lease /\ p.charge \in ResourceUse
  BY ProposalsType, KernelAssumption DEF Proposal
<1>7. Continues(kernel, r)
  BY <1>2, <1>6, EvaluatedProperties DEF TypeInv, TypeOK
<1>8. r \in Receipt /\ k \in KernelState
  BY <1>3, <1>7 DEF Continues
<1>9. Continues(k, f)
  BY <1>4, <1>6, <1>8, ResolvedProperties
<1>10. LeaseStep
  BY <1>5, <1>6 DEF ResolvedLease, LeaseStep
<1>11. r.leaf # ZeroDigest /\ k.sequence # 0 /\ k.prev_hash # ZeroDigest
  BY <1>3, <1>7, FirstSaysSo DEF CauseInv
<1>12. f.seq = k.sequence /\ f.prev = k.prev_hash
  BY <1>9 DEF Continues
<1>13. f.leaf # ZeroDigest /\ k.sequence \in Nat
  BY <1>8, <1>9, AppendProperties DEF Continues, ZeroDigest, KernelState, Digest
<1>14. r.action = p.action
  BY <1>2 DEF EvaluatedReceipt, Minted
<1>15. r \in signed' /\ f \in signed'
  BY <1>5
<1>16. CauseNamed(r)'
  BY <1>2, <1>10, <1>15, EvaluatedNamed DEF CauseInv
<1>17. CauseNamed(f)'
  BY <1>4, <1>5, <1>6, <1>10, <1>11, <1>12, <1>14, <1>15, ResolvedNamed
<1>18. VerdictNamesCause'
  BY <1>5, <1>10, <1>16, <1>17, CauseKept DEF CauseInv
<1>19. GenesisFirst'
  <2>1. kernel'.sequence = k.sequence + 1 /\ kernel'.prev_hash = f.leaf
    BY <1>5 DEF Advance
  <2> QED
    BY <1>13, <2>1 DEF GenesisFirst
<1>20. \A x \in signed' : x.leaf # ZeroDigest
  BY <1>5, <1>11, <1>13 DEF CauseInv
<1> QED
  BY <1>18, <1>19, <1>20 DEF CauseInv

\* evaluate_with_routing, when the router fails.
LEMMA RouteFailsNames ==
  ASSUME TypeInv, CauseInv, NEW p \in Proposals, RouteFails(p)
  PROVE  CauseInv'
<1>1. PICK at \in Time : /\ Sign(EvaluatedReceipt(kernel, at, p))
                         /\ lease' = lease
  BY DEF RouteFails
<1>2. PICK r : r = EvaluatedReceipt(kernel, at, p)
  OBVIOUS
<1>3. Sign(r) /\ r \in signed' /\ LeaseStep
  BY <1>1, <1>2 DEF Sign, LeaseStep
<1>4. Continues(kernel, r)
  BY <1>2, ProposalsType, EvaluatedProperties DEF TypeInv, TypeOK
<1>5. CauseNamed(r)'
  BY <1>2, <1>3, EvaluatedNamed DEF CauseInv
<1> QED
  BY <1>3, <1>4, <1>5, SignedOnce

\* RecordToolExecution, RunLightSleep and RunDeepSleep.
LEMMA RecordNames ==
  ASSUME TypeInv, CauseInv, RecordToolExecution \/ RecordSleep
  PROVE  CauseInv'
<1>1. PICK at \in Time, cites \in Digest, a \in SleepAction \cup {ToolExecuted} :
        Sign(Minted(kernel, at, a, "Allowed", {}, cites)) /\ lease' = lease
  <2>1. CASE RecordToolExecution
    BY <2>1 DEF RecordToolExecution, ToolAdmits, Authentic, TypeInv, TypeOK, Receipt
  <2>2. CASE RecordSleep
    <3>1. ZeroDigest \in Digest
      BY DEF ZeroDigest, Digest
    <3> QED
      BY <2>2, <3>1 DEF RecordSleep
  <2> QED
    BY <2>1, <2>2
<1>2. PICK r : r = Minted(kernel, at, a, "Allowed", {}, cites)
  OBVIOUS
<1>3. Continues(kernel, r)
  BY <1>2, RecordProperties DEF TypeInv, TypeOK
<1>4. Sign(r) /\ r \in signed' /\ LeaseStep
  BY <1>1, <1>2 DEF Sign, LeaseStep
<1>5. r.decision = "Allowed"
  BY <1>2 DEF Minted
<1>6. CauseNamed(r)'
  BY <1>3, <1>5, FirstSaysSo, RecordNamed DEF CauseInv
<1> QED
  BY <1>3, <1>4, <1>6, SignedOnce

\* Any step, or none.
LEMMA NextNames == TypeInv /\ CauseInv /\ [Next]_vars => CauseInv'
<1> SUFFICES ASSUME TypeInv, CauseInv, [Next]_vars PROVE CauseInv'
  OBVIOUS
<1>1. CASE Propose
  BY <1>1, ProposeNames
<1>2. CASE ResolveWaiting
  BY <1>2, ResolveNames
<1>3. CASE RouteProposal
  BY <1>3, RouteNames, RouteFailsNames DEF RouteProposal
<1>4. CASE RecordToolExecution \/ RecordSleep
  BY <1>4, RecordNames
<1>5. CASE RevokeLease \/ UNCHANGED vars
  <2>1. LeaseStep /\ signed' = signed /\ kernel' = kernel
    BY <1>5 DEF RevokeLease, LeaseStep, vars
  <2>2. VerdictNamesCause'
    BY <2>1, CauseKept DEF CauseInv
  <2> QED
    BY <2>1, <2>2 DEF CauseInv, GenesisFirst
<1> QED
  BY <1>1, <1>2, <1>3, <1>4, <1>5 DEF Next

\* The verdict that is read off any receipt of the kernel names what made the
\* kernel decide as it did, however much has happened to the lease since, or, where
\* the constitution is silent, what the proposer wrote into the receipt.
THEOREM VerdictsNameTheirCause == Spec => []VerdictNamesCause
<1>1. Init => CauseInv
  BY DEF Init, CauseInv, GenesisFirst, Genesis, ZeroDigest, VerdictNamesCause
<1>2. CauseInv => VerdictNamesCause
  BY DEF CauseInv
<1> QED
  BY TypeInvHolds, NextNames, <1>1, <1>2, PTL DEF Spec
=============================================================================
