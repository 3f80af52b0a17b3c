------------------------------- MODULE Kernel -------------------------------
(***************************************************************************)
(* The kernel as a library: an agent in the same process owns it, hands it *)
(* events one at a time and appends every receipt it is handed back to its *)
(* log.  The kernel keeps nothing but the end of its chain.  The agent     *)
(* keeps the capability lease, threading lease_after into its next event,  *)
(* and the pending receipts with their proposals, until an operator        *)
(* answers; boardproof-router's evaluate_with_routing does the latter for  *)
(* one proposal in a single call.                                          *)
(*                                                                         *)
(* An event the kernel rejects changes nothing.  A signature that verifies *)
(* under this kernel's key means that this kernel signed the receipt.      *)
(*                                                                         *)
(* A rule is an entry of a receipt here: an id with its `matched` flag.    *)
(* The provenance edges of a proposal are copied into its receipts, and    *)
(* nobody in the kernel reads them: `cites` is the edge the kernel adds.   *)
(***************************************************************************)
EXTENDS Constitution, Lease

CONSTANTS
  Proposable,       \* actions the agent proposes
  CallerDecision,   \* decisions it pre-computes for them
  CallerRules,      \* sets of rules it says it decided by
  Costs,            \* what they consume
  Grant,            \* the budget of the agent's lease
  ToolAction,       \* actions whose kind starts with "tool."
  ToolExecuted,     \* "$kernel/tool/executed"
  SleepAction,      \* "$kernel/sleep/light" and "$kernel/sleep/deep"
  DeniedByOperator, \* "$kernel/approval/denied_by_operator"
  BudgetRule,       \* "$kernel/budget/<error>"
  Forgery,          \* receipts that were tampered with or come from elsewhere
  MaxEvents         \* bound on the receipts signed

ASSUME KernelAssumption ==
  /\ Proposable \cup ToolAction \cup SleepAction \cup {ToolExecuted} \subseteq Action
  /\ CallerDecision \subseteq Decision
  /\ CallerRules \subseteq SUBSET Rule /\ {} \in CallerRules
  /\ Costs \subseteq ResourceUse
  /\ Grant \in ResourceUse
  /\ {DeniedByOperator, BudgetRule} \subseteq Rule \ ConstitutionRule
  /\ DeniedByOperator # BudgetRule
  /\ Forgery \subseteq Receipt
  /\ MaxEvents \in Nat

VARIABLES
  kernel,    \* Kernel.state
  signed,    \* history: every receipt the kernel signed
  lease,     \* the agent's lease, as last returned to it
  waiting,   \* pending receipts the agent holds, each with its proposal
  log,       \* the agent's ReceiptLog
  spent      \* history: the charges of all actions that were granted

vars == <<kernel, signed, lease, waiting, log, spent>>

Proposal ==
  [action : Proposable, decision : CallerDecision, rules : CallerRules,
   lease : CapabilityLease, charge : Costs]

Granted(decision) == decision \in {"Allowed", "Approved"}

-----------------------------------------------------------------------------
(* handle_proposal.                                                        *)

\* Faulty AttemptsCharge: what the constitution denied is charged as well.
AttemptsChargeAlways(p) == OverrideDecision(p.action) # "Pending"

\* The guard of the budget step.
AttemptsCharge(p) ==
  /\ ConstitutionalDecision(p.action, p.decision) # "Denied"
  /\ OverrideDecision(p.action) # "Pending"

BudgetRefuses(p) == AttemptsCharge(p) /\ ~Chargeable(p.lease, p.charge)

EvaluatedDecision(p) ==
  IF BudgetRefuses(p) THEN "Denied"
  ELSE ConstitutionalDecision(p.action, p.decision)

\* Faulty MergeRules: the proposer's rules are recorded beside the constitution's.
MergeRulesAll(p) == p.rules \cup MatchedRules(p.action)

\* merge_constitution_rules: where no rule matches, the proposer's stand as they are.
MergeRules(p) == IF MatchedRules(p.action) = {} THEN p.rules ELSE MatchedRules(p.action)

EvaluatedReceipt(k, at, p) ==
  Minted(k, at, p.action, EvaluatedDecision(p),
         MergeRules(p) \cup IF BudgetRefuses(p) THEN {BudgetRule} ELSE {},
         ZeroDigest)

EvaluatedLease(p) ==
  IF AttemptsCharge(p) THEN TryCharge(p.lease, p.charge) ELSE p.lease

(* handle_resolve_approval.                                                *)

\* The signature and the issuer are those of this kernel.
Authentic(r) == r \in signed

\* Faulty ResolveAdmits: the receipt speaks for itself.
ResolveAdmitsForged(r, p) == r.decision = "Pending" /\ p.action = r.action

\* The four-step gate, for a pending receipt and a proposal.
ResolveAdmits(r, p) ==
  /\ Authentic(r)
  /\ r.decision = "Pending"
  /\ p.action = r.action

ResolvedDecision(p, response) ==
  IF response = "Approved" /\ ~Chargeable(p.lease, p.charge) THEN "Denied"
  ELSE response

ResolvedRules(p, response) ==
  IF response = "Denied" THEN {DeniedByOperator}
  ELSE IF Chargeable(p.lease, p.charge) THEN {} ELSE {BudgetRule}

ResolvedReceipt(k, at, r, p, response) ==
  Minted(k, at, p.action, ResolvedDecision(p, response),
         ResolvedRules(p, response), r.leaf)

ResolvedLease(p, response) ==
  IF response = "Approved" THEN TryCharge(p.lease, p.charge) ELSE p.lease

(* handle_record_tool_execution.                                           *)

ToolAdmits(r) ==
  /\ Authentic(r)
  /\ r.decision = "Allowed"
  /\ r.action \in ToolAction

-----------------------------------------------------------------------------
Init ==
  /\ kernel = Genesis
  /\ signed = {}
  /\ lease = NewLease(Grant)
  /\ waiting = {}
  /\ log = << >>
  /\ spent = NoUse

\* Receipts the agent can present: its own, and some that are not the kernel's.
Presentable == signed \cup Forgery

Sign(r) ==
  /\ kernel.sequence < MaxEvents
  /\ kernel' = Advance(kernel, r.leaf)
  /\ signed' = signed \cup {r}

\* The agent appends what it is handed; a refusal leaves the log alone.
Keep(r) == log' = IF Appendable(log, r) THEN Append(log, r) ELSE log

\* A granted receipt stands for the charge of its proposal.
Account(r, p) ==
  spent' = IF Granted(r.decision)
           THEN [x \in Resource |-> spent[x] + p.charge[x]]
           ELSE spent

\* The proposals of an agent that threads its lease.
Proposals ==
  {[action |-> a, decision |-> d, rules |-> rules, lease |-> lease, charge |-> c] :
     a \in Proposable, d \in CallerDecision, rules \in CallerRules, c \in Costs}

\* KernelEvent::EvaluateProposal.  Of a pending proposal nothing reads the rules again.
Evaluate(p) ==
  \E at \in Time :
    LET r == EvaluatedReceipt(kernel, at, p) IN
      /\ Sign(r)
      /\ Keep(r)
      /\ Account(r, p)
      /\ lease' = EvaluatedLease(p)
      /\ waiting' = IF r.decision = "Pending"
                    THEN waiting \cup {[receipt |-> r, proposal |-> [p EXCEPT !.rules = {}]]}
                    ELSE waiting

Propose == \E p \in Proposals : Evaluate(p)

\* KernelEvent::ResolveApproval, with the proposal as the agent kept it but
\* for the lease, which is the agent's current one.  The agent may mix up
\* what it kept, present a forgery, or ask again about an answered receipt:
\* it throws nothing away.
ResolveWaiting ==
  \E r \in Presentable, w \in waiting, response \in {"Approved", "Denied"}, at \in Time :
    LET p == [w.proposal EXCEPT !.lease = lease]
        f == ResolvedReceipt(kernel, at, r, p, response)
    IN /\ ResolveAdmits(r, p)
       /\ Sign(f)
       /\ Keep(f)
       /\ Account(f, p)
       /\ lease' = ResolvedLease(p, response)
       /\ UNCHANGED waiting

(* CliApprovalRouter.                                                      *)

\* parse_response of a line the operator types.
ParseResponse == [line \in {"yes", "no", "other"} |->
  CASE line = "yes" -> "Approved" [] line = "no" -> "Denied" [] line = "other" -> "None"]

MaxPromptRetries == 3

\* What each prompt gets before the input ends: a line, or an error of the terminal,
\* on the way to the line or when its answer is echoed.
Terminal ==
  UNION {[1 .. n -> DOMAIN ParseResponse \cup {"error"}] : n \in 0 .. MaxPromptRetries}

PromptOutcome(line) == IF line = "error" THEN "Io" ELSE ParseResponse[line]

\* route: the first line that can be read as an answer, if it comes in time and
\* before the terminal fails.
RouterOutcome(input) ==
  LET outcomes == {i \in DOMAIN input : PromptOutcome(input[i]) # "None"} IN
    IF outcomes # {}
    THEN PromptOutcome(input[CHOOSE i \in outcomes : \A j \in outcomes : i <= j])
    ELSE IF DOMAIN input = 1 .. MaxPromptRetries THEN "InvalidInput" ELSE "Cancelled"

RouterOutcomes == {RouterOutcome(input) : input \in Terminal}

\* evaluate_with_routing, where the proposal becomes pending: the pending
\* receipt goes to the router, and then into the Approval; only the final
\* outcome is returned.
Route(p) ==
  \E at \in Time, response \in RouterOutcomes \cap {"Approved", "Denied"} :
    LET r == EvaluatedReceipt(kernel, at, p)
        k == Advance(kernel, r.leaf)
        f == ResolvedReceipt(k, at, r, p, response)
    IN /\ r.decision = "Pending"
       /\ k.sequence < MaxEvents
       /\ kernel' = Advance(k, f.leaf)
       /\ signed' = signed \cup {r, f}
       /\ Keep(f)
       /\ Account(f, p)
       /\ lease' = ResolvedLease(p, response)
       /\ UNCHANGED waiting

\* The router fails: the caller gets the error, neither the pending receipt nor
\* lease_after.
RouteFails(p) ==
  \E at \in Time, error \in RouterOutcomes \ {"Approved", "Denied"} :
    LET r == EvaluatedReceipt(kernel, at, p) IN
      /\ r.decision = "Pending"
      /\ Sign(r)
      /\ UNCHANGED <<lease, waiting, log, spent>>

RouteProposal == \E p \in Proposals : Route(p) \/ RouteFails(p)

\* KernelEvent::RecordToolExecution, for a tool that ran or failed.
RecordToolExecution ==
  \E r \in Presentable, at \in Time :
    LET f == Minted(kernel, at, ToolExecuted, "Allowed", {}, r.leaf) IN
      /\ ToolAdmits(r)
      /\ Sign(f)
      /\ Keep(f)
      /\ UNCHANGED <<lease, waiting, spent>>

\* KernelEvent::RunLightSleep and RunDeepSleep.
RecordSleep ==
  \E a \in SleepAction, at \in Time :
    LET f == Minted(kernel, at, a, "Allowed", {}, ZeroDigest) IN
      /\ Sign(f)
      /\ Keep(f)
      /\ UNCHANGED <<lease, waiting, spent>>

\* The holder revokes the lease.
RevokeLease ==
  /\ ~lease.revoked
  /\ lease' = [lease EXCEPT !.revoked = TRUE]
  /\ UNCHANGED <<kernel, signed, waiting, log, spent>>

Next ==
  \/ Propose
  \/ ResolveWaiting
  \/ RouteProposal
  \/ RecordToolExecution
  \/ RecordSleep
  \/ RevokeLease

Spec == Init /\ [][Next]_vars

-----------------------------------------------------------------------------
(* Properties.                                                             *)

\* Every variable has its type.
TypeOK ==
  /\ kernel \in KernelState
  /\ signed \subseteq Receipt
  /\ lease \in CapabilityLease
  /\ waiting \subseteq [receipt : Receipt, proposal : Proposal]
  /\ log \in Seq(Receipt)
  /\ spent \in [Resource -> Nat]

\* An agent that proposes nothing as Pending: what its lease has lost is what
\* the actions cost that were granted, however approvals are delayed, repeated
\* or overtaken by other actions; denials, whoever speaks them, cost nothing.
SpentIsCharged == lease.consumed = spent

\* And so the granted actions together never cost more than the lease allows.
SpentWithinBudget == Within(spent, lease.budget)

\* p entitles the kernel to sign r.
Authorizes(p, r) ==
  \/ /\ p.decision = "Pending"
     /\ r.decision \in {"Approved", "Denied"}
     /\ r.action = p.action
  \/ /\ p.decision = "Allowed"
     /\ p.action \in ToolAction
     /\ r.action = ToolExecuted

\* Every approval and every tool record names a receipt this kernel signed and
\* that entitles it, whatever is presented to the kernel.
CitationsAuthentic ==
  \A r \in signed :
    r.cites # ZeroDigest => \E p \in signed : p.leaf = r.cites /\ Authorizes(p, r)

\* docs/steps/05-approval-engine.md:52 "An auditor can follow the link from the
\* final receipt to the Pending one and see the whole story": every receipt
\* that names another one is in the log, behind the one it names.
StoryIsLogged ==
  \A r \in signed : r.cites # ZeroDigest =>
    \E i, j \in 1 .. Len(log) : i < j /\ log[i].leaf = r.cites /\ log[j] = r
=============================================================================
