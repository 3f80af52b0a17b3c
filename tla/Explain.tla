------------------------------ MODULE Explain ------------------------------
(***************************************************************************)
(* boardproof-explain: what can be read off a single receipt about how its *)
(* decision came about.  The router shows it to the operator, and an       *)
(* auditor has nothing else.  The wording is left out, and so is the       *)
(* signature, which is reported beside the explanation and changes nothing *)
(* in it.                                                                  *)
(***************************************************************************)
EXTENDS Kernel

CONSTANTS
  BudgetRules,    \* rules whose id begins with "$kernel/budget/"
  ApprovalRules,  \* rules whose id begins with "$kernel/approval/"
  DollarRules,    \* rules whose id begins with "$"
  Unmatched       \* rules recorded with matched = false

\* The author of a constitution keeps off the "$", as RuleKind::Constitution says.
ASSUME ExplainAssumption ==
  /\ BudgetRules \cup ApprovalRules \subseteq DollarRules
  /\ BudgetRules \cap ApprovalRules = {}
  /\ BudgetRule \in BudgetRules \ Unmatched
  /\ DeniedByOperator \in ApprovalRules \ Unmatched
  /\ ConstitutionRule \cap (DollarRules \cup Unmatched) = {}

\* classify_rule: by the prefix of the id.
RuleKind(rule) ==
  CASE rule \in BudgetRules -> "KernelBudget"
    [] rule \in ApprovalRules -> "KernelApproval"
    [] rule \in DollarRules \ (BudgetRules \cup ApprovalRules) -> "UnknownKernel"
    [] OTHER -> "Constitution"

\* The rules of a set that say they matched and are of this kind.
Of(kind, rules) == {rule \in rules \ Unmatched : RuleKind(rule) = kind}

\* compute_verdict: the operator's word first, of all words of an approval the one that
\* denies, then the budget's, then the constitution's.
Verdict(r) ==
  IF r.decision # "Denied" THEN r.decision
  ELSE IF DeniedByOperator \in Of("KernelApproval", r.rules) THEN "DeniedByOperator"
  ELSE IF Of("KernelBudget", r.rules) # {} THEN "DeniedByBudget"
  ELSE IF Of("Constitution", r.rules) # {} THEN "DeniedByConstitution"
  ELSE "DeniedAsProposed"

\* The rules a verdict may name: the last of the budget's, or the first of the
\* constitution's, in the order of the receipt, which is left out here.
Named(r) ==
  CASE Verdict(r) = "DeniedByBudget" -> Of("KernelBudget", r.rules)
    [] Verdict(r) = "DeniedByConstitution" -> Of("Constitution", r.rules)
    [] OTHER -> {}

MerkleInfo(r) ==
  [sequence |-> r.seq, leaf |-> r.leaf, prev |-> r.prev, is_genesis |-> r.prev = ZeroDigest]

Explanation(r) ==
  [action |-> r.action, decision |-> r.decision,
   rules |-> {[id |-> rule, matched |-> rule \notin Unmatched, kind |-> RuleKind(rule)] :
                rule \in r.rules},
   verdict |-> Verdict(r), named |-> Named(r), merkle |-> MerkleInfo(r), provenance |-> r.cites]

-----------------------------------------------------------------------------
(* Properties.                                                             *)

\* The rules of a receipt that may be its proposer's: all of them, where the
\* constitution had nothing to say.
Said(r) ==
  IF r.cites = ZeroDigest /\ OverrideDecision(r.action) = "PassThrough"
  THEN r.rules \cap UNION CallerRules
  ELSE {}

\* The verdict that is read off a receipt names what really made the kernel
\* decide as it did, or what the proposer wrote into it, and that only where the
\* constitution left the decision to the proposer.  Of the constitution's own denials
\* every one is put down to it, and to rules that match the action; a denial is put
\* down to the operator only if somebody answered a receipt that was explained as
\* pending; to the budget only if a lease can in fact no longer pay for everything
\* that is proposed.  And whatever is explained as the first of its chain is.
VerdictNamesCause ==
  \A r \in signed :
    LET e == Explanation(r) IN
      /\ r.decision = "Denied" /\ r.cites = ZeroDigest /\ OverrideDecision(r.action) = "Denied"
           => e.verdict = "DeniedByConstitution"
      /\ e.verdict = "DeniedByConstitution" =>
           \/ OverrideDecision(r.action) = "Denied" /\ e.named \subseteq MatchedRules(r.action)
           \/ Of("Constitution", Said(r)) # {}
      /\ e.verdict = "DeniedByOperator" =>
           \/ \E p \in signed :
                p.leaf = e.provenance /\ p.action = r.action /\ Explanation(p).verdict = "Pending"
           \/ DeniedByOperator \in Said(r)
      /\ e.verdict = "DeniedByBudget" =>
           \/ \E c \in Costs : ~Chargeable(lease, c)
           \/ Of("KernelBudget", Said(r)) # {}
      /\ e.verdict = "DeniedAsProposed" =>
           "Denied" \in CallerDecision /\ OverrideDecision(r.action) = "PassThrough"
      /\ e.merkle.is_genesis <=> r.seq = 0
=============================================================================
