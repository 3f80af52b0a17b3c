---------------------------- MODULE Constitution ----------------------------
(***************************************************************************)
(* The rule engine of boardproof-constitution: which rules an action       *)
(* matches, and which decision they force on the kernel.                   *)
(*                                                                         *)
(* A rule is identified with its id.  MatchClause::matches (exact kind,    *)
(* substring of the target) is abstracted to the set of actions it         *)
(* accepts, Matches[r].  Rules are listed in document order in the code;   *)
(* the order only shows in the order of the recorded rule ids, so the      *)
(* matched rules are a set here.                                           *)
(***************************************************************************)

EXTENDS Receipts

CONSTANTS
  DenyRule,       \* rules whose verdict is RuleVerdict::Deny
  ApprovalRule,   \* rules whose verdict is RuleVerdict::RequireApproval
  Matches         \* rule |-> the actions its match clause accepts

ConstitutionRule == DenyRule \cup ApprovalRule

ASSUME ConstitutionAssumption ==
  /\ ConstitutionRule \subseteq Rule
  /\ DenyRule \cap ApprovalRule = {}
  /\ Matches \in [ConstitutionRule -> SUBSET Action]

MatchedRules(a) == {r \in ConstitutionRule : a \in Matches[r]}

\* Faulty OverrideDecision: RequireApproval wins over Deny.
ApprovalWins(a) ==
  IF MatchedRules(a) \cap ApprovalRule # {} THEN "Pending"
  ELSE IF MatchedRules(a) # {} THEN "Denied"
  ELSE "PassThrough"

\* Deny wins over RequireApproval; "PassThrough" is the code's `None`.
OverrideDecision(a) ==
  IF MatchedRules(a) \cap DenyRule # {} THEN "Denied"
  ELSE IF MatchedRules(a) \cap ApprovalRule # {} THEN "Pending"
  ELSE "PassThrough"

\* The kernel's `override_decision.unwrap_or(p.decision)`.
ConstitutionalDecision(a, proposed) ==
  IF OverrideDecision(a) = "PassThrough" THEN proposed ELSE OverrideDecision(a)
=============================================================================
