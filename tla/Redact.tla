------------------------------- MODULE Redact -------------------------------
(***************************************************************************)
(* PatternRedactor and RedactorStack.  Text is a sequence of characters;   *)
(* the pattern of a rule is the text it looks for, where the code has a    *)
(* regular expression.  A digest is the text that was hashed.              *)
(***************************************************************************)
EXTENDS Integers, Sequences, SequencesExt

CONSTANTS
  Invalid,      \* a byte that is not UTF-8
  Replacement   \* U+FFFD

Newline == "\n"

\* String::from_utf8_lossy
Lossy(bytes) == [i \in DOMAIN bytes |-> IF bytes[i] = Invalid THEN Replacement ELSE bytes[i]]

FoundAt(rule, text, i) ==
  /\ i + Len(rule.find) - 1 <= Len(text)
  /\ SubSeq(text, i, i + Len(rule.find) - 1) = rule.find

\* replace_all from left to right: what is written so far, how many characters
\* still belong to the match, how often the rule matched.
ReplaceNext(rule, text, acc, i) ==
  CASE acc.rest > 0 -> [acc EXCEPT !.rest = @ - 1]
    [] acc.rest = 0 /\ FoundAt(rule, text, i) ->
         [out |-> acc.out \o rule.put, rest |-> Len(rule.find) - 1, count |-> acc.count + 1]
    [] OTHER -> [acc EXCEPT !.out = Append(@, text[i])]

Replaced(rule, text) ==
  FoldLeft(LAMBDA acc, i : ReplaceNext(rule, text, acc, i),
           [out |-> << >>, rest |-> 0, count |-> 0], [i \in 1 .. Len(text) |-> i])

\* A redactor is its id and the rules it applies one after another.
ApplyRule(redactor, acc, rule) ==
  LET r == Replaced(rule, acc.text) IN
    [text |-> r.out,
     matches |-> IF r.count = 0 THEN acc.matches
                 ELSE Append(acc.matches, [rule |-> <<redactor.id, rule.id>>, count |-> r.count])]

PatternRedact(redactor, bytes) ==
  FoldLeft(LAMBDA acc, rule : ApplyRule(redactor, acc, rule),
           [text |-> Lossy(bytes), matches |-> << >>], redactor.rules)

\* BLAKE3 over the ids, a newline behind each.
StackHash(stack) ==
  FoldLeft(LAMBDA text, r : text \o r.id \o <<Newline>>, stack.id \o <<Newline>>,
           stack.redactors)

\* Faulty StackRedact: every redactor sees the original.
StackRedactInParallel(stack, bytes) ==
  FoldLeft(LAMBDA acc, r :
             LET res == PatternRedact(r, bytes) IN
               [acc EXCEPT !.text = res.text, !.matches = @ \o res.matches],
           [text |-> bytes, matches |-> << >>, stack |-> StackHash(stack)],
           stack.redactors)

\* RedactorStack::redact: each redactor sees what the one before left.
ApplyRedactor(acc, redactor) ==
  LET r == PatternRedact(redactor, acc.text) IN
    [text |-> r.text, matches |-> acc.matches \o r.matches, stack |-> acc.stack]

StackRedact(stack, bytes) ==
  FoldLeft(LAMBDA acc, r : ApplyRedactor(acc, r),
           [text |-> bytes, matches |-> << >>, stack |-> StackHash(stack)], stack.redactors)

RulesOf(stack) == UNION {Range(r.rules) : r \in Range(stack.redactors)}

Clean(stack, text) ==
  \A rule \in RulesOf(stack) : \A i \in 1 .. Len(text) : ~FoundAt(rule, text, i)

\* The replacements of a stack stand out from all other text, as [REDACTED:...] does:
\* each begins and ends with a mark, which no rule looks for, and holds nothing that
\* a rule looks for.  Nothing else about the rules matters, nor their order.
Bracketed(stack, chars, marks) ==
  /\ Replacement \in chars /\ Invalid \notin chars /\ marks \subseteq chars
  /\ stack.redactors \in Seq(Range(stack.redactors)) \ {<< >>}
  /\ \A r \in Range(stack.redactors) : r.rules \in Seq(Range(r.rules))
  /\ \A rule \in RulesOf(stack) :
       /\ rule.find \in Seq(chars \ marks) \ {<< >>}
       /\ rule.put \in Seq(chars) \ {<< >>}
       /\ rule.put[1] \in marks /\ rule.put[Len(rule.put)] \in marks
       /\ \A other \in RulesOf(stack), i \in 1 .. Len(rule.put) : ~FoundAt(other, rule.put, i)
=============================================================================
