-------------------------------- MODULE Glob --------------------------------
(***************************************************************************)
(* The glob matcher behind Capability: glob_match walks the parts between  *)
(* the stars once, with a cursor into the candidate and no backtracking.   *)
(* Strings are sequences of characters.                                    *)
(***************************************************************************)
EXTENDS Integers, Sequences, SequencesExt, FiniteSetsExt

Star == "*"

\* pattern.split('*')
Parts(pattern) ==
  FoldLeft(LAMBDA parts, ch : IF ch = Star
                              THEN Append(parts, << >>)
                              ELSE [parts EXCEPT ![Len(parts)] = Append(@, ch)],
           << << >> >>, pattern)

\* Where part begins in candidate at or behind the cursor.
Occurrences(part, candidate, cursor) ==
  {at \in cursor .. Len(candidate) - Len(part) :
     SubSeq(candidate, at + 1, at + Len(part)) = part}

\* The cursor is a set: {n}, or {} once a part was not found.
AfterFirst(part, candidate) == IF IsPrefix(part, candidate) THEN {Len(part)} ELSE {}

\* Faulty AfterMiddle: the search runs from the last occurrence.
AfterLatest(part, candidate, cursor) ==
  {Max(Occurrences(part, candidate, at)) + Len(part) :
     at \in {n \in cursor : Occurrences(part, candidate, n) # {}}}

AfterMiddle(part, candidate, cursor) ==
  {Min(Occurrences(part, candidate, at)) + Len(part) :
     at \in {n \in cursor : Occurrences(part, candidate, n) # {}}}

\* The last part ends the candidate and does not overlap what is consumed.
EndsWith(part, candidate, cursor) ==
  \E at \in cursor : Len(candidate) - at >= Len(part) /\ IsSuffix(part, candidate)

\* The cursor behind the first part and all that are neither first nor last.
CursorBehind(first, middle, candidate) ==
  FoldLeft(LAMBDA cursor, part : AfterMiddle(part, candidate, cursor),
           AfterFirst(first, candidate), middle)

GlobMatch(pattern, candidate) ==
  LET parts == Parts(pattern)
      middle == SubSeq(parts, 2, Len(parts) - 1)
  IN IF Len(parts) = 1
     THEN pattern = candidate
     ELSE EndsWith(parts[Len(parts)], candidate, CursorBehind(parts[1], middle, candidate))

\* Capability::is_granted_by, for NetConnect.
IsGrantedBy(declared, requested) == \E p \in declared : GlobMatch(p, requested)

-----------------------------------------------------------------------------
(* What a glob denotes: every character of the pattern stands for a        *)
(* stretch of the candidate, a star for any stretch, another character for *)
(* itself.  ends[i] is where the stretch of character i ends.              *)
Denotes(pattern, candidate) ==
  \E ends \in [0 .. Len(pattern) -> 0 .. Len(candidate)] :
    /\ ends[0] = 0
    /\ ends[Len(pattern)] = Len(candidate)
    /\ \A i \in 1 .. Len(pattern) :
         IF pattern[i] = Star
         THEN ends[i] >= ends[i - 1]
         ELSE ends[i] = ends[i - 1] + 1 /\ candidate[ends[i]] = pattern[i]
=============================================================================
