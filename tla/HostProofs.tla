----------------------------- MODULE HostProofs -----------------------------
(***************************************************************************)
(* Theorems about Host, for every number of clients, requests and rules    *)
(* and every combination of faults.                                        *)
(***************************************************************************)
EXTENDS Host, RecordLemmas

(***************************************************************************)
(* What the kernel signs.                                                  *)
(***************************************************************************)

\* The receipt of any event a handler submits continues the chain of the kernel.
LEMMA KernelReceiptProperties ==
  ASSUME NEW k \in KernelState, NEW at \in Time, NEW e \in Event
  PROVE  Continues(k, KernelReceipt(k, at, e))
<1>1. CASE e \in [kind : {"proposal"}, action : Proposable]
  <2>1. KernelReceipt(k, at, e) = EvaluatedReceipt(k, at, e)
    BY <1>1 DEF KernelReceipt
  <2>2. /\ e.action \in Action
        /\ ConstitutionalDecision(e.action, "Allowed") \in Decision
        /\ MatchedRules(e.action) \in SUBSET Rule
        /\ ZeroDigest \in Digest
    BY <1>1, HostAssumption, ConstitutionAssumption
       DEF ConstitutionalDecision, OverrideDecision, Decision, MatchedRules, ZeroDigest, Digest
  <2> QED
    BY <2>1, <2>2, MintedProperties DEF EvaluatedReceipt
<1>2. CASE e \in [kind : {"resolve"}, pending : Receipt,
                  response : {"Approved", "Denied"}]
  <2>1. KernelReceipt(k, at, e) = ResolvedReceipt(k, at, e)
    BY <1>2 DEF KernelReceipt
  <2>2. /\ e.pending.action \in Action
        /\ e.response \in Decision
        /\ (IF e.response = "Denied" THEN {DeniedByOperator} ELSE {}) \in SUBSET Rule
        /\ e.pending.leaf \in Digest
    BY <1>2, HostAssumption DEF Decision, Receipt
  <2> QED
    BY <2>1, <2>2, MintedProperties DEF ResolvedReceipt
<1>3. CASE e \in [kind : {"tool"}, allowed : Receipt]
  <2>1. KernelReceipt(k, at, e) = ExecutedReceipt(k, at, e)
    BY <1>3 DEF KernelReceipt
  <2>2. /\ ToolExecuted \in Action
        /\ "Allowed" \in Decision
        /\ {} \in SUBSET Rule
        /\ e.allowed.leaf \in Digest
    BY <1>3, HostAssumption DEF Decision, Receipt
  <2> QED
    BY <2>1, <2>2, MintedProperties DEF ExecutedReceipt
<1> QED
  BY <1>1, <1>2, <1>3 DEF Event

(***************************************************************************)
(* Type correctness.  TypeOK alone is not inductive: that a handler about  *)
(* to mint has an event, and one about to append a receipt, is             *)
(* HandlersReady.                                                          *)
(***************************************************************************)

TypeInv == TypeOK /\ HandlersReady

LEMMA InitTypeInv == Init => TypeInv
BY HostAssumption
   DEF Init, TypeInv, TypeOK, HandlersReady, Phase, Genesis, KernelState,
       ZeroDigest, Digest

\* A log of which a prefix survives is a log.
LEMMA SurvivingLog ==
  ASSUME NEW n \in 0 .. Len(log), log \in Seq(Receipt)
  PROVE  /\ SubSeq(log, 1, n) \in Seq(Receipt)
         /\ Len(SubSeq(log, 1, n)) = n
         /\ \A i \in 1 .. n : SubSeq(log, 1, n)[i] = log[i]
BY SubSeqProperties

\* Any request keeps the types.
LEMMA SubmitType ==
  ASSUME TypeInv, NEW c \in Client, NEW e \in Event, Admits(e), Submit(c, e)
  PROVE  TypeInv'
<1>1. TypeOK'
  <2>1. requests + 1 \in 0 .. MaxRequests
    BY HostAssumption DEF TypeInv, TypeOK, Submit
  <2> QED
    BY <2>1 DEF TypeInv, TypeOK, Submit, Phase
<1>2. HandlersReady'
  BY DEF TypeInv, TypeOK, HandlersReady, Submit
<1> QED
  BY <1>1, <1>2 DEF TypeInv

LEMMA RequestType ==
  ASSUME TypeInv, NEW c \in Client, Request(c)
  PROVE  TypeInv'
<1>1. CASE PostProposal(c)
  <2>1. PICK a \in Proposable : Submit(c, ProposalEvent(a))
    BY <1>1 DEF PostProposal
  <2>2. ProposalEvent(a) \in Event /\ Admits(ProposalEvent(a))
    BY DEF ProposalEvent, Event, Admits
  <2> QED
    BY <2>1, <2>2, SubmitType
<1>2. CASE PostResolve(c)
  <2>1. PICK r \in minted, d \in {"Approved", "Denied"} :
          ResolvableReceipt(r) /\ Submit(c, ResolveEvent(r, d))
    BY <1>2 DEF PostResolve
  <2>2. ResolveEvent(r, d) \in Event /\ Admits(ResolveEvent(r, d))
    BY <2>1 DEF ResolveEvent, Event, Admits, ResolvableReceipt, TypeInv, TypeOK
  <2> QED
    BY <2>1, <2>2, SubmitType
<1>3. CASE PostToolExecution(c)
  <2>1. PICK r \in minted : ExecutableReceipt(r) /\ Submit(c, ToolEvent(r))
    BY <1>3 DEF PostToolExecution
  <2>2. ToolEvent(r) \in Event /\ Admits(ToolEvent(r))
    BY <2>1 DEF ToolEvent, Event, Admits, ExecutableReceipt, TypeInv, TypeOK
  <2> QED
    BY <2>1, <2>2, SubmitType
<1> QED
  BY <1>1, <1>2, <1>3 DEF Request

\* What Mint does, in terms of the receipt it signs.
LEMMA MintSigns ==
  ASSUME TypeInv, NEW c \in Client, Mint(c)
  PROVE  \E r : /\ Continues(kernel, r)
                /\ kernel' = Advance(kernel, r.leaf)
                /\ held' = [held EXCEPT ![c] = r]
                /\ minted' = minted \cup {r}
<1>1. PICK at \in Time :
        /\ kernel' = Advance(kernel, KernelReceipt(kernel, at, event[c]).leaf)
        /\ held' = [held EXCEPT ![c] = KernelReceipt(kernel, at, event[c])]
        /\ minted' = minted \cup {KernelReceipt(kernel, at, event[c])}
  BY DEF Mint
<1>2. event[c] \in Event /\ kernel \in KernelState
  BY DEF TypeInv, TypeOK, HandlersReady, Mint
<1>3. Continues(kernel, KernelReceipt(kernel, at, event[c]))
  BY <1>2, KernelReceiptProperties
<1> QED
  BY <1>1, <1>3

LEMMA MintType ==
  ASSUME TypeInv, NEW c \in Client, Mint(c)
  PROVE  TypeInv'
<1>1. PICK r : /\ Continues(kernel, r)
               /\ kernel' = Advance(kernel, r.leaf)
               /\ held' = [held EXCEPT ![c] = r]
               /\ minted' = minted \cup {r}
  BY MintSigns
<1>2. r \in Receipt /\ kernel' \in KernelState
  BY <1>1 DEF Continues
<1>3. TypeOK'
  BY <1>1, <1>2 DEF TypeInv, TypeOK, Mint, Phase
<1>4. HandlersReady'
  BY <1>1, <1>2 DEF TypeInv, TypeOK, HandlersReady, Mint
<1> QED
  BY <1>3, <1>4 DEF TypeInv

\* Giving a request up keeps the types.
LEMMA AbandonType ==
  ASSUME TypeInv, NEW c \in Client, Abandon(c)
  PROVE  TypeInv'
BY DEF TypeInv, TypeOK, HandlersReady, Abandon, Phase, history

LEMMA AppendType ==
  ASSUME TypeInv, NEW c \in Client, AppendReceipt(c)
  PROVE  TypeInv'
<1>1. held[c] \in Receipt
  BY DEF TypeInv, HandlersReady, AppendReceipt
<1>2. log' \in Seq(Receipt) /\ Len(log') = Len(log) + 1
  BY <1>1, AppendProperties DEF TypeInv, TypeOK, AppendReceipt
<1>3. synced' \in 0 .. Len(log')
  BY <1>2, LenProperties DEF TypeInv, TypeOK, AppendReceipt
<1>4. TypeOK'
  BY <1>2, <1>3 DEF TypeInv, TypeOK, AppendReceipt, Phase, history
<1>5. HandlersReady'
  BY DEF TypeInv, TypeOK, HandlersReady, AppendReceipt, history
<1> QED
  BY <1>4, <1>5 DEF TypeInv

LEMMA ReplyType ==
  ASSUME TypeInv, NEW c \in Client, Reply(c)
  PROVE  TypeInv'
<1>1. held[c] \in Receipt
  BY DEF TypeInv, HandlersReady, Reply
<1> QED
  BY <1>1 DEF TypeInv, TypeOK, HandlersReady, Reply, Phase

LEMMA DownType ==
  ASSUME TypeInv, NEW n \in 0 .. Len(log), Down(n), synced' \in 0 .. n
  PROVE  TypeInv'
<1>1. log' \in Seq(Receipt) /\ Len(log') = n
  BY SurvivingLog DEF TypeInv, TypeOK, Down
<1>2. Genesis \in KernelState
  BY DEF Genesis, KernelState, ZeroDigest, Digest
<1> QED
  BY <1>1, <1>2 DEF TypeInv, TypeOK, HandlersReady, Down, Phase

LEMMA RestartType ==
  ASSUME TypeInv, Restart
  PROVE  TypeInv'
<1>1. ResumeFrom(log) \in KernelState
  <2>1. CASE log = << >>
    BY <2>1 DEF ResumeFrom, Genesis, KernelState, ZeroDigest, Digest
  <2>2. CASE log # << >>
    <3>1. Len(log) \in 1 .. Len(log)
      BY <2>2, EmptySeq, LenProperties DEF TypeInv, TypeOK
    <3>2. log[Len(log)] \in Receipt
      BY <3>1, ElementOfSeq DEF TypeInv, TypeOK
    <3> QED
      BY <2>2, <3>2 DEF ResumeFrom, HeadLeaf, KernelState, Receipt
  <2> QED
    BY <2>1, <2>2
<1> QED
  BY <1>1 DEF TypeInv, TypeOK, HandlersReady, Restart, handlers, history

LEMMA TypeInvStep == TypeInv /\ [Next]_vars => TypeInv'
<1> SUFFICES ASSUME TypeInv, [Next]_vars PROVE TypeInv'
  OBVIOUS
<1>1. ASSUME NEW c \in Client, Request(c) PROVE TypeInv'
  BY <1>1, RequestType
<1>2. ASSUME NEW c \in Client, Handle(c) PROVE TypeInv'
  BY <1>2, MintType, AppendType, AbandonType, ReplyType DEF Handle, AppendRefused
<1>3. ASSUME NEW c \in Client, InsertFails(c) \/ Disconnect(c) PROVE TypeInv'
  BY <1>3, AbandonType DEF InsertFails, Disconnect
<1>4. CASE Checkpoint
  BY <1>4, LenProperties
     DEF TypeInv, TypeOK, HandlersReady, Checkpoint, handlers, history
<1>5. CASE Crash
  <2> DEFINE n == IF Sqlite THEN Len(log) ELSE 0
  <2>1. n \in 0 .. Len(log) /\ Down(n) /\ synced' \in 0 .. n
    BY <1>5, LenProperties DEF TypeInv, TypeOK, Crash
  <2> QED
    BY <2>1, DownType
<1>6. CASE PowerLoss
  <2>1. PICK n \in synced .. Len(log) : Down(n) /\ synced' = n
    BY <1>6 DEF PowerLoss
  <2>2. n \in 0 .. Len(log) /\ synced' \in 0 .. n
    BY <2>1, LenProperties DEF TypeInv, TypeOK
  <2> QED
    BY <2>1, <2>2, DownType
<1>7. CASE Restart
  BY <1>7, RestartType
<1>8. CASE UNCHANGED vars
  BY <1>8 DEF TypeInv, TypeOK, HandlersReady, vars, handlers, history
<1> QED
  BY <1>1, <1>2, <1>3, <1>4, <1>5, <1>6, <1>7, <1>8 DEF Next

\* Every variable of the host keeps its type, and a handler always has the
\* event or the receipt that its phase needs.
THEOREM TypeCorrect == Spec => [](TypeOK /\ HandlersReady)
BY InitTypeInv, TypeInvStep, PTL DEF Spec, TypeInv

(***************************************************************************)
(* The chain of hashes.  The links of the log are sound because every      *)
(* receipt, logged or in flight, lies on the hashes behind the kernel.     *)
(***************************************************************************)

\* A prefix does not see what is appended behind it.
LEMMA PrefixOfAppend ==
  ASSUME NEW S, NEW s \in Seq(S), NEW x \in S, NEW n \in 0 .. Len(s)
  PROVE  SubSeq(Append(s, x), 1, n) = SubSeq(s, 1, n)
<1>1. /\ Append(s, x) \in Seq(S)
      /\ \A i \in 1 .. Len(s) : Append(s, x)[i] = s[i]
      /\ n \in Nat
  BY AppendProperties, LenProperties
<1>2. \A i \in 1 .. n : s[i] \in S /\ Append(s, x)[i] = s[i]
  BY <1>1, ElementOfSeq, LenProperties
<1>3. /\ SubSeq(s, 1, n) \in Seq(S)
      /\ Len(SubSeq(s, 1, n)) = n
      /\ \A i \in 1 .. n : SubSeq(s, 1, n)[i] = s[i]
  BY <1>1, <1>2, SubSeqProperties
<1>4. /\ SubSeq(Append(s, x), 1, n) \in Seq(S)
      /\ Len(SubSeq(Append(s, x), 1, n)) = n
      /\ \A i \in 1 .. n : SubSeq(Append(s, x), 1, n)[i] = s[i]
  BY <1>1, <1>2, SubSeqProperties
<1> QED
  BY <1>3, <1>4, SeqEqual

\* Appending adds an element and removes none.
LEMMA AppendElements ==
  ASSUME NEW S, NEW s \in Seq(S), NEW x \in S
  PROVE  ToSet(s) \subseteq ToSet(Append(s, x)) /\ x \in ToSet(Append(s, x))
<1>1. /\ DOMAIN s = 1 .. Len(s)
      /\ Len(s) \in Nat
      /\ DOMAIN Append(s, x) = 1 .. Len(s) + 1
      /\ \A i \in 1 .. Len(s) : Append(s, x)[i] = s[i]
      /\ Append(s, x)[Len(s) + 1] = x
  BY AppendProperties, LenProperties
<1> QED
  BY <1>1 DEF ToSet

LEMMA PrefixLength ==
  ASSUME NEW S, NEW s \in Seq(S), NEW n \in 0 .. Len(s)
  PROVE  SubSeq(s, 1, n) \in Seq(S) /\ Len(SubSeq(s, 1, n)) = n
BY SubSeqProperties, ElementOfSeq, LenProperties

\* A log extended by an appendable receipt is still a sound chain, and the
\* receipt is its new head.
LEMMA ExtendedChain ==
  ASSUME log \in Seq(Receipt), VerifyChain(log),
         NEW r \in Receipt, Appendable(log, r)
  PROVE  /\ VerifyChain(Append(log, r))
         /\ HeadLeaf(Append(log, r)) = r.leaf
<1>1. /\ Append(log, r) # << >>
      /\ Len(Append(log, r)) = Len(log) + 1
      /\ Len(log) \in Nat
      /\ \A i \in 1 .. Len(log) : Append(log, r)[i] = log[i]
      /\ Append(log, r)[Len(log) + 1] = r
  BY AppendProperties, LenProperties
<1>2. HeadLeaf(Append(log, r)) = r.leaf
  BY <1>1 DEF HeadLeaf
<1>3. r.seq = Len(log) /\ r.prev = HeadLeaf(log)
  BY DEF Appendable, InOrder, Linked
<1>4. HeadLeaf(log) = IF Len(log) = 0 THEN ZeroDigest ELSE log[Len(log)].leaf
  BY EmptySeq DEF HeadLeaf
<1>5. ASSUME NEW i \in 1 .. Len(log) + 1
      PROVE  /\ Append(log, r)[i].seq = i - 1
             /\ Append(log, r)[i].prev =
                   IF i = 1 THEN ZeroDigest ELSE Append(log, r)[i - 1].leaf
  <2>1. CASE i \in 1 .. Len(log)
    <3>1. i = 1 \/ i - 1 \in 1 .. Len(log)
      BY <1>1, <2>1
    <3> QED
      BY <1>1, <2>1, <3>1 DEF VerifyChain
  <2>2. CASE i = Len(log) + 1
    <3>1. i = 1 \/ i - 1 \in 1 .. Len(log)
      BY <1>1, <2>2
    <3> QED
      BY <1>1, <1>3, <1>4, <2>2, <3>1
  <2> QED
    BY <1>1, <2>1, <2>2
<1> QED
  BY <1>1, <1>2, <1>5 DEF VerifyChain

\* A prefix of a sound chain is a sound chain.
LEMMA SurvivingChain ==
  ASSUME log \in Seq(Receipt), VerifyChain(log), NEW n \in 0 .. Len(log)
  PROVE  VerifyChain(SubSeq(log, 1, n))
<1>1. /\ Len(SubSeq(log, 1, n)) = n
      /\ \A i \in 1 .. n : SubSeq(log, 1, n)[i] = log[i]
      /\ Len(log) \in Nat
      /\ n \in Nat
  BY SurvivingLog, LenProperties
<1>2. \A i \in 1 .. n : i \in 1 .. Len(log) /\ (i = 1 \/ i - 1 \in 1 .. n)
  BY <1>1
<1> QED
  BY <1>1, <1>2 DEF VerifyChain

LEMMA InitChainInv == Init => ChainInv
<1> SUFFICES ASSUME Init PROVE ChainInv
  OBVIOUS
<1>1. TypeInv
  BY InitTypeInv
<1>2. Len(log) = 0 /\ log = << >> /\ kernel = Genesis
  BY EmptySeq DEF Init
<1>3. SubSeq(<< >>, 1, 0) = << >>
  BY SubSeqEmpty
<1> QED
  BY <1>1, <1>2, <1>3
     DEF Init, ChainInv, TypeInv, ChainSound, VerifyChain, LogOnChain, HeldOnChain,
         HeldPositionsUnique, HeadLeaf, HashesUpTo, Genesis, ZeroDigest

\* A step that leaves the kernel and the log alone and lets no handler begin
\* to append keeps the chain.
LEMMA QuietStep ==
  ASSUME ChainInv, TypeInv', UNCHANGED <<up, kernel, log>>,
         \A d \in Client : phase'[d] = "append" =>
                            phase[d] = "append" /\ held'[d] = held[d]
  PROVE  ChainInv'
<1>1. ChainSound' /\ LogOnChain'
  BY DEF ChainInv, ChainSound, LogOnChain, HashesUpTo
<1>2. HeldOnChain' /\ HeldPositionsUnique'
  BY DEF ChainInv, HeldOnChain, HeldPositionsUnique, HashesUpTo
<1> QED
  BY <1>1, <1>2 DEF ChainInv, TypeInv

\* What minting does to the hashes behind the kernel: the old ones stay, and
\* the new receipt lies on the new ones.
LEMMA MintedOnChain ==
  ASSUME NEW k \in KernelState, NEW r, Continues(k, r),
         Len(k.prev_hash) = k.sequence
  PROVE  /\ \A n \in 0 .. k.sequence :
              SubSeq(r.leaf, 1, n) = SubSeq(k.prev_hash, 1, n)
         /\ Len(r.leaf) = k.sequence + 1
         /\ r.prev = SubSeq(r.leaf, 1, r.seq)
         /\ r.leaf = SubSeq(r.leaf, 1, r.seq + 1)
<1>1. PICK x \in Entry : r.leaf = Append(k.prev_hash, x)
  BY DEF Continues
<1>2. k.prev_hash \in Seq(Entry) /\ k.sequence \in Nat
  BY DEF KernelState, Digest
<1>3. r.leaf \in Seq(Entry) /\ Len(r.leaf) = k.sequence + 1
  BY <1>1, <1>2, AppendProperties
<1>4. \A n \in 0 .. k.sequence : SubSeq(r.leaf, 1, n) = SubSeq(k.prev_hash, 1, n)
  BY <1>1, <1>2, PrefixOfAppend
<1>5. r.prev = SubSeq(r.leaf, 1, r.seq)
  BY <1>2, <1>4, SubSeqFull DEF Continues
<1>6. r.leaf = SubSeq(r.leaf, 1, r.seq + 1)
  BY <1>3, SubSeqFull DEF Continues
<1> QED
  BY <1>3, <1>4, <1>5, <1>6

LEMMA MintChain ==
  ASSUME ChainInv, NEW c \in Client, Mint(c)
  PROVE  ChainInv'
<1>0. TypeInv
  BY DEF ChainInv, TypeInv
<1>1. PICK r : /\ Continues(kernel, r)
               /\ kernel' = Advance(kernel, r.leaf)
               /\ held' = [held EXCEPT ![c] = r]
  BY <1>0, MintSigns
<1>2. /\ kernel \in KernelState
      /\ kernel.sequence \in Nat
      /\ Len(kernel.prev_hash) = kernel.sequence
      /\ Len(log) \in 0 .. kernel.sequence
      /\ up
  BY LenProperties
     DEF ChainInv, TypeOK, KernelState, LogOnChain, HandlersReady, Mint
<1>3. /\ kernel'.sequence = kernel.sequence + 1
      /\ kernel'.prev_hash = r.leaf
      /\ r.seq = kernel.sequence
      /\ r \in Receipt
  BY <1>1 DEF Advance, Continues
<1>4. \A n \in 0 .. kernel.sequence : HashesUpTo(n)' = HashesUpTo(n)
  BY <1>1, <1>2, <1>3, MintedOnChain DEF HashesUpTo
<1>5. Len(r.leaf) = kernel.sequence + 1
  BY <1>1, <1>2, MintedOnChain
<1>6. r.prev = HashesUpTo(r.seq)' /\ r.leaf = HashesUpTo(r.seq + 1)'
  BY <1>1, <1>2, <1>3, MintedOnChain DEF HashesUpTo
<1>7. /\ held'[c] = r
      /\ \A d \in Client : d # c => held'[d] = held[d] /\ phase'[d] = phase[d]
      /\ log' = log
      /\ up' = up
  BY <1>1 DEF ChainInv, TypeOK, Mint
<1>8. TypeInv'
  BY <1>0, MintType
<1>9. ChainSound'
  BY <1>7 DEF ChainInv, ChainSound
<1>10. LogOnChain'
  BY <1>2, <1>3, <1>4, <1>5, <1>7 DEF ChainInv, LogOnChain
<1>11. \A d \in Client : phase'[d] = "append" /\ d # c =>
         /\ held[d].seq \in 0 .. kernel.sequence - 1
         /\ held[d].prev = HashesUpTo(held[d].seq)'
         /\ held[d].leaf = HashesUpTo(held[d].seq + 1)'
  <2> SUFFICES ASSUME NEW d \in Client, phase'[d] = "append", d # c
               PROVE  /\ held[d].seq \in 0 .. kernel.sequence - 1
                      /\ held[d].prev = HashesUpTo(held[d].seq)'
                      /\ held[d].leaf = HashesUpTo(held[d].seq + 1)'
    OBVIOUS
  <2>1. held[d].seq \in Nat /\ phase[d] = "append"
    BY <1>7 DEF ChainInv, HandlersReady, Receipt
  <2>2. held[d].seq < kernel.sequence
    BY <2>1 DEF ChainInv, HeldOnChain
  <2>3. held[d].seq \in 0 .. kernel.sequence /\ held[d].seq + 1 \in 0 .. kernel.sequence
    BY <1>2, <2>1, <2>2
  <2>4. /\ held[d].prev = HashesUpTo(held[d].seq)
        /\ held[d].leaf = HashesUpTo(held[d].seq + 1)
    BY <2>1 DEF ChainInv, HeldOnChain
  <2>5. /\ HashesUpTo(held[d].seq)' = HashesUpTo(held[d].seq)
        /\ HashesUpTo(held[d].seq + 1)' = HashesUpTo(held[d].seq + 1)
    BY <1>4, <1>7, <2>3 DEF HashesUpTo
  <2>6. held[d].seq \in 0 .. kernel.sequence - 1
    BY <1>2, <2>1, <2>2
  <2> QED
    BY <2>4, <2>5, <2>6
<1>12. HeldOnChain'
  BY <1>2, <1>3, <1>6, <1>7, <1>11 DEF ChainInv, HeldOnChain
<1>13. HeldPositionsUnique'
  BY <1>2, <1>3, <1>7, <1>11 DEF ChainInv, HeldPositionsUnique
<1> QED
  BY <1>8, <1>9, <1>10, <1>12, <1>13 DEF ChainInv, TypeInv

LEMMA AppendChain ==
  ASSUME ChainInv, NEW c \in Client, AppendReceipt(c)
  PROVE  ChainInv'
<1> DEFINE r == held[c]
<1>0. TypeInv
  BY DEF ChainInv, TypeInv
<1>1. /\ phase[c] = "append"
      /\ Appendable(log, r)
      /\ log' = Append(log, r)
      /\ UNCHANGED <<up, kernel, held>>
      /\ \A d \in Client : phase'[d] = "append" => d # c /\ phase[d] = "append"
  BY DEF AppendReceipt, ChainInv, TypeOK
<1>2. r \in Receipt /\ r.seq = Len(log) /\ up
  BY <1>1 DEF ChainInv, HandlersReady, Appendable, InOrder
<1>3. /\ log \in Seq(Receipt)
      /\ Len(log) \in Nat
      /\ kernel.sequence \in Nat
      /\ kernel.prev_hash \in Seq(Entry)
      /\ Len(kernel.prev_hash) = kernel.sequence
  BY <1>2, LenProperties DEF ChainInv, TypeOK, KernelState, LogOnChain, Digest
<1>4. /\ Len(log') = Len(log) + 1
      /\ \A i \in 1 .. Len(log) : log'[i] = log[i]
      /\ log'[Len(log) + 1] = r
  BY <1>1, <1>2, <1>3, AppendProperties
<1>5. /\ r.leaf = HashesUpTo(Len(log) + 1)
      /\ Len(log) < kernel.sequence
  BY <1>1, <1>2 DEF ChainInv, HeldOnChain
<1>6. Len(r.leaf) = Len(log) + 1
  BY <1>3, <1>5, PrefixLength DEF HashesUpTo
<1>7. VerifyChain(log') /\ HeadLeaf(log') = r.leaf
  BY <1>1, <1>2, <1>3, ExtendedChain DEF ChainInv, ChainSound
<1>8. TypeInv'
  BY <1>0, AppendType
<1>9. ChainSound'
  BY <1>7 DEF ChainSound
<1>10. LogOnChain'
  BY <1>1, <1>2, <1>3, <1>4, <1>5, <1>6, <1>7 DEF ChainInv, LogOnChain, HashesUpTo
<1>11. HeldOnChain'
  <2> SUFFICES ASSUME NEW d \in Client, phase'[d] = "append"
               PROVE  /\ Len(log') <= held[d].seq
                      /\ held[d].seq < kernel.sequence
                      /\ held[d].prev = HashesUpTo(held[d].seq)
                      /\ held[d].leaf = HashesUpTo(held[d].seq + 1)
    BY <1>1 DEF HeldOnChain, HashesUpTo
  <2>1. d # c /\ phase[d] = "append"
    BY <1>1
  <2>2. held[d].seq \in Nat /\ held[d].seq # Len(log) /\ Len(log) <= held[d].seq
    BY <1>1, <1>2, <2>1
       DEF ChainInv, HandlersReady, HeldPositionsUnique, HeldOnChain, Receipt
  <2>3. Len(log') <= held[d].seq
    BY <1>3, <1>4, <2>2
  <2> QED
    BY <2>1, <2>3 DEF ChainInv, HeldOnChain
<1>12. HeldPositionsUnique'
  BY <1>1 DEF ChainInv, HeldPositionsUnique
<1> QED
  BY <1>8, <1>9, <1>10, <1>11, <1>12 DEF ChainInv, TypeInv

LEMMA DownChain ==
  ASSUME ChainInv, NEW n \in 0 .. Len(log), Down(n), synced' \in 0 .. n
  PROVE  ChainInv'
<1>1. /\ log \in Seq(Receipt)
      /\ log' = SubSeq(log, 1, n)
      /\ ~up'
      /\ \A d \in Client : phase'[d] = "idle"
  BY DEF ChainInv, TypeOK, Down
<1>2. TypeInv'
  BY DownType DEF ChainInv, TypeInv
<1>3. ChainSound'
  BY <1>1, SurvivingChain DEF ChainInv, ChainSound
<1>4. LogOnChain'
  <2>1. Len(log') = n /\ \A i \in 1 .. n : log'[i] = log[i] /\ i \in 1 .. Len(log)
    BY <1>1, SurvivingLog, LenProperties
  <2> QED
    BY <1>1, <2>1 DEF ChainInv, LogOnChain
<1>5. HeldOnChain' /\ HeldPositionsUnique'
  BY <1>1 DEF HeldOnChain, HeldPositionsUnique
<1> QED
  BY <1>2, <1>3, <1>4, <1>5 DEF ChainInv, TypeInv

LEMMA RestartChain ==
  ASSUME ChainInv, Restart
  PROVE  ChainInv'
<1>1. TypeInv'
  BY RestartType DEF ChainInv, TypeInv
<1>2. /\ log \in Seq(Receipt)
      /\ Len(log) \in Nat
      /\ log' = log
      /\ kernel' = ResumeFrom(log)
      /\ \A d \in Client : phase'[d] = "idle"
  BY LenProperties DEF ChainInv, TypeOK, HandlersReady, Restart, handlers
<1>3. /\ kernel'.sequence = Len(log)
      /\ kernel'.prev_hash = HeadLeaf(log)
      /\ HeadLeaf(log) \in Seq(Entry)
      /\ Len(HeadLeaf(log)) = Len(log)
  <2>1. CASE log = << >>
    BY <2>1, <1>2, EmptySeq DEF ResumeFrom, Genesis, HeadLeaf, ZeroDigest
  <2>2. CASE log # << >>
    <3>1. Len(log) \in 1 .. Len(log) /\ log[Len(log)] \in Receipt
      BY <2>2, <1>2, EmptySeq, ElementOfSeq
    <3>2. log[Len(log)].seq = Len(log) - 1 /\ Len(log[Len(log)].leaf) = Len(log)
      BY <3>1 DEF ChainInv, ChainSound, VerifyChain, LogOnChain
    <3>3. ResumeFrom(log) = [sequence |-> log[Len(log)].seq + 1, prev_hash |-> HeadLeaf(log)]
      BY <2>2 DEF ResumeFrom
    <3>4. HeadLeaf(log) = log[Len(log)].leaf
      BY <2>2 DEF HeadLeaf
    <3> QED
      BY <1>2, <3>1, <3>2, <3>3, <3>4 DEF Receipt, Digest
  <2> QED
    BY <2>1, <2>2
<1>4. HashesUpTo(Len(log))' = HeadLeaf(log)
  BY <1>2, <1>3, SubSeqFull DEF HashesUpTo
<1>5. LogOnChain'
  BY <1>2, <1>3, <1>4 DEF ChainInv, LogOnChain
<1>6. ChainSound' /\ HeldOnChain' /\ HeldPositionsUnique'
  BY <1>2 DEF ChainInv, ChainSound, HeldOnChain, HeldPositionsUnique
<1> QED
  BY <1>1, <1>5, <1>6 DEF ChainInv, TypeInv

LEMMA ChainInvStep == ChainInv /\ [Next]_vars => ChainInv'
<1> SUFFICES ASSUME ChainInv, [Next]_vars PROVE ChainInv'
  OBVIOUS
<1>0. TypeInv /\ TypeInv'
  BY TypeInvStep DEF ChainInv, TypeInv
<1>1. ASSUME NEW c \in Client, Request(c) PROVE ChainInv'
  <2>1. PICK e : Submit(c, e)
    BY <1>1 DEF Request, PostProposal, PostResolve, PostToolExecution
  <2> QED
    BY <1>0, <2>1, QuietStep DEF Submit, ChainInv, TypeOK
<1>2. ASSUME NEW c \in Client, Abandon(c) PROVE ChainInv'
  BY <1>0, <1>2, QuietStep DEF Abandon, ChainInv, TypeOK
<1>3. ASSUME NEW c \in Client, Handle(c) PROVE ChainInv'
  <2>1. CASE Reply(c)
    BY <1>0, <2>1, QuietStep DEF Reply, ChainInv, TypeOK
  <2> QED
    BY <1>2, <1>3, <2>1, MintChain, AppendChain DEF Handle, AppendRefused
<1>4. ASSUME NEW c \in Client, InsertFails(c) \/ Disconnect(c) PROVE ChainInv'
  BY <1>2, <1>4 DEF InsertFails, Disconnect
<1>5. CASE Checkpoint \/ UNCHANGED vars
  BY <1>0, <1>5, QuietStep DEF Checkpoint, vars, handlers
<1>6. CASE Crash
  <2> DEFINE n == IF Sqlite THEN Len(log) ELSE 0
  <2>1. n \in 0 .. Len(log) /\ Down(n) /\ synced' \in 0 .. n
    BY <1>6, LenProperties DEF ChainInv, TypeOK, Crash
  <2> QED
    BY <2>1, DownChain
<1>7. CASE PowerLoss
  <2>1. PICK n \in synced .. Len(log) : Down(n) /\ synced' = n
    BY <1>7 DEF PowerLoss
  <2>2. n \in 0 .. Len(log) /\ synced' \in 0 .. n
    BY <2>1, LenProperties DEF ChainInv, TypeOK
  <2> QED
    BY <2>1, <2>2, DownChain
<1>8. CASE Restart
  BY <1>8, RestartChain
<1> QED
  BY <1>1, <1>3, <1>4, <1>5, <1>6, <1>7, <1>8 DEF Next

\* No interleaving of handlers, no dropped receipt, crash, power failure or
\* restart leaves a log whose chain does not verify.
THEOREM ChainIsSound == Spec => []ChainSound
<1>1. ChainInv => ChainSound
  BY DEF ChainInv
<1> QED
  BY <1>1, InitChainInv, ChainInvStep, PTL DEF Spec

\* A receipt that reaches the log at its own position is never refused for
\* its link: append answers the host only with Ok or OutOfOrder.
THEOREM LinksNeverRefused == Spec => []OnlyOrderIsRefused
<1>1. ChainInv => OnlyOrderIsRefused
  BY DEF ChainInv, HandlersReady, LogOnChain, HeldOnChain,
         OnlyOrderIsRefused, InOrder, Linked
<1> QED
  BY <1>1, InitChainInv, ChainInvStep, PTL DEF Spec

(***************************************************************************)
(* The wedge.                                                              *)
(***************************************************************************)

LEMMA WedgeStep == ChainInv /\ [Next]_vars => (Wedged /\ up' => Wedged' /\ log' = log)
<1> SUFFICES ASSUME ChainInv, [Next]_vars, Wedged, up'
             PROVE  Wedged' /\ log' = log
  OBVIOUS
<1> USE DEF InOrder
<1>1. up /\ kernel.sequence \in Nat /\ Len(log) \in Nat
  BY LenProperties DEF Wedged, ChainInv, TypeOK, KernelState
<1>2. ASSUME UNCHANGED <<up, kernel, log>>,
             \A d \in Client : phase'[d] = "append" =>
                                phase[d] = "append" /\ held'[d] = held[d]
      PROVE  Wedged' /\ log' = log
  BY <1>2 DEF Wedged
<1>3. ASSUME NEW c \in Client, Request(c) PROVE Wedged' /\ log' = log
  <2>1. PICK e : Submit(c, e)
    BY <1>3 DEF Request, PostProposal, PostResolve, PostToolExecution
  <2> QED
    BY <1>2, <2>1 DEF Submit, ChainInv, TypeOK
<1>4. ASSUME NEW c \in Client, Mint(c) PROVE Wedged' /\ log' = log
  <2>1. PICK r : /\ Continues(kernel, r)
                 /\ kernel' = Advance(kernel, r.leaf)
                 /\ held' = [held EXCEPT ![c] = r]
    BY <1>4, MintSigns DEF ChainInv, TypeInv
  <2>2. kernel'.sequence = kernel.sequence + 1 /\ r.seq = kernel.sequence
    BY <2>1 DEF Advance, Continues
  <2>3. /\ held'[c] = r
        /\ \A d \in Client : d # c => held'[d] = held[d] /\ phase'[d] = phase[d]
    BY <1>4, <2>1 DEF ChainInv, TypeOK, Mint
  <2> QED
    BY <1>1, <1>4, <2>2, <2>3 DEF Wedged, Mint
<1>5. ASSUME NEW c \in Client, Abandon(c) \/ Reply(c) PROVE Wedged' /\ log' = log
  BY <1>2, <1>5 DEF Abandon, Reply, ChainInv, TypeOK
<1>6. ASSUME NEW c \in Client, AppendReceipt(c) PROVE FALSE
  BY <1>6 DEF AppendReceipt, Appendable, Wedged
<1>7. ASSUME NEW c \in Client,
             Handle(c) \/ InsertFails(c) \/ Disconnect(c)
      PROVE  Wedged' /\ log' = log
  BY <1>4, <1>5, <1>6, <1>7 DEF Handle, AppendRefused, InsertFails, Disconnect
<1>8. CASE Checkpoint \/ UNCHANGED vars
  BY <1>2, <1>8 DEF Checkpoint, vars, handlers
<1>9. ~Crash /\ ~PowerLoss /\ ~Restart
  BY <1>1 DEF Crash, PowerLoss, Down, Restart
<1> QED
  BY <1>3, <1>7, <1>8, <1>9 DEF Next

\* A signed receipt that misses the log stops it until the next restart, for
\* any number of clients and whatever they send.
THEOREM WedgePersists == Spec => WedgeIsPermanent
<1>1. ChainInv /\ [Next]_vars => [Wedged /\ up' => Wedged' /\ log' = log]_vars
  BY WedgeStep
<1> QED
  BY <1>1, InitChainInv, ChainInvStep, PTL DEF Spec, WedgeIsPermanent

(***************************************************************************)
(* Host implements AuditLog.                                               *)
(***************************************************************************)

\* A handler that is about to answer has appended its receipt.
AnswersLogged ==
  \A c \in Client : phase[c] = "reply" => held[c] \in ToSet(log)

AuditInv == ChainInv /\ AnswersLogged

LEMMA AnswersLoggedStep ==
  ASSUME ChainInv, AnswersLogged, [Next]_vars
  PROVE  AnswersLogged'
<1>1. ASSUME log' = log,
             \A d \in Client : phase'[d] = "reply" =>
                                phase[d] = "reply" /\ held'[d] = held[d]
      PROVE  AnswersLogged'
  BY <1>1 DEF AnswersLogged
<1>2. ASSUME NEW c \in Client, Request(c) PROVE AnswersLogged'
  <2>1. PICK e : Submit(c, e)
    BY <1>2 DEF Request, PostProposal, PostResolve, PostToolExecution
  <2> QED
    BY <1>1, <2>1 DEF Submit, ChainInv, TypeOK
<1>3. ASSUME NEW c \in Client, Mint(c) PROVE AnswersLogged'
  <2>1. PICK r : held' = [held EXCEPT ![c] = r]
    BY <1>3, MintSigns DEF ChainInv, TypeInv
  <2> QED
    BY <1>1, <1>3, <2>1 DEF Mint, ChainInv, TypeOK
<1>4. ASSUME NEW c \in Client, Abandon(c) \/ Reply(c) PROVE AnswersLogged'
  BY <1>1, <1>4 DEF Abandon, Reply, ChainInv, TypeOK
<1>5. ASSUME NEW c \in Client, AppendReceipt(c) PROVE AnswersLogged'
  <2>1. /\ phase[c] = "append"
        /\ held[c] \in Receipt
        /\ log \in Seq(Receipt)
        /\ log' = Append(log, held[c])
        /\ held' = held
        /\ \A d \in Client : d # c => phase'[d] = phase[d]
    BY <1>5 DEF AppendReceipt, ChainInv, HandlersReady, TypeOK
  <2>2. ToSet(log) \subseteq ToSet(log') /\ held[c] \in ToSet(log')
    BY <2>1, AppendElements
  <2> QED
    BY <2>1, <2>2 DEF AnswersLogged
<1>6. ASSUME NEW c \in Client,
             Handle(c) \/ InsertFails(c) \/ Disconnect(c)
      PROVE  AnswersLogged'
  BY <1>3, <1>4, <1>5, <1>6 DEF Handle, AppendRefused, InsertFails, Disconnect
<1>7. CASE Checkpoint \/ UNCHANGED vars
  BY <1>1, <1>7 DEF Checkpoint, vars, handlers
<1>8. CASE Crash \/ PowerLoss
  BY <1>8 DEF Crash, PowerLoss, Down, AnswersLogged
<1>9. CASE Restart
  BY <1>1, <1>9 DEF Restart, handlers
<1> QED
  BY <1>2, <1>6, <1>7, <1>8, <1>9 DEF Next

\* A chain that ends in an appendable receipt is an AuditLog extended by it.
LEMMA AppendExtends ==
  ASSUME ChainInv, NEW c \in Client, AppendReceipt(c)
  PROVE  Audit!Extend
<1>1. /\ held[c] \in Receipt
      /\ log \in Seq(Receipt)
      /\ log' = Append(log, held[c])
      /\ Appendable(log, held[c])
      /\ acked' = acked
  BY DEF AppendReceipt, ChainInv, HandlersReady, TypeOK, history
<1>2. /\ Len(log) \in Nat
      /\ Len(log') = Len(log) + 1
      /\ log'[Len(log')] = held[c]
  BY <1>1, AppendProperties, LenProperties
<1>3. SubSeq(log', 1, Len(log)) = SubSeq(log, 1, Len(log))
  BY <1>1, <1>2, PrefixOfAppend
<1> QED
  BY <1>1, <1>2, <1>3
     DEF Audit!Extend, Audit!IsPrefix, Audit!Last, Audit!Appendable, Audit!InOrder,
         Audit!Linked, Audit!HeadLeaf, Audit!ZeroDigest, Appendable, InOrder,
         Linked, HeadLeaf, ZeroDigest

\* Where a prefix of the log survives a fault that may take its tail, the
\* AuditLog loses a tail.
LEMMA DownLosesTail ==
  ASSUME log \in Seq(Receipt), NEW n \in 0 .. Len(log), Down(n),
         ~Sqlite \/ "power" \in Faults
  PROVE  Audit!LoseTail
<1>1. log' = SubSeq(log, 1, n) /\ acked' = acked
  BY DEF Down
<1>2. log' \in Seq(Receipt) /\ Len(log') = n /\ n <= Len(log)
  BY <1>1, SurvivingLog, LenProperties
<1>3. SubSeq(log', 1, n) = log'
  BY <1>2, SubSeqFull
<1> QED
  BY <1>1, <1>2, <1>3 DEF Audit!LoseTail, Audit!IsPrefix

LEMMA AuditStep == AuditInv /\ [Next]_vars => [Audit!ANext]_<<log, acked>>
<1> SUFFICES ASSUME AuditInv, [Next]_vars, ~UNCHANGED <<log, acked>>
             PROVE  Audit!ANext
  OBVIOUS
<1>1. ASSUME NEW c \in Client, Request(c) PROVE FALSE
  BY <1>1 DEF Request, PostProposal, PostResolve, PostToolExecution, Submit
<1>2. ASSUME NEW c \in Client, Mint(c) \/ Abandon(c) PROVE FALSE
  BY <1>2 DEF Mint, Abandon, history
<1>3. ASSUME NEW c \in Client, AppendReceipt(c) PROVE Audit!ANext
  BY <1>3, AppendExtends DEF AuditInv, Audit!ANext
<1>4. ASSUME NEW c \in Client, Reply(c) PROVE Audit!ANext
  BY <1>4 DEF AuditInv, AnswersLogged, Reply, Audit!ANext, Audit!Acknowledge,
         ToSet, Audit!ToSet
<1>5. ASSUME NEW c \in Client,
             Handle(c) \/ InsertFails(c) \/ Disconnect(c)
      PROVE  Audit!ANext
  BY <1>2, <1>3, <1>4, <1>5 DEF Handle, AppendRefused, InsertFails, Disconnect
<1>6. ~Checkpoint /\ ~Restart /\ ~UNCHANGED vars
  BY DEF Checkpoint, Restart, vars, history
<1>7. CASE Crash
  <2>1. CASE Sqlite
    <3>1. log' = SubSeq(log, 1, Len(log)) /\ acked' = acked
      BY <1>7, <2>1 DEF Crash, Down
    <3> QED
      BY <3>1, SubSeqFull DEF AuditInv, ChainInv, TypeOK
  <2>2. CASE ~Sqlite
    <3>1. Down(0) /\ 0 \in 0 .. Len(log)
      BY <1>7, <2>2, LenProperties DEF Crash, AuditInv, ChainInv, TypeOK
    <3> QED
      BY <2>2, <3>1, DownLosesTail DEF AuditInv, ChainInv, TypeOK, Audit!ANext
  <2> QED
    BY <2>1, <2>2
<1>8. CASE PowerLoss
  <2>1. PICK n \in synced .. Len(log) : Down(n)
    BY <1>8 DEF PowerLoss
  <2>2. n \in 0 .. Len(log)
    BY <2>1, LenProperties DEF AuditInv, ChainInv, TypeOK
  <2> QED
    BY <1>8, <2>1, <2>2, DownLosesTail
       DEF AuditInv, ChainInv, TypeOK, Audit!ANext, PowerLoss
<1> QED
  BY <1>1, <1>5, <1>6, <1>7, <1>8 DEF Next

\* What a client may rely on: the chain only grows, by linked receipts, and
\* is acknowledged only when it is there; a tail is lost only where the log is
\* kept in memory or the power fails.
THEOREM HostImplementsAuditLog == Spec => ImplementsAuditLog
<1>1. Init => AuditInv /\ Audit!AInit
  BY InitChainInv DEF Init, AuditInv, AnswersLogged, Audit!AInit
<1>2. AuditInv /\ [Next]_vars => AuditInv'
  BY ChainInvStep, AnswersLoggedStep DEF AuditInv
<1>3. AuditInv /\ [Next]_vars => [Audit!ANext]_(Audit!avars)
  BY AuditStep DEF Audit!avars
<1> QED
  BY <1>1, <1>2, <1>3, PTL DEF Spec, ImplementsAuditLog, Audit!ASpec

(***************************************************************************)
(* The constitution and the provenance edges.                              *)
(***************************************************************************)

\* The elements of a log, by position.
LEMMA LogElements ==
  ASSUME NEW S, NEW s \in Seq(S), NEW p
  PROVE  p \in ToSet(s) <=> \E i \in 1 .. Len(s) : p = s[i]
BY LenProperties DEF ToSet

\* What the kernel signs on behalf of a queued event is lawful, and grounded
\* in the log the event was built from.
LEMMA KernelReceiptLawful ==
  ASSUME PolicyInv, NEW c \in Client, phase[c] = "kernel", NEW at \in Time
  PROVE  /\ Grounded(KernelReceipt(kernel, at, event[c]))
         /\ Lawful(KernelReceipt(kernel, at, event[c]))
<1> DEFINE e == event[c]
<1>1. e \in Event /\ Admits(e)
  BY DEF PolicyInv, ChainInv, HandlersReady
<1>2. ASSUME NEW p \in ToSet(log) PROVE p.leaf # ZeroDigest /\ Lawful(p)
  <2>1. PICK i \in 1 .. Len(log) : p = log[i]
    BY <1>2, LogElements DEF PolicyInv, ChainInv, TypeOK
  <2>2. Len(p.leaf) = i /\ Lawful(p)
    BY <2>1 DEF PolicyInv, ChainInv, LogOnChain
  <2> QED
    BY <2>1, <2>2, EmptySeq DEF ZeroDigest
<1>3. CASE e \in [kind : {"proposal"}, action : Proposable]
  <2> DEFINE r == EvaluatedReceipt(kernel, at, e)
  <2>1. KernelReceipt(kernel, at, e) = r
    BY <1>3 DEF KernelReceipt
  <2>2. /\ r.cites = ZeroDigest
        /\ r.action = e.action
        /\ r.decision = ConstitutionalDecision(e.action, "Allowed")
    BY DEF EvaluatedReceipt, Minted
  <2>3. /\ r.decision \in {"Allowed", "Approved"} => MatchedRules(e.action) = {}
        /\ r.decision = "Pending" => MatchedRules(e.action) \cap DenyRule = {}
    BY <2>2 DEF ConstitutionalDecision, OverrideDecision, MatchedRules, ConstitutionRule
  <2> QED
    BY <2>1, <2>2, <2>3 DEF Grounded, Lawful, WithinPolicy
<1>4. CASE e \in [kind : {"resolve"}, pending : Receipt,
                  response : {"Approved", "Denied"}]
  <2> DEFINE r == ResolvedReceipt(kernel, at, e)
  <2>1. KernelReceipt(kernel, at, e) = r
    BY <1>4 DEF KernelReceipt
  <2>2. /\ r.cites = e.pending.leaf
        /\ r.action = e.pending.action
        /\ r.decision = e.response
        /\ e.response \in {"Approved", "Denied"}
    BY <1>4 DEF ResolvedReceipt, Minted
  <2>3. e.pending \in ToSet(log) /\ e.pending.decision = "Pending"
    BY <1>1, <1>4 DEF PolicyInv, EventsGrounded, Admits
  <2> QED
    BY <1>2, <2>1, <2>2, <2>3 DEF Grounded, Lawful, WithinPolicy, Authorizes
<1>5. CASE e \in [kind : {"tool"}, allowed : Receipt]
  <2> DEFINE r == ExecutedReceipt(kernel, at, e)
  <2>1. KernelReceipt(kernel, at, e) = r
    BY <1>5 DEF KernelReceipt
  <2>2. r.cites = e.allowed.leaf /\ r.action = ToolExecuted /\ r.decision = "Allowed"
    BY <1>5 DEF ExecutedReceipt, Minted
  <2>3. /\ e.allowed \in ToSet(log)
        /\ e.allowed.decision = "Allowed"
        /\ e.allowed.action \in ToolAction
    BY <1>1, <1>5 DEF PolicyInv, EventsGrounded, Admits
  <2> QED
    BY <1>2, <2>1, <2>2, <2>3 DEF Grounded, Lawful, WithinPolicy, Authorizes
<1> QED
  BY <1>1, <1>3, <1>4, <1>5 DEF Event

\* A step that leaves the log alone and begins neither to ask the kernel nor
\* to append keeps the policy.
LEMMA QuietPolicyStep ==
  ASSUME PolicyInv, ChainInv', log' = log,
         \A d \in Client : phase'[d] \in {"kernel", "append"} =>
           phase[d] = phase'[d] /\ held'[d] = held[d] /\ event'[d] = event[d]
  PROVE  PolicyInv'
<1>1. CitationsGrounded' /\ EventsGrounded'
  BY DEF PolicyInv, CitationsGrounded, EventsGrounded
<1>2. \A d \in Client : phase'[d] = "append" => Grounded(held[d])' /\ Lawful(held[d])'
  BY DEF PolicyInv, Grounded, Lawful, WithinPolicy, Authorizes
<1>3. \A i \in 1 .. Len(log') : Lawful(log[i])'
  BY DEF PolicyInv, Lawful, WithinPolicy
<1> QED
  BY <1>1, <1>2, <1>3 DEF PolicyInv

LEMMA SubmitPolicy ==
  ASSUME PolicyInv, ChainInv', NEW c \in Client, NEW e, Submit(c, e),
         e.kind = "resolve" => e.pending \in ToSet(log),
         e.kind = "tool" => e.allowed \in ToSet(log)
  PROVE  PolicyInv'
<1>1. /\ log' = log
      /\ held' = held
      /\ event'[c] = e
      /\ phase'[c] = "kernel"
      /\ \A d \in Client : d # c => phase'[d] = phase[d] /\ event'[d] = event[d]
  BY DEF Submit, PolicyInv, ChainInv, TypeOK
<1>2. CitationsGrounded' /\ EventsGrounded'
  BY <1>1 DEF PolicyInv, CitationsGrounded, EventsGrounded
<1>3. \A d \in Client : phase'[d] = "append" => Grounded(held[d])' /\ Lawful(held[d])'
  BY <1>1 DEF PolicyInv, Grounded, Lawful, WithinPolicy, Authorizes
<1>4. \A i \in 1 .. Len(log') : Lawful(log[i])'
  BY <1>1 DEF PolicyInv, Lawful, WithinPolicy
<1> QED
  BY <1>2, <1>3, <1>4 DEF PolicyInv

LEMMA RequestPolicy ==
  ASSUME PolicyInv, ChainInv', NEW c \in Client, Request(c)
  PROVE  PolicyInv'
<1>1. CASE PostProposal(c)
  <2>1. PICK a \in Proposable : Submit(c, ProposalEvent(a))
    BY <1>1 DEF PostProposal
  <2> QED
    BY <2>1, SubmitPolicy DEF ProposalEvent
<1>2. CASE PostResolve(c)
  <2>1. PICK r \in minted, d \in {"Approved", "Denied"} :
          Found(r) /\ Submit(c, ResolveEvent(r, d))
    BY <1>2 DEF PostResolve
  <2> QED
    BY <2>1, SubmitPolicy DEF ResolveEvent, Found
<1>3. CASE PostToolExecution(c)
  <2>1. PICK r \in minted : Found(r) /\ Submit(c, ToolEvent(r))
    BY <1>3 DEF PostToolExecution
  <2> QED
    BY <2>1, SubmitPolicy DEF ToolEvent, Found
<1> QED
  BY <1>1, <1>2, <1>3 DEF Request

LEMMA MintPolicy ==
  ASSUME PolicyInv, ChainInv', NEW c \in Client, Mint(c)
  PROVE  PolicyInv'
<1>1. PICK at \in Time :
        held' = [held EXCEPT ![c] = KernelReceipt(kernel, at, event[c])]
  BY DEF Mint
<1>2. /\ log' = log
      /\ phase[c] = "kernel"
      /\ phase'[c] = "append"
      /\ held'[c] = KernelReceipt(kernel, at, event[c])
      /\ \A d \in Client : d # c => /\ phase'[d] = phase[d]
                                    /\ event'[d] = event[d]
                                    /\ held'[d] = held[d]
  BY <1>1 DEF Mint, PolicyInv, ChainInv, TypeOK
<1>3. Grounded(held'[c]) /\ Lawful(held'[c])
  BY <1>2, KernelReceiptLawful
<1>4. CitationsGrounded' /\ EventsGrounded'
  BY <1>2 DEF PolicyInv, CitationsGrounded, EventsGrounded
<1>5. \A d \in Client : phase'[d] = "append" => Grounded(held'[d]) /\ Lawful(held'[d])
  BY <1>2, <1>3 DEF PolicyInv
<1>6. \A d \in Client : phase'[d] = "append" => Grounded(held[d])' /\ Lawful(held[d])'
  BY <1>2, <1>5 DEF Grounded, Lawful, WithinPolicy, Authorizes
<1>7. \A i \in 1 .. Len(log') : Lawful(log[i])'
  BY <1>2 DEF PolicyInv, Lawful, WithinPolicy
<1> QED
  BY <1>4, <1>6, <1>7 DEF PolicyInv

LEMMA AppendPolicy ==
  ASSUME PolicyInv, ChainInv', NEW c \in Client, AppendReceipt(c)
  PROVE  PolicyInv'
<1>1. /\ phase[c] = "append"
      /\ held[c] \in Receipt
      /\ log \in Seq(Receipt)
      /\ log' = Append(log, held[c])
      /\ held' = held /\ event' = event
      /\ \A d \in Client : phase'[d] \in {"kernel", "append"} => phase[d] = phase'[d]
  BY DEF AppendReceipt, PolicyInv, ChainInv, HandlersReady, TypeOK
<1>2. /\ Len(log) \in Nat
      /\ Len(log') = Len(log) + 1
      /\ log' \in Seq(Receipt)
      /\ \A i \in 1 .. Len(log) : log'[i] = log[i]
      /\ log'[Len(log) + 1] = held[c]
  BY <1>1, AppendProperties, LenProperties
<1>3. ToSet(log) \subseteq ToSet(log')
  BY <1>1, AppendElements
<1>4. Grounded(held[c]) /\ Lawful(held[c])
  BY <1>1 DEF PolicyInv
<1>5. CitationsGrounded'
  <2> SUFFICES ASSUME NEW i \in 1 .. Len(log'), log'[i].cites # ZeroDigest
               PROVE  \E j \in 1 .. i - 1 :
                        log'[j].leaf = log'[i].cites /\ Authorizes(log'[j], log'[i])
    BY DEF CitationsGrounded, Authorizes
  <2>1. CASE i \in 1 .. Len(log)
    <3>1. PICK j \in 1 .. i - 1 :
            log[j].leaf = log[i].cites /\ Authorizes(log[j], log[i])
      BY <1>2, <2>1 DEF PolicyInv, CitationsGrounded
    <3>2. j \in 1 .. Len(log)
      BY <1>2, <2>1
    <3> QED
      BY <1>2, <2>1, <3>1, <3>2
  <2>2. CASE i = Len(log) + 1
    <3>1. PICK p \in ToSet(log) : p.leaf = held[c].cites /\ Authorizes(p, held[c])
      BY <1>2, <1>4, <2>2 DEF Grounded
    <3>2. PICK j \in 1 .. Len(log) : p = log[j]
      BY <1>1, <3>1, LogElements
    <3> QED
      BY <1>2, <2>2, <3>1, <3>2
  <2> QED
    BY <1>2, <2>1, <2>2
<1>6. EventsGrounded'
  BY <1>1, <1>3 DEF PolicyInv, EventsGrounded
<1>7. \A d \in Client : phase'[d] = "append" => Grounded(held[d])' /\ Lawful(held[d])'
  BY <1>1, <1>3 DEF PolicyInv, Grounded, Lawful, WithinPolicy, Authorizes
<1>8. \A i \in 1 .. Len(log') : Lawful(log'[i])
  BY <1>2, <1>4 DEF PolicyInv
<1> QED
  BY <1>5, <1>6, <1>7, <1>8 DEF PolicyInv, Lawful, WithinPolicy

LEMMA DownPolicy ==
  ASSUME PolicyInv, ChainInv', NEW n \in 0 .. Len(log), Down(n)
  PROVE  PolicyInv'
<1>1. /\ log \in Seq(Receipt)
      /\ log' = SubSeq(log, 1, n)
      /\ \A d \in Client : phase'[d] = "idle"
  BY DEF PolicyInv, ChainInv, TypeOK, Down
<1>2. /\ Len(log') = n
      /\ n \in Nat
      /\ \A i \in 1 .. n : log'[i] = log[i] /\ i \in 1 .. Len(log)
  BY <1>1, SurvivingLog, LenProperties
<1>3. CitationsGrounded'
  <2> SUFFICES ASSUME NEW i \in 1 .. n, log'[i].cites # ZeroDigest
               PROVE  \E j \in 1 .. i - 1 :
                        log'[j].leaf = log'[i].cites /\ Authorizes(log'[j], log'[i])
    BY <1>2 DEF CitationsGrounded, Authorizes
  <2>1. PICK j \in 1 .. i - 1 :
          log[j].leaf = log[i].cites /\ Authorizes(log[j], log[i])
    BY <1>2 DEF PolicyInv, CitationsGrounded
  <2> QED
    BY <1>2, <2>1
<1>4. EventsGrounded'
  BY <1>1 DEF EventsGrounded
<1>5. \A i \in 1 .. Len(log') : Lawful(log'[i])
  BY <1>2 DEF PolicyInv
<1> QED
  BY <1>1, <1>3, <1>4, <1>5 DEF PolicyInv, Lawful, WithinPolicy

LEMMA PolicyInvStep == PolicyInv /\ [Next]_vars => PolicyInv'
<1> SUFFICES ASSUME PolicyInv, [Next]_vars PROVE PolicyInv'
  OBVIOUS
<1>0. ChainInv'
  BY ChainInvStep DEF PolicyInv
<1>1. ASSUME NEW c \in Client, Request(c) PROVE PolicyInv'
  BY <1>0, <1>1, RequestPolicy
<1>2. ASSUME NEW c \in Client, Abandon(c) \/ Reply(c) PROVE PolicyInv'
  BY <1>0, <1>2, QuietPolicyStep DEF Abandon, Reply, PolicyInv, ChainInv, TypeOK
<1>3. ASSUME NEW c \in Client,
             Handle(c) \/ InsertFails(c) \/ Disconnect(c)
      PROVE  PolicyInv'
  BY <1>0, <1>2, <1>3, MintPolicy, AppendPolicy
     DEF Handle, AppendRefused, InsertFails, Disconnect
<1>4. CASE Checkpoint \/ Restart \/ UNCHANGED vars
  BY <1>0, <1>4, QuietPolicyStep DEF Checkpoint, Restart, vars, handlers
<1>5. CASE Crash
  <2> DEFINE n == IF Sqlite THEN Len(log) ELSE 0
  <2>1. n \in 0 .. Len(log) /\ Down(n)
    BY <1>5, LenProperties DEF PolicyInv, ChainInv, TypeOK, Crash
  <2> QED
    BY <1>0, <2>1, DownPolicy
<1>6. CASE PowerLoss
  <2>1. PICK n \in synced .. Len(log) : Down(n)
    BY <1>6 DEF PowerLoss
  <2>2. n \in 0 .. Len(log)
    BY <2>1, LenProperties DEF PolicyInv, ChainInv, TypeOK
  <2> QED
    BY <1>0, <2>1, <2>2, DownPolicy
<1> QED
  BY <1>1, <1>3, <1>4, <1>5, <1>6 DEF Next

LEMMA InitPolicyInv == Init => PolicyInv
<1> SUFFICES ASSUME Init PROVE PolicyInv
  OBVIOUS
<1>1. ChainInv /\ Len(log) = 0
  BY InitChainInv, EmptySeq DEF Init
<1> QED
  BY <1>1 DEF Init, PolicyInv, CitationsGrounded, EventsGrounded

LEMMA PolicyInvHolds == Spec => []PolicyInv
BY InitPolicyInv, PolicyInvStep, PTL DEF Spec

\* Every answer to an approval and every record of a tool run has, further up
\* in the log, the receipt that entitles it.
THEOREM CitationsAreGrounded == Spec => []CitationsGrounded
<1>1. PolicyInv => CitationsGrounded
  BY DEF PolicyInv
<1> QED
  BY <1>1, PolicyInvHolds, PTL

\* For every constitution: nothing it denies, and nothing it holds back for
\* approval without one, is on record as allowed.
THEOREM PolicyIsKept == Spec => []PolicyHolds
<1>1. PolicyInv => PolicyHolds
  BY DEF PolicyInv, PolicyHolds, Lawful
<1> QED
  BY <1>1, PolicyInvHolds, PTL

(***************************************************************************)
(* Acknowledged receipts, where SQLite keeps what it committed.            *)
(***************************************************************************)

AckedInv == AuditInv /\ acked \subseteq ToSet(log)

\* An AuditLog that loses no tail keeps what it holds.
LEMMA ExtendKeeps ==
  ASSUME log \in Seq(Receipt), log' \in Seq(Receipt), Audit!Extend
  PROVE  ToSet(log) \subseteq ToSet(log')
<1>1. /\ Len(log) \in Nat
      /\ DOMAIN log = 1 .. Len(log)
      /\ DOMAIN log' = 1 .. Len(log')
      /\ Len(log') = Len(log) + 1
  BY LenProperties DEF Audit!Extend
<1>2. SubSeq(log, 1, Len(log)) = SubSeq(log', 1, Len(log))
  BY DEF Audit!Extend, Audit!IsPrefix
<1>3. ASSUME NEW i \in 1 .. Len(log) PROVE log'[i] = log[i]
  <2>1. \A j \in 1 .. Len(log) : log[j] \in Receipt /\ log'[j] \in Receipt
    BY <1>1, ElementOfSeq
  <2>2. SubSeq(log, 1, Len(log))[i] = log[i]
    BY <1>1, <2>1, SubSeqProperties
  <2>3. SubSeq(log', 1, Len(log))[i] = log'[i]
    BY <1>1, <2>1, SubSeqProperties
  <2> QED
    BY <1>2, <2>2, <2>3
<1> QED
  BY <1>1, <1>3 DEF ToSet

LEMMA AckedInvStep ==
  ASSUME Sqlite, "power" \notin Faults
  PROVE  AckedInv /\ [Next]_vars => AckedInv'
<1> SUFFICES ASSUME AckedInv, [Next]_vars PROVE AckedInv'
  OBVIOUS
<1>1. AuditInv'
  BY ChainInvStep, AnswersLoggedStep DEF AckedInv, AuditInv
<1>2. log \in Seq(Receipt) /\ log' \in Seq(Receipt)
  BY <1>1 DEF AckedInv, AuditInv, ChainInv, TypeOK
<1>3. CASE Audit!Extend
  BY <1>1, <1>2, <1>3, ExtendKeeps DEF AckedInv, Audit!Extend
<1>4. CASE Audit!Acknowledge
  BY <1>1, <1>4 DEF AckedInv, Audit!Acknowledge, ToSet, Audit!ToSet
<1>5. CASE UNCHANGED <<log, acked>>
  BY <1>1, <1>5 DEF AckedInv
<1>6. ~Audit!LoseTail
  BY DEF Audit!LoseTail
<1> QED
  BY <1>3, <1>4, <1>5, <1>6, AuditStep DEF AckedInv, Audit!ANext

\* However often the process crashes, no two clients are ever sent different
\* receipts for one position.
THEOREM AckedReceiptsAgree ==
  ASSUME Sqlite, "power" \notin Faults
  PROVE  Spec => []AckedPositionsUnique
<1>1. Init => AckedInv
  BY InitChainInv DEF Init, AckedInv, AuditInv, AnswersLogged
<1>2. AckedInv /\ [Next]_vars => AckedInv'
  BY AckedInvStep
<1>3. AckedInv => AckedPositionsUnique
  <2> SUFFICES ASSUME AckedInv, NEW r \in acked, NEW s \in acked, r.seq = s.seq
               PROVE  r = s
    BY DEF AckedPositionsUnique
  <2>1. log \in Seq(Receipt) /\ Len(log) \in Nat
    BY LenProperties DEF AckedInv, AuditInv, ChainInv, TypeOK
  <2>2. PICK i \in 1 .. Len(log) : r = log[i]
    BY <2>1, LogElements DEF AckedInv
  <2>3. PICK j \in 1 .. Len(log) : s = log[j]
    BY <2>1, LogElements DEF AckedInv
  <2>4. r.seq = i - 1 /\ s.seq = j - 1
    BY <2>2, <2>3 DEF AckedInv, AuditInv, ChainInv, ChainSound, VerifyChain
  <2> QED
    BY <2>1, <2>2, <2>3, <2>4
<1> QED
  BY <1>1, <1>2, <1>3, PTL DEF Spec

(***************************************************************************)
(* The calendar, for every count of days and of seconds.                   *)
(***************************************************************************)

\* An era has 400 years, which begin in March: the days of it before one of them.
DaysBefore(y) == 365 * y + y \div 4 - y \div 100

\* The year of a day of an era is the one that it falls into.
LEMMA YearOfDay ==
  ASSUME NEW doe \in Nat, doe <= 146096
  PROVE  /\ Yoe(doe) \in Nat
         /\ Yoe(doe) <= 399
         /\ DaysBefore(Yoe(doe)) <= doe
         /\ Yoe(doe) < 399 => doe < DaysBefore(Yoe(doe) + 1)
<1>1. PICK a \in Int : a = doe \div 1460
  OBVIOUS
<1>2. 1460 * a <= doe /\ doe < 1460 * a + 1460
  BY <1>1
<1>3. PICK b \in Int : b = doe \div 36524
  OBVIOUS
<1>4. 36524 * b <= doe /\ doe < 36524 * b + 36524
  BY <1>3
<1>5. PICK e \in Int : e = doe \div 146096
  OBVIOUS
<1>6. 146096 * e <= doe /\ doe < 146096 * e + 146096
  BY <1>5
<1>7. PICK n \in Int : n = doe - a + b - e
  OBVIOUS
<1>8. PICK y \in Int : y = n \div 365
  OBVIOUS
<1>9. 365 * y <= n /\ n < 365 * y + 365
  BY <1>8
<1>10. Yoe(doe) = y
  BY <1>1, <1>3, <1>5, <1>7, <1>8 DEF Yoe
<1>e. (e = 0 /\ doe < 146096) \/ (e = 1 /\ doe = 146096)
  BY <1>6
<1>b. b \in {0, 1, 2, 3, 4}
  BY <1>4
<1>11. 0 <= y /\ y <= 399
  BY <1>2, <1>4, <1>7, <1>9, <1>e, <1>b
<1>12. PICK f \in Int : f = y \div 4
  OBVIOUS
<1>13. 4 * f <= y /\ y < 4 * f + 4
  BY <1>12
<1>14. PICK h \in Int : h = y \div 100
  OBVIOUS
<1>15. 100 * h <= y /\ y < 100 * h + 100
  BY <1>14
<1>16. 365 * y + f - h <= doe
  BY <1>2, <1>4, <1>7, <1>9, <1>11, <1>13, <1>15, <1>e, <1>b, SMTT(60)
<1>17. ASSUME y < 399
       PROVE  doe < DaysBefore(y + 1)
  <2>1. PICK f1 \in Int : f1 = (y + 1) \div 4
    OBVIOUS
  <2>2. 4 * f1 <= y + 1 /\ y + 1 < 4 * f1 + 4
    BY <2>1
  <2>3. PICK h1 \in Int : h1 = (y + 1) \div 100
    OBVIOUS
  <2>4. 100 * h1 <= y + 1 /\ y + 1 < 100 * h1 + 100
    BY <2>3
  <2>5. doe < 365 * (y + 1) + f1 - h1
    BY <1>2, <1>4, <1>7, <1>9, <1>11, <1>17, <2>2, <2>4, <1>e, <1>b, SMTT(60)
  <2> QED
    BY <2>1, <2>3, <2>5 DEF DaysBefore
<1> QED
  BY <1>10, <1>11, <1>12, <1>14, <1>16, <1>17 DEF DaysBefore

\* The days before the years of an era grow by 365 or 366, the latter exactly when
\* the following year is a leap year.
LEMMA YearLength ==
  ASSUME NEW y \in Nat
  PROVE  /\ DaysBefore(y) \in Int
         /\ DaysBefore(y + 1) \in Int
         /\ DaysBefore(y + 1) - DaysBefore(y) =
              IF (y + 1) % 4 = 0 /\ ~((y + 1) % 100 = 0) THEN 366 ELSE 365
<1>1. PICK f \in Int : f = y \div 4
  OBVIOUS
<1>2. 4 * f <= y /\ y < 4 * f + 4
  BY <1>1
<1>3. PICK h \in Int : h = y \div 100
  OBVIOUS
<1>4. 100 * h <= y /\ y < 100 * h + 100
  BY <1>3
<1>5. PICK f1 \in Int : f1 = (y + 1) \div 4
  OBVIOUS
<1>6. 4 * f1 <= y + 1 /\ y + 1 < 4 * f1 + 4
  BY <1>5
<1>7. PICK h1 \in Int : h1 = (y + 1) \div 100
  OBVIOUS
<1>8. 100 * h1 <= y + 1 /\ y + 1 < 100 * h1 + 100
  BY <1>7
<1>9. (y + 1) % 4 = y + 1 - 4 * f1
  BY <1>5
<1>10. (y + 1) % 100 = y + 1 - 100 * h1
  BY <1>7
<1>11. f1 - f = IF y + 1 - 4 * f1 = 0 THEN 1 ELSE 0
  BY <1>2, <1>6
<1>12. h1 - h = IF y + 1 - 100 * h1 = 0 THEN 1 ELSE 0
  BY <1>4, <1>8
<1>13. y + 1 - 100 * h1 = 0 => y + 1 - 4 * f1 = 0
  BY <1>6, <1>8
<1>14. DaysBefore(y) = 365 * y + f - h /\ DaysBefore(y + 1) = 365 * (y + 1) + f1 - h1
  BY <1>1, <1>3, <1>5, <1>7 DEF DaysBefore
<1> QED
  BY <1>9, <1>10, <1>11, <1>12, <1>13, <1>14

\* More years have no fewer days.
LEMMA DaysBeforeGrows ==
  ASSUME NEW a \in Nat, NEW b \in Nat, a <= b
  PROVE  DaysBefore(a) \in Int /\ DaysBefore(b) \in Int /\ DaysBefore(a) <= DaysBefore(b)
<1>1. PICK f \in Int : f = a \div 4
  OBVIOUS
<1>2. 4 * f <= a /\ a < 4 * f + 4
  BY <1>1
<1>3. PICK h \in Int : h = a \div 100
  OBVIOUS
<1>4. 100 * h <= a /\ a < 100 * h + 100
  BY <1>3
<1>5. PICK g \in Int : g = b \div 4
  OBVIOUS
<1>6. 4 * g <= b /\ b < 4 * g + 4
  BY <1>5
<1>7. PICK i \in Int : i = b \div 100
  OBVIOUS
<1>8. 100 * i <= b /\ b < 100 * i + 100
  BY <1>7
<1>9. DaysBefore(a) = 365 * a + f - h /\ DaysBefore(b) = 365 * b + g - i
  BY <1>1, <1>3, <1>5, <1>7 DEF DaysBefore
<1> QED
  BY <1>2, <1>4, <1>6, <1>8, <1>9

\* The first day of a month, and its number, counted from March.
MonthStart(m) == (153 * m + 2) \div 5
MonthNumber(m) == IF m < 10 THEN m + 3 ELSE m - 9

\* The table that the arithmetic stands for.
LEMMA MonthStarts ==
  /\ MonthStart(0) = 0 /\ MonthStart(1) = 31 /\ MonthStart(2) = 61 /\ MonthStart(3) = 92
  /\ MonthStart(4) = 122 /\ MonthStart(5) = 153 /\ MonthStart(6) = 184 /\ MonthStart(7) = 214
  /\ MonthStart(8) = 245 /\ MonthStart(9) = 275 /\ MonthStart(10) = 306 /\ MonthStart(11) = 337
  BY DEF MonthStart

\* The date that is doy days into the y-th year of an era, counted from a first
\* of March, and in its m-th month.
InMonth(y, doy, m) ==
  /\ MonthStart(m) <= doy
  /\ m < 11 => doy < MonthStart(m + 1)
  /\ y < 399 => DaysBefore(y) + doy < DaysBefore(y + 1)
  /\ DaysBefore(y) + doy <= 146096

Placed(d, era, y, doy, m) ==
  /\ d \in Int /\ era \in Int /\ y \in Nat /\ doy \in Nat /\ m \in Nat
  /\ y <= 399 /\ doy <= 365 /\ m <= 11
  /\ InMonth(y, doy, m)
  /\ d + 719468 = 146097 * era + DaysBefore(y) + doy

YearNumber(era, y, m) == y + 400 * era + (IF m < 10 THEN 0 ELSE 1)

\* Every day of a year is in one of its months,
LEMMA MonthOfDay ==
  ASSUME NEW doy \in Nat, doy <= 365
  PROVE  \E m \in Nat : m <= 11 /\ MonthStart(m) <= doy /\ (m < 11 => doy < MonthStart(m + 1))
<1>0. \A m \in Nat : m <= 11 /\ MonthStart(m) <= doy /\ (m < 11 => doy < MonthStart(m + 1)) =>
        \E k \in Nat : k <= 11 /\ MonthStart(k) <= doy /\ (k < 11 => doy < MonthStart(k + 1))
  OBVIOUS
<1>1. CASE 0 <= doy /\ doy < 31
  <2>1. 0 \in Nat /\ 0 <= 11 /\ MonthStart(0) <= doy /\ (0 < 11 => doy < MonthStart(0 + 1))
    BY <1>1, MonthStarts
  <2> QED
    BY <2>1, <1>0
<1>2. CASE 31 <= doy /\ doy < 61
  <2>1. 1 \in Nat /\ 1 <= 11 /\ MonthStart(1) <= doy /\ (1 < 11 => doy < MonthStart(1 + 1))
    BY <1>2, MonthStarts
  <2> QED
    BY <2>1, <1>0
<1>3. CASE 61 <= doy /\ doy < 92
  <2>1. 2 \in Nat /\ 2 <= 11 /\ MonthStart(2) <= doy /\ (2 < 11 => doy < MonthStart(2 + 1))
    BY <1>3, MonthStarts
  <2> QED
    BY <2>1, <1>0
<1>4. CASE 92 <= doy /\ doy < 122
  <2>1. 3 \in Nat /\ 3 <= 11 /\ MonthStart(3) <= doy /\ (3 < 11 => doy < MonthStart(3 + 1))
    BY <1>4, MonthStarts
  <2> QED
    BY <2>1, <1>0
<1>5. CASE 122 <= doy /\ doy < 153
  <2>1. 4 \in Nat /\ 4 <= 11 /\ MonthStart(4) <= doy /\ (4 < 11 => doy < MonthStart(4 + 1))
    BY <1>5, MonthStarts
  <2> QED
    BY <2>1, <1>0
<1>6. CASE 153 <= doy /\ doy < 184
  <2>1. 5 \in Nat /\ 5 <= 11 /\ MonthStart(5) <= doy /\ (5 < 11 => doy < MonthStart(5 + 1))
    BY <1>6, MonthStarts
  <2> QED
    BY <2>1, <1>0
<1>7. CASE 184 <= doy /\ doy < 214
  <2>1. 6 \in Nat /\ 6 <= 11 /\ MonthStart(6) <= doy /\ (6 < 11 => doy < MonthStart(6 + 1))
    BY <1>7, MonthStarts
  <2> QED
    BY <2>1, <1>0
<1>8. CASE 214 <= doy /\ doy < 245
  <2>1. 7 \in Nat /\ 7 <= 11 /\ MonthStart(7) <= doy /\ (7 < 11 => doy < MonthStart(7 + 1))
    BY <1>8, MonthStarts
  <2> QED
    BY <2>1, <1>0
<1>9. CASE 245 <= doy /\ doy < 275
  <2>1. 8 \in Nat /\ 8 <= 11 /\ MonthStart(8) <= doy /\ (8 < 11 => doy < MonthStart(8 + 1))
    BY <1>9, MonthStarts
  <2> QED
    BY <2>1, <1>0
<1>10. CASE 275 <= doy /\ doy < 306
  <2>1. 9 \in Nat /\ 9 <= 11 /\ MonthStart(9) <= doy /\ (9 < 11 => doy < MonthStart(9 + 1))
    BY <1>10, MonthStarts
  <2> QED
    BY <2>1, <1>0
<1>11. CASE 306 <= doy /\ doy < 337
  <2>1. 10 \in Nat /\ 10 <= 11 /\ MonthStart(10) <= doy /\ (10 < 11 => doy < MonthStart(10 + 1))
    BY <1>11, MonthStarts
  <2> QED
    BY <2>1, <1>0
<1>12. CASE 337 <= doy
  <2>1. 11 \in Nat /\ 11 <= 11 /\ MonthStart(11) <= doy /\ (11 < 11 => doy < MonthStart(11 + 1))
    BY <1>12, MonthStarts
  <2> QED
    BY <2>1, <1>0
<1> QED
  BY <1>1, <1>2, <1>3, <1>4, <1>5, <1>6, <1>7, <1>8, <1>9, <1>10, <1>11, <1>12

\* and the division finds that month.
LEMMA MonthIsThat ==
  ASSUME NEW doy \in Nat, doy <= 365, NEW m \in Nat, m <= 11,
         MonthStart(m) <= doy, m < 11 => doy < MonthStart(m + 1)
  PROVE  (5 * doy + 2) \div 153 = m
<1>1. PICK q \in Int : q = (5 * doy + 2) \div 153
  OBVIOUS
<1>2. 153 * q <= 5 * doy + 2 /\ 5 * doy + 2 < 153 * q + 153
  BY <1>1
<1>3. PICK f \in Int : f = MonthStart(m)
  BY DEF MonthStart
<1>4. 5 * f <= 153 * m + 2 /\ 153 * m + 2 < 5 * f + 5
  BY <1>3 DEF MonthStart
<1>5. PICK g \in Int : g = MonthStart(m + 1)
  BY DEF MonthStart
<1>6. 5 * g <= 153 * (m + 1) + 2 /\ 153 * (m + 1) + 2 < 5 * g + 5
  BY <1>5 DEF MonthStart
<1> QED
  BY <1>1, <1>2, <1>3, <1>4, <1>5, <1>6

\* What days_to_ymd returns for it.
LEMMA DateOf ==
  ASSUME NEW d, NEW era, NEW y, NEW doy, NEW m, Placed(d, era, y, doy, m)
  PROVE  DaysToYmd(d) = [year |-> YearNumber(era, y, m), month |-> MonthNumber(m),
                         day |-> doy - MonthStart(m) + 1]
<1>0. /\ d \in Int /\ era \in Int /\ y \in Nat /\ doy \in Nat /\ m \in Nat
      /\ y <= 399 /\ doy <= 365 /\ m <= 11
  BY DEF Placed
<1>1. PICK z \in Int : z = d + 719468
  BY <1>0
<1>2. PICK b \in Int : b = DaysBefore(y)
  BY <1>0, DaysBeforeGrows
<1>3. PICK doe \in Nat : doe = b + doy /\ doe <= 146096 /\ z = 146097 * era + doe
  <2>1. 0 <= b
    BY <1>0, <1>2, DaysBeforeGrows, DaysBefore(0) = 0 DEF DaysBefore
  <2> QED
    BY <2>1, <1>0, <1>1, <1>2 DEF InMonth, Placed
<1>4. PICK q \in Int : q = z \div 146097 /\ 146097 * q <= z /\ z < 146097 * q + 146097 /\ z % 146097 = z - 146097 * q
  OBVIOUS
<1>5. q = era /\ z % 146097 = doe
  BY <1>0, <1>3, <1>4
<1>6. PICK k \in Nat : k = Yoe(doe) /\ k <= 399 /\ DaysBefore(k) <= doe /\ (k < 399 => doe < DaysBefore(k + 1))
  BY <1>3, YearOfDay
<1>7. k = y
  <2>1. ~(k < y)
    BY <1>0, <1>2, <1>3, <1>6, DaysBeforeGrows, k + 1 \in Nat
  <2>2. ~(y < k)
    BY <1>0, <1>2, <1>3, <1>6, DaysBeforeGrows, y + 1 \in Nat DEF InMonth, Placed
  <2> QED
    BY <2>1, <2>2, <1>0
<1>8. 365 * y + y \div 4 - y \div 100 = b
  BY <1>2 DEF DaysBefore
<1>9. doe - b = doy
  BY <1>0, <1>3
<1>10. (5 * doy + 2) \div 153 = m
  BY <1>0, MonthIsThat DEF InMonth, Placed
<1>11. (153 * m + 2) \div 5 = MonthStart(m)
  BY DEF MonthStart
<1>12. y + era * 400 + (IF (IF m < 10 THEN m + 3 ELSE m - 9) <= 2 THEN 1 ELSE 0) = YearNumber(era, y, m)
  BY <1>0 DEF YearNumber
<1>13. (IF m < 10 THEN m + 3 ELSE m - 9) = MonthNumber(m)
  BY DEF MonthNumber
<1>14. z \div 146097 = era
  BY <1>4, <1>5
<1>15. Yoe(doe) = y
  BY <1>6, <1>7
<1> HIDE DEF Yoe, MonthStart, MonthNumber, YearNumber, DaysBefore
<1>16. DaysToYmd(d) = [year  |-> y + era * 400 + (IF (IF m < 10 THEN m + 3 ELSE m - 9) <= 2 THEN 1 ELSE 0),
                       month |-> (IF m < 10 THEN m + 3 ELSE m - 9),
                       day   |-> doy - (153 * m + 2) \div 5 + 1]
  BY <1>1, <1>5, <1>14, <1>15, <1>8, <1>9, <1>10 DEF DaysToYmd
<1> QED
  BY <1>11, <1>12, <1>13, <1>16

\* Every day is in a month of a year of an era.
LEMMA DayPlaced ==
  ASSUME NEW d \in Int
  PROVE  \E era, y, doy, m : Placed(d, era, y, doy, m)
<1>1. PICK z \in Int : z = d + 719468
  OBVIOUS
<1>2. PICK era \in Int : era = z \div 146097
  OBVIOUS
<1>3. PICK doe \in Int : doe = z - 146097 * era
  OBVIOUS
<1>4. 0 <= doe /\ doe <= 146096
  BY <1>2, <1>3
<1>5. PICK y \in Nat : y <= 399 /\ DaysBefore(y) <= doe /\ (y < 399 => doe < DaysBefore(y + 1))
  BY <1>3, <1>4, YearOfDay
<1>6. PICK b \in Int : b = DaysBefore(y)
  BY DaysBeforeGrows
<1>7. PICK doy \in Int : doy = doe - b
  OBVIOUS
<1>8. 0 <= doy /\ doy <= 365
  <2>1. CASE y < 399
    BY <2>1, <1>5, <1>6, <1>7, YearLength
  <2>2. CASE y = 399
    <3>1. DaysBefore(399) = 145731
      BY DEF DaysBefore
    <3>2. b = 145731
      BY <3>1, <2>2, <1>6
    <3>3. b <= doe
      BY <1>5, <1>6
    <3> QED
      BY <3>2, <3>3, <1>4, <1>7
  <2> QED
    BY <2>1, <2>2, <1>5
<1>9. doy \in Nat
  BY <1>8
<1>10. PICK m \in Nat : m <= 11 /\ MonthStart(m) <= doy /\ (m < 11 => doy < MonthStart(m + 1))
  BY <1>8, <1>9, MonthOfDay
<1>11. doe = DaysBefore(y) + doy
  BY <1>6, <1>7
<1>12. InMonth(y, doy, m)
  BY <1>4, <1>5, <1>10, <1>11 DEF InMonth
<1>13. d + 719468 = 146097 * era + DaysBefore(y) + doy
  BY <1>1, <1>3, <1>6, <1>7
<1>14. Placed(d, era, y, doy, m)
  BY <1>5, <1>8, <1>9, <1>10, <1>12, <1>13 DEF Placed
<1> QED
  BY <1>14

\* A leap year is one that the following March begins 366 days after the last.
LEMMA LeapYear ==
  ASSUME NEW era \in Int, NEW y \in Nat, y <= 399
  PROVE  IsLeap(y + 400 * era + 1) <=> y = 399 \/ DaysBefore(y + 1) - DaysBefore(y) = 366
<1>1. PICK x \in Int : x = y + 400 * era + 1
  OBVIOUS
<1>2. PICK a \in Int : a = (y + 1) % 4 /\ x % 4 = a
  BY <1>1
<1>3. PICK c \in Int : c = (y + 1) % 100 /\ x % 100 = c
  BY <1>1
<1>4. x % 400 = 0 <=> y = 399
  BY <1>1
<1>5. PICK n \in Int : n = DaysBefore(y + 1) - DaysBefore(y)
  BY YearLength
<1>6. n = IF a = 0 /\ ~(c = 0) THEN 366 ELSE 365
  BY <1>2, <1>3, <1>5, YearLength
<1>7. IsLeap(x) <=> (a = 0 /\ c # 0) \/ y = 399
  BY <1>2, <1>3, <1>4 DEF IsLeap
<1>8. n = 366 <=> a = 0 /\ c # 0
  BY <1>6
<1> QED
  BY <1>1, <1>5, <1>7, <1>8

\* NextDay and NextSecond of records that are written out.
LEMMA NextDayOf ==
  ASSUME NEW yr, NEW mo, NEW dy
  PROVE  NextDay([year |-> yr, month |-> mo, day |-> dy]) =
           IF dy < DaysIn(yr, mo) THEN [year |-> yr, month |-> mo, day |-> dy + 1]
           ELSE IF mo < 12 THEN [year |-> yr, month |-> mo + 1, day |-> 1]
           ELSE [year |-> yr + 1, month |-> 1, day |-> 1]
<1> DEFINE date == [year |-> yr, month |-> mo, day |-> dy]
<1>1. date.year = yr /\ date.month = mo /\ date.day = dy
  OBVIOUS
<1>2. [date EXCEPT !.day = @ + 1] = [year |-> yr, month |-> mo, day |-> dy + 1]
  OBVIOUS
<1> HIDE DEF date
<1>3. NextDay(date) =
           IF dy < DaysIn(yr, mo) THEN [year |-> yr, month |-> mo, day |-> dy + 1]
           ELSE IF mo < 12 THEN [year |-> yr, month |-> mo + 1, day |-> 1]
           ELSE [year |-> yr + 1, month |-> 1, day |-> 1]
  BY <1>1, <1>2 DEF NextDay
<1> QED
  BY <1>3 DEF date

LEMMA NextSecondOf ==
  ASSUME NEW date, NEW h, NEW n, NEW s
  PROVE  NextSecond([date |-> date, hour |-> h, minute |-> n, second |-> s]) =
           IF s < 59 THEN [date |-> date, hour |-> h, minute |-> n, second |-> s + 1]
           ELSE IF n < 59 THEN [date |-> date, hour |-> h, minute |-> n + 1, second |-> 0]
           ELSE IF h < 23 THEN [date |-> date, hour |-> h + 1, minute |-> 0, second |-> 0]
           ELSE [date |-> NextDay(date), hour |-> 0, minute |-> 0, second |-> 0]
<1> DEFINE t == [date |-> date, hour |-> h, minute |-> n, second |-> s]
<1>1. t.date = date /\ t.hour = h /\ t.minute = n /\ t.second = s
  OBVIOUS
<1>2. [t EXCEPT !.second = @ + 1] = [date |-> date, hour |-> h, minute |-> n, second |-> s + 1]
  OBVIOUS
<1> HIDE DEF t
<1>3. NextSecond(t) =
           IF s < 59 THEN [date |-> date, hour |-> h, minute |-> n, second |-> s + 1]
           ELSE IF n < 59 THEN [date |-> date, hour |-> h, minute |-> n + 1, second |-> 0]
           ELSE IF h < 23 THEN [date |-> date, hour |-> h + 1, minute |-> 0, second |-> 0]
           ELSE [date |-> NextDay(date), hour |-> 0, minute |-> 0, second |-> 0]
  BY <1>1, <1>2 DEF NextSecond
<1> QED
  BY <1>3 DEF t

\* days_to_ymd: one more day is the next date of the Gregorian calendar, for every
\* count of days.
THEOREM NextDayIsNext ==
  ASSUME NEW d \in Int
  PROVE  DaysToYmd(d + 1) = NextDay(DaysToYmd(d))
<1>1. PICK era, y, doy, m : Placed(d, era, y, doy, m)
  BY DayPlaced
<1>2. /\ era \in Int /\ y \in Nat /\ doy \in Nat /\ m \in Nat
      /\ y <= 399 /\ doy <= 365 /\ m <= 11 /\ InMonth(y, doy, m)
  BY <1>1 DEF Placed
<1>3. PICK b \in Int : b = DaysBefore(y) /\ d + 719468 = 146097 * era + b + doy
  BY <1>1, <1>2, DaysBeforeGrows DEF Placed
<1>4. PICK first \in Int : first = MonthStart(m)
  BY <1>2 DEF MonthStart
<1>5. PICK yr \in Int : yr = YearNumber(era, y, m)
  BY <1>2 DEF YearNumber
<1>6. DaysToYmd(d) = [year |-> yr, month |-> MonthNumber(m), day |-> doy - first + 1]
  BY <1>1, <1>4, <1>5, DateOf
<1>7. /\ DaysBefore(399) = 145731 /\ DaysBefore(0) = 0
      /\ b <= 145731 /\ 0 <= b /\ DaysBefore(y + 1) \in Int
      /\ DaysBefore(y + 1) - b \in {365, 366}
  <2>1. DaysBefore(399) = 145731 /\ DaysBefore(0) = 0
    BY DEF DaysBefore
  <2>2. b <= 145731 /\ 0 <= b
    BY <1>2, <1>3, <2>1, DaysBeforeGrows, 399 \in Nat, 0 \in Nat
  <2> QED
    BY <1>2, <1>3, <2>1, <2>2, YearLength
<1>8. CASE m < 11 /\ doy + 1 < MonthStart(m + 1)
  <2>1. doy + 1 <= 336 /\ doy + 1 \in Nat /\ MonthStart(m) <= doy + 1
    BY <1>8, <1>2, <1>4, MonthStarts DEF InMonth
  <2>2. InMonth(y, doy + 1, m)
    BY <1>8, <1>2, <1>3, <1>7, <2>1 DEF InMonth
  <2>3. Placed(d + 1, era, y, doy + 1, m)
    BY <1>2, <1>3, <2>1, <2>2 DEF Placed
  <2>4. DaysToYmd(d + 1) = [year |-> yr, month |-> MonthNumber(m), day |-> (doy + 1) - first + 1]
    BY <1>4, <1>5, <2>3, DateOf
  <2>5. doy - first + 1 < DaysIn(yr, MonthNumber(m))
    BY <1>8, <1>2, <1>4, MonthStarts DEF MonthNumber, DaysIn
  <2>6. (doy + 1) - first + 1 = (doy - first + 1) + 1
    BY <1>2
  <2> QED
    BY <1>6, <2>4, <2>5, <2>6, NextDayOf
<1>9. CASE m < 11 /\ ~(doy + 1 < MonthStart(m + 1))
  <2>1. doy + 1 = MonthStart(m + 1) /\ doy + 1 \in Nat /\ doy + 1 <= 337 /\ m + 1 \in Nat /\ m + 1 <= 11
    BY <1>9, <1>2, MonthStarts DEF InMonth
  <2>2. m + 1 < 11 => doy + 1 < MonthStart(m + 1 + 1)
    BY <1>9, <1>2, <2>1, MonthStarts
  <2>3. InMonth(y, doy + 1, m + 1)
    BY <1>2, <1>3, <1>7, <2>1, <2>2 DEF InMonth
  <2>4. Placed(d + 1, era, y, doy + 1, m + 1)
    BY <1>2, <1>3, <2>1, <2>3 DEF Placed
  <2>5. (doy + 1) - MonthStart(m + 1) + 1 = 1
    BY <2>1
  <2>6. DaysToYmd(d + 1) = [year |-> YearNumber(era, y, m + 1), month |-> MonthNumber(m + 1), day |-> 1]
    BY <2>4, <2>5, DateOf
  <2>7. doy - first + 1 = DaysIn(yr, MonthNumber(m))
    BY <1>9, <1>2, <1>4, <2>1, MonthStarts DEF MonthNumber, DaysIn
  <2>8. ~(doy - first + 1 < DaysIn(yr, MonthNumber(m)))
    BY <1>2, <2>7
  <2>9. CASE m = 9
    <3>1. MonthNumber(m) = 12 /\ MonthNumber(m + 1) = 1 /\ YearNumber(era, y, m + 1) = yr + 1
      BY <1>2, <1>5, <2>9 DEF MonthNumber, YearNumber
    <3>2. ~(12 < 12)
      OBVIOUS
    <3>3. PICK dy \in Int : dy = doy - first + 1
      BY <1>2
    <3>4. DaysToYmd(d) = [year |-> yr, month |-> 12, day |-> dy] /\ ~(dy < DaysIn(yr, 12))
      BY <1>6, <2>8, <3>1, <3>3
    <3>5. DaysToYmd(d + 1) = [year |-> yr + 1, month |-> 1, day |-> 1]
      BY <2>6, <3>1
    <3> QED
      BY <3>2, <3>4, <3>5, NextDayOf
  <2>10. CASE m # 9
    <3>1. MonthNumber(m) < 12 /\ MonthNumber(m + 1) = MonthNumber(m) + 1 /\ YearNumber(era, y, m + 1) = yr
      BY <1>2, <1>5, <1>9, <2>10 DEF MonthNumber, YearNumber
    <3> QED
      BY <1>6, <2>6, <2>8, <3>1, NextDayOf
  <2> QED
    BY <2>9, <2>10
<1>10. CASE m = 11
  <2>1. yr = y + 400 * era + 1 /\ MonthNumber(m) = 2 /\ first = 337 /\ MonthStart(11) = 337 /\ MonthStart(0) = 0 /\ MonthStart(0 + 1) = 31
    BY <1>2, <1>4, <1>5, <1>10, MonthStarts DEF MonthNumber, YearNumber
  <2>2. PICK b1 \in Int : b1 = DaysBefore(y + 1) /\ (b1 - b = 365 \/ b1 - b = 366)
    BY <1>7
  <2>3. DaysIn(yr, 2) = IF y = 399 \/ b1 - b = 366 THEN 29 ELSE 28
    BY <1>2, <1>3, <2>1, <2>2, LeapYear DEF DaysIn
  <2>4. /\ 337 <= doy /\ b + doy <= 146096 /\ (y < 399 => b + doy < b1)
        /\ (y = 399 => b = 145731)
    BY <1>2, <1>3, <1>7, <1>10, <2>1, <2>2 DEF InMonth
  <2>5. DaysToYmd(d) = [year |-> yr, month |-> 2, day |-> doy - 337 + 1]
    BY <1>6, <2>1
  <2>6. CASE b + doy + 1 <= 146096 /\ (y < 399 => b + doy + 1 < b1)
    <3>1. doy + 1 \in Nat /\ doy + 1 <= 365
      BY <1>2, <2>2, <2>4, <2>6
    <3>2. InMonth(y, doy + 1, 11)
      BY <1>2, <1>3, <2>1, <2>2, <2>4, <2>6 DEF InMonth
    <3>3. Placed(d + 1, era, y, doy + 1, 11)
      BY <1>2, <1>3, <3>1, <3>2 DEF Placed
    <3>4. DaysToYmd(d + 1) = [year |-> yr, month |-> 2, day |-> (doy + 1) - 337 + 1]
      BY <1>5, <1>10, <2>1, <3>3, DateOf
    <3>5. doy - 337 + 1 < DaysIn(yr, 2)
      BY <1>2, <2>2, <2>3, <2>4, <2>6
    <3>6. PICK dy \in Int : dy = doy - 337 + 1 /\ (doy + 1) - 337 + 1 = dy + 1
      BY <1>2
    <3>7. /\ DaysToYmd(d) = [year |-> yr, month |-> 2, day |-> dy] /\ dy < DaysIn(yr, 2)
          /\ DaysToYmd(d + 1) = [year |-> yr, month |-> 2, day |-> dy + 1]
      BY <2>5, <3>4, <3>5, <3>6
    <3> QED
      BY <3>7, NextDayOf
  <2>7. CASE y < 399 /\ ~(b + doy + 1 < b1)
    <3>1. b + doy + 1 = b1
      BY <1>2, <2>2, <2>4, <2>7
    <3>2. y + 1 \in Nat /\ y + 1 <= 399
      BY <1>2, <2>7
    <3>3. /\ DaysBefore(y + 1 + 1) \in Int /\ b1 < DaysBefore(y + 1 + 1)
          /\ b1 <= 145731
      <4>1. DaysBefore(y + 1) <= DaysBefore(399)
        BY <3>2, DaysBeforeGrows, 399 \in Nat
      <4>2. /\ DaysBefore(y + 1) \in Int /\ DaysBefore(y + 1 + 1) \in Int
            /\ DaysBefore(y + 1 + 1) - DaysBefore(y + 1) \in {365, 366}
        BY <3>2, YearLength
      <4> QED
        BY <1>7, <2>2, <4>1, <4>2
    <3>4. InMonth(y + 1, 0, 0)
      BY <2>1, <2>2, <3>3 DEF InMonth
    <3>5. Placed(d + 1, era, y + 1, 0, 0)
      BY <1>2, <1>3, <2>2, <3>1, <3>2, <3>4 DEF Placed
    <3>6. YearNumber(era, y + 1, 0) = yr /\ MonthNumber(0) = 3 /\ 0 - MonthStart(0) + 1 = 1
      BY <1>2, <2>1 DEF MonthNumber, YearNumber
    <3>7. DaysToYmd(d + 1) = [year |-> yr, month |-> 3, day |-> 1]
      BY <3>5, <3>6, DateOf
    <3>8. doy - 337 + 1 = DaysIn(yr, 2)
      BY <1>2, <2>2, <2>3, <2>4, <2>7, <3>1
    <3>9. ~(doy - 337 + 1 < DaysIn(yr, 2)) /\ 2 < 12 /\ 2 + 1 = 3
      BY <1>2, <3>8
    <3>10. NextDay([year |-> yr, month |-> 2, day |-> doy - 337 + 1]) =
             IF doy - 337 + 1 < DaysIn(yr, 2) THEN [year |-> yr, month |-> 2, day |-> (doy - 337 + 1) + 1]
             ELSE IF 2 < 12 THEN [year |-> yr, month |-> 2 + 1, day |-> 1]
             ELSE [year |-> yr + 1, month |-> 1, day |-> 1]
      BY NextDayOf
    <3>11. NextDay([year |-> yr, month |-> 2, day |-> doy - 337 + 1]) = [year |-> yr, month |-> 3, day |-> 1]
      BY <3>9, <3>10
    <3> QED
      BY <2>5, <3>7, <3>11
  <2>8. CASE y = 399 /\ ~(b + doy + 1 <= 146096)
    <3>1. b = 145731 /\ doy = 365
      BY <1>2, <2>4, <2>8
    <3>2. 0 < DaysBefore(0 + 1) /\ DaysBefore(0 + 1) = 365
      BY DEF DaysBefore
    <3>3. InMonth(0, 0, 0)
      BY <1>7, <2>1, <3>2 DEF InMonth
    <3>4. Placed(d + 1, era + 1, 0, 0, 0)
      BY <1>2, <1>3, <1>7, <3>1, <3>3 DEF Placed
    <3>5. YearNumber(era + 1, 0, 0) = yr /\ MonthNumber(0) = 3 /\ 0 - MonthStart(0) + 1 = 1
      BY <1>2, <2>1, <2>8 DEF MonthNumber, YearNumber
    <3>6. DaysToYmd(d + 1) = [year |-> yr, month |-> 3, day |-> 1]
      BY <3>4, <3>5, DateOf
    <3>7. doy - 337 + 1 = DaysIn(yr, 2)
      BY <2>3, <2>8, <3>1
    <3>8. ~(doy - 337 + 1 < DaysIn(yr, 2)) /\ 2 < 12 /\ 2 + 1 = 3
      BY <1>2, <3>7
    <3>10. NextDay([year |-> yr, month |-> 2, day |-> doy - 337 + 1]) =
             IF doy - 337 + 1 < DaysIn(yr, 2) THEN [year |-> yr, month |-> 2, day |-> (doy - 337 + 1) + 1]
             ELSE IF 2 < 12 THEN [year |-> yr, month |-> 2 + 1, day |-> 1]
             ELSE [year |-> yr + 1, month |-> 1, day |-> 1]
      BY NextDayOf
    <3>11. NextDay([year |-> yr, month |-> 2, day |-> doy - 337 + 1]) = [year |-> yr, month |-> 3, day |-> 1]
      BY <3>8, <3>10
    <3> QED
      BY <2>5, <3>6, <3>11
  <2>9. y < 399 \/ y = 399
    BY <1>2
  <2> QED
    BY <1>2, <2>2, <2>4, <2>6, <2>7, <2>8, <2>9, <1>7
<1> QED
  BY <1>2, <1>8, <1>9, <1>10

\* format_iso8601_seconds: one more second is the next timestamp.
THEOREM NextSecondIsNext ==
  ASSUME NEW s \in Int
  PROVE  Timestamp(s + 1) = NextSecond(Timestamp(s))
<1>1. PICK d \in Int : d = s \div 86400
  OBVIOUS
<1>2. PICK t \in Int : t = s % 86400 /\ s = 86400 * d + t /\ 0 <= t /\ t < 86400
  BY <1>1
<1>3. PICK n \in Int : n = t \div 60 /\ 60 * n <= t /\ t < 60 * n + 60
  OBVIOUS
<1>4. PICK h \in Int : h = t \div 3600 /\ 3600 * h <= t /\ t < 3600 * h + 3600
  OBVIOUS
<1>5. PICK sec \in Int : sec = t - 60 * n /\ t % 60 = sec
  BY <1>3
<1>6. PICK min \in Int : min = n - 60 * h /\ n % 60 = min
  BY <1>3, <1>4
<1>7. Timestamp(s) = [date |-> DaysToYmd(d), hour |-> h, minute |-> min, second |-> sec]
  BY <1>1, <1>2, <1>3, <1>4, <1>5, <1>6 DEF Timestamp
<1>8. NextSecond(Timestamp(s)) =
         IF sec < 59 THEN [date |-> DaysToYmd(d), hour |-> h, minute |-> min, second |-> sec + 1]
         ELSE IF min < 59 THEN [date |-> DaysToYmd(d), hour |-> h, minute |-> min + 1, second |-> 0]
         ELSE IF h < 23 THEN [date |-> DaysToYmd(d), hour |-> h + 1, minute |-> 0, second |-> 0]
         ELSE [date |-> NextDay(DaysToYmd(d)), hour |-> 0, minute |-> 0, second |-> 0]
  <2>1. PICK date : date = DaysToYmd(d)
    OBVIOUS
  <2>2. NextSecond([date |-> date, hour |-> h, minute |-> min, second |-> sec]) =
          IF sec < 59 THEN [date |-> date, hour |-> h, minute |-> min, second |-> sec + 1]
          ELSE IF min < 59 THEN [date |-> date, hour |-> h, minute |-> min + 1, second |-> 0]
          ELSE IF h < 23 THEN [date |-> date, hour |-> h + 1, minute |-> 0, second |-> 0]
          ELSE [date |-> NextDay(date), hour |-> 0, minute |-> 0, second |-> 0]
    BY NextSecondOf
  <2> QED
    BY <1>7, <2>1, <2>2
<1>9. CASE t + 1 < 86400
  <2>1. (s + 1) \div 86400 = d /\ (s + 1) % 86400 = t + 1
    BY <1>2, <1>9
  <2>2. PICK n1 \in Int : n1 = (t + 1) \div 60 /\ 60 * n1 <= t + 1 /\ t + 1 < 60 * n1 + 60
    OBVIOUS
  <2>3. PICK h1 \in Int : h1 = (t + 1) \div 3600 /\ 3600 * h1 <= t + 1 /\ t + 1 < 3600 * h1 + 3600
    OBVIOUS
  <2>4. (t + 1) % 60 = t + 1 - 60 * n1 /\ n1 % 60 = n1 - 60 * h1
    BY <2>2, <2>3
  <2>5. Timestamp(s + 1) = [date |-> DaysToYmd(d), hour |-> h1, minute |-> n1 - 60 * h1, second |-> t + 1 - 60 * n1]
    BY <2>1, <2>2, <2>3, <2>4 DEF Timestamp
  <2>6. CASE sec < 59
    <3>1. h1 = h /\ n1 - 60 * h1 = min /\ t + 1 - 60 * n1 = sec + 1
      BY <1>3, <1>4, <1>5, <1>6, <2>2, <2>3, <2>6
    <3>2. Timestamp(s + 1) = [date |-> DaysToYmd(d), hour |-> h, minute |-> min, second |-> sec + 1]
      BY <2>5, <3>1
    <3> QED
      BY <1>8, <2>6, <3>2
  <2>7. CASE sec = 59 /\ min < 59
    <3>1. h1 = h /\ n1 - 60 * h1 = min + 1 /\ t + 1 - 60 * n1 = 0
      BY <1>3, <1>4, <1>5, <1>6, <2>2, <2>3, <2>7
    <3>2. Timestamp(s + 1) = [date |-> DaysToYmd(d), hour |-> h, minute |-> min + 1, second |-> 0]
      BY <2>5, <3>1
    <3>3. ~(sec < 59)
      BY <2>7
    <3> QED
      BY <1>8, <2>7, <3>2, <3>3
  <2>8. CASE sec = 59 /\ min = 59
    <3>1. h1 = h + 1 /\ n1 - 60 * h1 = 0 /\ t + 1 - 60 * n1 = 0 /\ h < 23
      BY <1>3, <1>4, <1>5, <1>6, <1>9, <2>2, <2>3, <2>8
    <3>2. Timestamp(s + 1) = [date |-> DaysToYmd(d), hour |-> h + 1, minute |-> 0, second |-> 0]
      BY <2>5, <3>1
    <3>3. ~(sec < 59) /\ ~(min < 59)
      BY <2>8
    <3> QED
      BY <1>8, <3>1, <3>2, <3>3
  <2> QED
    BY <1>3, <1>4, <1>5, <1>6, <2>6, <2>7, <2>8
<1>10. CASE t = 86399
  <2>1. (s + 1) \div 86400 = d + 1 /\ (s + 1) % 86400 = 0
    BY <1>2, <1>10
  <2>2. h = 23 /\ min = 59 /\ sec = 59
    BY <1>3, <1>4, <1>5, <1>6, <1>10
  <2>3. Timestamp(s + 1) = [date |-> DaysToYmd(d + 1), hour |-> 0, minute |-> 0, second |-> 0]
    BY <2>1 DEF Timestamp
  <2>4. ~(sec < 59) /\ ~(min < 59) /\ ~(h < 23)
    BY <2>2
  <2>5. DaysToYmd(d + 1) = NextDay(DaysToYmd(d))
    BY NextDayIsNext
  <2> QED
    BY <1>8, <2>3, <2>4, <2>5
<1> QED
  BY <1>2, <1>9, <1>10

\* Property CalendarAgrees, for whatever days and seconds are looked at.
THEOREM CalendarIsKept == Spec => []CalendarAgrees
<1>1. NowIso8601(0) = Epoch
  BY DEF NowIso8601, Timestamp, DaysToYmd, Yoe, Epoch
<1>2. \A d \in Day : DaysToYmd(d + 1) = NextDay(DaysToYmd(d))
  BY NextDayIsNext, ClockAssumption
<1>3. \A s \in Second : Timestamp(s + 1) = NextSecond(Timestamp(s))
  BY NextSecondIsNext, ClockAssumption
<1>4. CalendarKept
  BY <1>1, <1>2, <1>3 DEF CalendarKept
<1>5. CalendarAgrees
  BY <1>4 DEF CalendarAgrees
<1> QED
  BY <1>5, PTL
=============================================================================
