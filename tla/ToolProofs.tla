----------------------------- MODULE ToolProofs -----------------------------
(***************************************************************************)
(* Theorems about ToolCalls, for every number of calls, and every timeout, *)
(* tick, bound and allowlist: when a guest is interrupted, what it gets,   *)
(* what it sends, what the record says of it, what is handed on; and for   *)
(* every string and every address, what a glob matches and which addresses *)
(* are refused.                                                            *)
(***************************************************************************)
EXTENDS ToolCalls, FoldLemmas

-----------------------------------------------------------------------------
(* The inductive invariant.                                                *)

\* How long a call has run at least, once it has lived through a tick: the first
\* one may have been under way when the call began, each later one took Tick.
Matured(c) ==
  \/ ticks[c] = EpochDeadline
  \/ age[c] = Timeout
  \/ age[c] >= (EpochDeadline - ticks[c] - 1) * Tick + slept

ClockInv ==
  /\ DOMAIN status = Call
  /\ DOMAIN result = Call
  /\ DOMAIN ticks = Call
  /\ DOMAIN age = Call
  /\ slept \in 0 .. Tick
  /\ \A c \in Call :
       /\ ticks[c] \in 0 .. EpochDeadline
       /\ age[c] \in 0 .. Timeout
       /\ Running(c) => Matured(c)

LEMMA DeadlineType == EpochDeadline \in Nat \ {0}
  BY WasmAssumption DEF EpochDeadline

\* A guest does not turn the clock, except at its beginning and at its end.
BeginStep(c) ==
  /\ status[c] = "idle"
  /\ status' = [status EXCEPT ![c] = "guest"]
  /\ ticks' = [ticks EXCEPT ![c] = EpochDeadline]
  /\ UNCHANGED <<age, result, slept>>

HostStep(c) ==
  /\ Running(c)
  /\ \E s \in {"guest", "fetching", "waiting"} : status' = [status EXCEPT ![c] = s]
  /\ UNCHANGED <<ticks, age, result, slept>>

EndStep(c) ==
  /\ status[c] = "guest"
  /\ status' = [status EXCEPT ![c] = "done"]
  /\ ticks' = [ticks EXCEPT ![c] = 0]
  /\ age' = [age EXCEPT ![c] = 0]
  /\ UNCHANGED slept
  /\ \/ result' = [result EXCEPT ![c] = Err("timeout")] /\ ticks[c] = 0
     \/ \E r : result' = [result EXCEPT ![c] = r] /\ r.kind # "timeout"

Still == UNCHANGED <<status, ticks, age, result, slept>>

LEMMA GuestSteps ==
  ASSUME ClockInv, NEW c \in Call, GuestStep(c)
  PROVE  Still \/ BeginStep(c) \/ HostStep(c) \/ EndStep(c)
<1>1. CASE Begin(c)
  BY <1>1 DEF Begin, BeginStep
<1>2. CASE Grow(c) \/ SecretExists(c)
  BY <1>2 DEF Grow, SecretExists, limits, Still
<1>3. CASE HttpFetch(c)
  BY <1>3 DEF HttpFetch, CallsHost, limits, HostStep, Running, Still
<1>4. CASE Answer(c) \/ TransportFails(c) \/ Wait(c) \/ Wake(c)
  BY <1>4 DEF Answer, TransportFails, Wait, Wake, limits, HostStep, Running
<1>5. CASE Return(c) \/ Fail(c)
  <2>1. PICK r : Finish(c, r) /\ r.kind # "timeout"
    <3>1. CASE Return(c)
      <4>1. PICK bytes \in Output : Finish(c, Ok(bytes, FirstUses(asked[c])))
        BY <3>1 DEF Return
      <4>2. Ok(bytes, FirstUses(asked[c])).kind = "ok"
        BY DEF Ok
      <4> QED
        BY <4>1, <4>2
    <3>2. CASE Fail(c)
      BY <3>2 DEF Fail, Err
    <3> QED
      BY <1>5, <3>1, <3>2
  <2> QED
    BY <2>1 DEF Finish, EndStep
<1>6. CASE Interrupt(c)
  BY <1>6 DEF Interrupt, Finish, EndStep
<1> QED
  BY <1>1, <1>2, <1>3, <1>4, <1>5, <1>6 DEF GuestStep

LEMMA StepsSummarized ==
  ASSUME ClockInv, [TNext]_tvars
  PROVE  \/ Still
         \/ \E c \in Call : BeginStep(c) \/ HostStep(c) \/ EndStep(c)
         \/ Advance
         \/ TickerWakes
<1>1. ASSUME NEW c \in Call, RecordExecution(c)
      PROVE  Still
  BY <1>1 DEF RecordExecution, wvars, limits, Still
<1>2. CASE UNCHANGED tvars
  BY <1>2 DEF tvars, wvars, limits, Still
<1> QED
  BY <1>1, <1>2, GuestSteps DEF TNext

-----------------------------------------------------------------------------
LEMMA ClockInit == TInit => ClockInv
  BY WasmAssumption, DeadlineType DEF TInit, WInit, ClockInv, Running

LEMMA ClockStep == ClockInv /\ [TNext]_tvars => ClockInv'
<1> SUFFICES ASSUME ClockInv, [TNext]_tvars PROVE ClockInv'
  OBVIOUS
<1> USE WasmAssumption, DeadlineType
<1>1. CASE Still
  BY <1>1 DEF Still, ClockInv, Running, Matured, EpochDeadline
<1>2. ASSUME NEW c \in Call, BeginStep(c)
      PROVE  ClockInv'
  BY <1>2 DEF BeginStep, ClockInv, Running, Matured
<1>3. ASSUME NEW c \in Call, HostStep(c)
      PROVE  ClockInv'
  BY <1>3 DEF HostStep, ClockInv, Running, Matured
<1>4. ASSUME NEW c \in Call, EndStep(c)
      PROVE  ClockInv'
  BY <1>4 DEF EndStep, ClockInv, Running, Matured
<1>5. CASE Advance
  <2> SUFFICES ASSUME NEW c \in Call
               PROVE  /\ age'[c] \in 0 .. Timeout
                      /\ Running(c) => Matured(c)'
    BY <1>5 DEF Advance, ClockInv, Running
  <2> DEFINE lived == (EpochDeadline - ticks[c] - 1) * Tick
  <2>1. lived \in Int
    BY DEF ClockInv
  <2>2. age'[c] = IF Running(c) /\ age[c] < Timeout THEN age[c] + 1 ELSE age[c]
    BY <1>5 DEF Advance
  <2>3. slept' \in {slept, slept + 1}
    BY <1>5 DEF Advance
  <2>4. age[c] >= lived + slept /\ age'[c] = age[c] + 1 => age'[c] >= lived + slept'
    <3> HIDE DEF lived
    <3> QED
      BY <2>1, <2>3 DEF ClockInv
  <2> QED
    BY <1>5, <2>2, <2>4 DEF Advance, ClockInv, Matured
<1>6. CASE TickerWakes
  <2> SUFFICES ASSUME NEW c \in Call
               PROVE  /\ ticks'[c] \in 0 .. EpochDeadline
                      /\ Running(c) => Matured(c)'
    BY <1>6 DEF TickerWakes, ClockInv, Running
  <2>1. slept = Tick /\ slept' = 0 /\ age' = age
    BY <1>6 DEF TickerWakes
  <2>2. ticks'[c] = IF Running(c) /\ ticks[c] > 0 THEN ticks[c] - 1 ELSE ticks[c]
    BY <1>6 DEF TickerWakes, ClockInv
  <2>3. ticks'[c] \in 0 .. EpochDeadline
    BY <2>2 DEF ClockInv
  <2>4. ASSUME Running(c)
        PROVE  Matured(c)'
    <3> DEFINE elapsed == EpochDeadline - ticks[c]
    <3>1. elapsed \in Nat /\ age[c] \in Nat
      BY DEF ClockInv
    <3>2. (elapsed - 1) * Tick + Tick = elapsed * Tick
      BY <3>1
    <3>3. CASE ticks[c] = EpochDeadline
      <4>1. ticks'[c] = EpochDeadline - 1
        BY <2>2, <2>4, <3>3
      <4>2. (EpochDeadline - ticks'[c] - 1) * Tick = 0
        BY <4>1
      <4> QED
        BY <2>1, <3>1, <4>2 DEF Matured
    <3>4. CASE age[c] = Timeout
      BY <2>1, <3>4 DEF Matured
    <3>5. CASE age[c] >= (elapsed - 1) * Tick + slept
      <4>1. age[c] >= elapsed * Tick
        BY <2>1, <3>2, <3>5
      <4>2. ticks[c] > 0 => EpochDeadline - ticks'[c] - 1 = elapsed
        BY <2>2, <2>4 DEF ClockInv
      <4>3. ticks[c] = 0 => EpochDeadline - ticks'[c] - 1 = elapsed - 1
        BY <2>2 DEF ClockInv
      <4>4. (elapsed - 1) * Tick \in Int /\ elapsed * Tick \in Int
        BY <3>1
      <4>5. (elapsed - 1) * Tick <= elapsed * Tick
        BY <3>2, <4>4
      <4>6. age[c] >= (EpochDeadline - ticks'[c] - 1) * Tick
        <5>1. CASE ticks[c] > 0
          BY <4>1, <4>2, <5>1
        <5>2. CASE ticks[c] = 0
          BY <3>1, <4>1, <4>3, <4>4, <4>5, <5>2
        <5> QED
          BY <5>1, <5>2 DEF ClockInv
      <4>7. (EpochDeadline - ticks'[c] - 1) * Tick \in Int
        BY <2>3
      <4> QED
        BY <2>1, <4>6, <4>7 DEF Matured
    <3> QED
      BY <2>4, <3>3, <3>4, <3>5 DEF ClockInv, Matured
  <2> QED
    BY <2>3, <2>4
<1> QED
  BY <1>1, <1>2, <1>3, <1>4, <1>5, <1>6, StepsSummarized

\* If the tick divides the timeout, no call is interrupted more than one tick before
\* its timeout, however late the ticker is and whenever the call began (epoch_deadline
\* and EpochTicker).
THEOREM InterruptedInTime ==
  ASSUME Timeout <= EpochDeadline * Tick
  PROVE  TSpec => NotInterruptedEarly
<1> DEFINE InTime ==
      \A c \in Call : result[c] = None /\ result'[c] = Err("timeout") => age[c] + Tick >= Timeout
<1>1. ClockInv /\ [TNext]_tvars => InTime
  <2> SUFFICES ASSUME ClockInv, [TNext]_tvars,
                      NEW c \in Call, result[c] = None, result'[c] = Err("timeout")
               PROVE  age[c] + Tick >= Timeout
    OBVIOUS
  <2>1. Err("timeout") # None
    BY WasmAssumption DEF Err
  <2>2. EndStep(c) /\ ticks[c] = 0
    <3>1. CASE Still
      BY <2>1, <3>1 DEF Still
    <3>2. CASE Advance \/ TickerWakes
      BY <2>1, <3>2 DEF Advance, TickerWakes
    <3>3. ASSUME NEW d \in Call, BeginStep(d) \/ HostStep(d)
          PROVE  FALSE
      BY <2>1, <3>3 DEF BeginStep, HostStep
    <3>4. ASSUME NEW d \in Call, EndStep(d)
          PROVE  EndStep(c) /\ ticks[c] = 0
      <4>1. d = c
        BY <2>1, <3>4 DEF EndStep, ClockInv
      <4>2. CASE ticks[d] = 0
        BY <3>4, <4>1, <4>2
      <4>3. ASSUME NEW r, result' = [result EXCEPT ![d] = r], r.kind # "timeout"
            PROVE  FALSE
        <5>1. r = Err("timeout")
          BY <4>1, <4>3 DEF ClockInv
        <5> QED
          BY <4>3, <5>1 DEF Err
      <4> QED
        BY <3>4, <4>2, <4>3, <4>1 DEF EndStep
    <3> QED
      BY <3>1, <3>2, <3>3, <3>4, StepsSummarized
  <2>3. Running(c)
    BY <2>2 DEF EndStep, Running
  <2>4. age[c] = Timeout \/ age[c] >= (EpochDeadline - 1) * Tick + slept
    BY <2>2, <2>3, DeadlineType DEF ClockInv, Matured
  <2>5. (EpochDeadline - 1) * Tick + Tick = EpochDeadline * Tick
    BY DeadlineType, WasmAssumption
  <2>6. (EpochDeadline - 1) * Tick \in Int /\ EpochDeadline * Tick \in Int
    BY DeadlineType, WasmAssumption
  <2> QED
    BY <2>4, <2>5, <2>6, WasmAssumption DEF ClockInv
<1>2. TSpec => []ClockInv
  BY ClockInit, ClockStep, PTL DEF TSpec
<1> QED
  BY <1>1, <1>2, PTL DEF TSpec, NotInterruptedEarly

-----------------------------------------------------------------------------
(* What guests get.                                                        *)

BodiesInv == DOMAIN bodies = Call /\ BodiesAreWhole

\* Reading one octet past the bound tells a body that is too long from one that is
\* not: what is delivered has the length that was sent.
LEMMA ReadWhole ==
  ASSUME NEW length \in Nat
  PROVE  BodyRead(length) = None \/ (BodyRead(length) = length /\ length <= MaxBody)
  BY HttpAssumption DEF BodyRead

\* Whatever the servers send, no guest of any call is given part of a body for the
\* whole of it, nor one beyond the bound (tools-http call, step 8).
THEOREM BodiesStayWhole == TSpec => []BodiesAreWhole
<1>1. TInit => BodiesInv
  BY DEF TInit, WInit, BodiesInv, BodiesAreWhole
<1>2. BodiesInv /\ [TNext]_tvars => BodiesInv'
  <2> SUFFICES ASSUME BodiesInv, [TNext]_tvars PROVE BodiesInv'
    OBVIOUS
  <2>1. CASE UNCHANGED bodies
    BY <2>1 DEF BodiesInv, BodiesAreWhole
  <2>2. ASSUME NEW c \in Call, Answer(c)
        PROVE  BodiesInv'
    <3>1. PICK length \in MaxBody .. MaxBody + 2 :
            IF BodyRead(length) = None
            THEN UNCHANGED bodies
            ELSE bodies' = [bodies EXCEPT ![c] = @ \cup {<<length, BodyRead(length)>>}]
      BY <2>2 DEF Answer
    <3>2. length \in Nat
      BY HttpAssumption
    <3>3. CASE BodyRead(length) = None
      BY <2>1, <3>1, <3>3
    <3>4. CASE BodyRead(length) # None
      BY <3>1, <3>2, <3>4, ReadWhole DEF BodiesInv, BodiesAreWhole
    <3> QED
      BY <3>3, <3>4
  <2>3. ASSUME NEW c \in Call, GuestStep(c)
        PROVE  UNCHANGED bodies \/ Answer(c)
    BY <2>3 DEF GuestStep, Begin, Grow, SecretExists, HttpFetch, TransportFails, Wait, Wake,
                Return, Fail, Interrupt, Finish, collected
  <2>4. CASE Advance \/ TickerWakes \/ \E c \in Call : RecordExecution(c)
    BY <2>1, <2>4 DEF Advance, TickerWakes, RecordExecution, wvars, collected
  <2>5. CASE UNCHANGED tvars
    BY <2>1, <2>5 DEF tvars, wvars, collected
  <2> QED
    BY <2>1, <2>2, <2>3, <2>4, <2>5 DEF TNext
<1>3. BodiesInv => BodiesAreWhole
  BY DEF BodiesInv
<1> QED
  BY <1>1, <1>2, <1>3, PTL DEF TSpec

-----------------------------------------------------------------------------
(* The ABI of core modules, for words of every size.                       *)

\* A number determines its quotient and its remainder.
LEMMA DivisionUnique ==
  ASSUME NEW W \in Nat \ {0}, NEW q \in Int, NEW r \in 0 .. W - 1
  PROVE  (q * W + r) \div W = q /\ (q * W + r) % W = r
<1>1. PICK a \in Int : a = q * W
  OBVIOUS
<1>2. PICK u \in Int : u = a + r
  BY <1>1
<1>3. PICK p \in Int : p = u \div W
  BY <1>2
<1>4. PICK b \in Int : b = p * W
  OBVIOUS
<1>5. PICK m \in 0 .. W - 1 : m = u % W
  BY <1>2
<1>6. u = b + m
  BY <1>2, <1>3, <1>4, <1>5
<1>7. PICK d \in Int : d = q - p
  OBVIOUS
<1>8. PICK e \in Int : e = d * W
  OBVIOUS
<1>9. a = b + e
  BY <1>1, <1>4, <1>7, <1>8
<1>10. (d >= 1 => e >= W) /\ (d <= -1 => e <= -W)
  BY <1>7, <1>8
<1>11. d = 0 /\ e = 0
  BY <1>2, <1>6, <1>8, <1>9, <1>10
<1> QED
  BY <1>1, <1>2, <1>3, <1>5, <1>6, <1>7, <1>9, <1>11

\* What Packed packs is a number of two words, which AsUnsigned restores.
LEMMA PackedRestored ==
  ASSUME NEW at \in 0 .. Word - 1, NEW length \in 0 .. Word - 1
  PROVE  AsUnsigned(Packed(at, length)) = at * Word + length
<1> USE WasmAssumption
<1>1. PICK u \in Int : u = at * Word + length
  OBVIOUS
<1>2. PICK W \in Nat : W = Word * Word
  OBVIOUS
<1>3. u \in 0 .. W - 1
  <2>1. PICK low \in Nat : low = at * Word
    OBVIOUS
  <2>2. PICK top \in Nat : top = (Word - 1) * Word
    OBVIOUS
  <2>3. low <= top
    <3>1. PICK d \in Nat : d = Word - 1 - at
      OBVIOUS
    <3>2. PICK e \in Nat : e = d * Word
      OBVIOUS
    <3>3. top = low + e
      BY <2>1, <2>2, <3>1, <3>2
    <3> QED
      BY <3>3
  <2>4. top + Word = W
    BY <1>2, <2>2
  <2> QED
    BY <1>1, <2>1, <2>3, <2>4
<1>4. W \in Nat \ {0}
  BY <1>3
<1>5. u % W = u /\ (u - W) % W = u
  <2>1. (0 * W + u) % W = u
    BY <1>3, <1>4, DivisionUnique
  <2>2. (-1 * W + u) % W = u
    BY <1>3, <1>4, DivisionUnique
  <2>3. 0 * W + u = u /\ -1 * W + u = u - W
    BY <1>1, <1>2
  <2> QED
    BY <2>1, <2>2, <2>3
<1>6. Packed(at, length) \in {u, u - W}
  BY <1>1, <1>2 DEF Packed
<1> QED
  BY <1>1, <1>2, <1>5, <1>6 DEF AsUnsigned

LEMMA InputIsSequence ==
  ASSUME NEW input \in Inputs
  PROVE  Len(input) \in Nat /\ input = [i \in 1 .. Len(input) |-> input[i]]
<1>1. CASE input = << >>
  BY <1>1
<1>2. CASE input \in Output
  BY <1>2, WasmAssumption
<1>3. ASSUME NEW a \in Output, NEW b \in Output, input = a \o b
      PROVE  Len(input) \in Nat /\ input = [i \in 1 .. Len(input) |-> input[i]]
  <2>1. PICK A : A = Range(a)
    OBVIOUS
  <2>2. PICK B : B = Range(b)
    OBVIOUS
  <2>3. a \in Seq(A) /\ b \in Seq(B)
    BY <2>1, <2>2, WasmAssumption
  <2>4. a \in Seq(A \cup B) /\ b \in Seq(A \cup B)
    BY <2>3
  <2>5. input \in Seq(A \cup B)
    BY <1>3, <2>4
  <2> QED
    BY <2>5
<1> QED
  BY <1>1, <1>2, <1>3 DEF Inputs

\* The range of an input that was written is the input.
LEMMA WrittenIsRead ==
  ASSUME NEW input \in Inputs, NEW size \in Nat, NEW at \in Nat,
         at + Len(input) <= size
  PROVE  SubSeq(Written([i \in 1 .. size |-> Invalid], at, input), at + 1, at + Len(input)) = input
<1>1. PICK n \in Nat : n = Len(input)
  BY InputIsSequence
<1>2. PICK w : w = Written([i \in 1 .. size |-> Invalid], at, input)
  OBVIOUS
<1>3. \A i \in 1 .. n : w[i + at] = input[i]
  BY <1>1, <1>2 DEF Written
<1>4. SubSeq(w, at + 1, at + n) = [i \in 1 .. n |-> input[i]]
  <2>1. SubSeq(w, at + 1, at + n) = [i \in 1 .. (at + n) - (at + 1) + 1 |-> w[i + (at + 1) - 1]]
    OBVIOUS
  <2>2. 1 .. (at + n) - (at + 1) + 1 = 1 .. n
    BY <1>1
  <2>3. \A i \in 1 .. n : w[i + (at + 1) - 1] = input[i]
    <3> TAKE i \in 1 .. n
    <3>1. i + (at + 1) - 1 = i + at
      OBVIOUS
    <3> QED
      BY <1>3, <3>1
  <2> QED
    BY <2>1, <2>2, <2>3
<1> QED
  BY <1>1, <1>2, <1>4, InputIsSequence

\* Every range that a core guest packs is the one the host reads, whatever the sign of
\* the number it is packed into, and an echo of the input is the input
\* (WasmTool::call_core).
THEOREM OutputRangeIsExact == TSpec => []CoreOutputExact
<1>1. ASSUME NEW at \in 0 .. Word - 1, NEW length \in 0 .. Word - 1, NEW size \in 0 .. 2 * Word
      PROVE  OutputRange(Packed(at, length), size) =
               IF at + length <= size THEN <<at, length>> ELSE None
  <2>1. AsUnsigned(Packed(at, length)) = at * Word + length
    BY PackedRestored
  <2>2. (at * Word + length) \div Word = at /\ (at * Word + length) % Word = length
    <3>1. Word \in Nat \ {0} /\ at \in Int
      BY WasmAssumption
    <3> QED
      BY <3>1, DivisionUnique
  <2> QED
    BY <2>1, <2>2 DEF OutputRange
<1>2. ASSUME NEW input \in Inputs, NEW at \in -(Word \div 2) .. Word \div 2 - 1,
             NEW size \in 0 .. 2 * Word
      PROVE  CoreCall(input, [i \in 1 .. size |-> Invalid], at, Packed(at, Len(input))) =
               IF 2 * Len(input) < Word /\ at \in 0 .. size - Len(input)
               THEN Ok(input, << >>) ELSE Err("failed")
  <2> DEFINE mem == [i \in 1 .. size |-> Invalid]
             packed == Packed(at, Len(input))
             fits == 2 * Len(input) < Word /\ at \in 0 .. size - Len(input)
  <2>1. Len(mem) = size
    <3>1. mem \in Seq({Invalid})
      OBVIOUS
    <3> QED
      BY <3>1
  <2>2. PICK n \in Nat : n = Len(input)
    BY InputIsSequence
  <2>3. Word \in Nat \ {0} /\ Word \div 2 \in Nat /\ Word \div 2 <= Word
    BY WasmAssumption
  <2>4. CASE fits
    <3>1. at \in 0 .. Word - 1 /\ n \in 0 .. Word - 1
      BY <2>2, <2>3, <2>4
    <3>2. OutputRange(packed, Len(mem)) = <<at, n>>
      BY <1>1, <2>1, <2>2, <2>4, <3>1
    <3>3. <<at, n>> # None
      BY <2>2, <3>1, WasmAssumption
    <3>4. ~(2 * n >= Word \/ at < 0 \/ at + n > Len(mem))
      BY <2>1, <2>2, <2>3, <2>4
    <3>5. CoreCall(input, mem, at, packed)
            = Ok(SubSeq(Written(mem, at, input), at + 1, at + n), << >>)
      BY <2>2, <3>2, <3>3, <3>4 DEF CoreCall
    <3>6. SubSeq(Written(mem, at, input), at + 1, at + n) = input
      <4>1. at \in Nat /\ size \in Nat /\ at + Len(input) <= size
        BY <2>2, <2>4, <3>1
      <4> QED
        BY <2>2, <4>1, WrittenIsRead
    <3> QED
      BY <2>4, <3>5, <3>6
  <2>5. CASE ~fits
    <3>1. 2 * n >= Word \/ at < 0 \/ at + n > Len(mem)
      BY <2>1, <2>2, <2>3, <2>5
    <3>2. CoreCall(input, mem, at, packed) = Err("failed")
      BY <2>2, <3>1 DEF CoreCall
    <3> QED
      BY <2>5, <3>2
  <2> QED
    BY <2>4, <2>5
<1>3. CoreOutputExact
  BY <1>1, <1>2 DEF CoreOutputExact
<1> QED
  BY <1>3, PTL

-----------------------------------------------------------------------------
(* FirstUses is a fold that goes through the names.                        *)

Kept(seen, n) == IF Contains(seen, n) THEN seen ELSE Append(seen, n)

LEMMA FirstUsesFold ==
  ASSUME NEW S, NEW names \in Seq(S)
  PROVE  \E h : /\ h[0] = << >>
                /\ \A n \in 1 .. Len(names) : h[n] = Kept(h[n - 1], names[n])
                /\ FirstUses(names) = h[Len(names)]
<1>1. PICK N \in Nat : N = Len(names) /\ DOMAIN names = 1 .. N
  OBVIOUS
<1>2. PICK pick : pick = [s \in (SUBSET (1 .. N)) \ {{}} |-> CHOOSE x \in s : \A y \in s : x >= y]
  OBVIOUS
<1>3. \A s \in (SUBSET (1 .. N)) \ {{}} : pick[s] = Max(s)
  BY <1>2 DEF Max
<1>4. Latest(pick, N)
  BY <1>2, LatestExists
<1>5. PICK step : step = [n \in 1 .. N |-> [seen \in Seq(S) |-> Kept(seen, names[n])]]
  OBVIOUS
<1>6. Steps(step, 1 .. N, Seq(S))
  BY <1>1, <1>5 DEF Steps, Kept
<1>7. << >> \in Seq(S)
  OBVIOUS
<1>8. HasFold(1 .. N, Seq(S), << >>, pick, step)
  BY <1>4, <1>6, <1>7, LatestFold
<1>9. PICK g \in [SUBSET (1 .. N) -> Seq(S)] : AllFold(g, 1 .. N, << >>, pick, step)
  BY <1>8 DEF HasFold
<1> DEFINE Eq(h) == h = [s \in SUBSET (1 .. N) |->
              IF s = {} THEN << >> ELSE Kept(h[s \ {Max(s)}], names[Max(s)])]
<1>10. Eq(g)
  <2>1. ASSUME NEW s \in (SUBSET (1 .. N)) \ {{}}
        PROVE  g[s] = Kept(g[s \ {Max(s)}], names[Max(s)])
    <3>1. pick[s] = Max(s) /\ Max(s) \in 1 .. N
      BY <1>3, <1>4 DEF Latest, Picks
    <3>2. g[s] = step[Max(s)][g[s \ {Max(s)}]] /\ g[s \ {Max(s)}] \in Seq(S)
      BY <1>9, <3>1 DEF AllFold, Folds
    <3> QED
      BY <1>5, <3>1, <3>2
  <2> QED
    BY <1>9, <2>1 DEF AllFold, Folds
<1>11. PICK iter : iter = CHOOSE h : Eq(h)
  OBVIOUS
<1>12. FirstUses(names) = iter[1 .. N]
  BY <1>1, <1>11 DEF FirstUses, FoldLeft, MapThenFoldSet, Kept
<1>13. Eq(iter)
  <2> HIDE DEF Eq
  <2> QED
    BY <1>10, <1>11
<1>14. PICK h : h = [n \in 0 .. N |-> iter[1 .. n]]
  OBVIOUS
<1>15. h[0] = << >>
  <2>1. 1 .. 0 = {} /\ 0 \in 0 .. N
    OBVIOUS
  <2> QED
    BY <1>13, <1>14, <2>1
<1>16. ASSUME NEW n \in 1 .. N
       PROVE  h[n] = Kept(h[n - 1], names[n])
  <2>1. (1 .. n) \in (SUBSET (1 .. N)) \ {{}} /\ Max(1 .. n) = n /\ (1 .. n) \ {n} = 1 .. (n - 1)
    BY <1>3, <1>4, LatestOfPrefix
  <2>2. n \in 0 .. N /\ n - 1 \in 0 .. N
    OBVIOUS
  <2> QED
    BY <1>13, <1>14, <2>1, <2>2
<1>17. h[N] = iter[1 .. N]
  BY <1>14
<1> QED
  BY <1>1, <1>12, <1>15, <1>16, <1>17

Distinct(s) == \A i, j \in DOMAIN s : s[i] = s[j] => i = j

\* Every name that was used is there, each once.
LEMMA FirstUsesNames ==
  ASSUME NEW S, NEW names \in Seq(S)
  PROVE  /\ FirstUses(names) \in Seq(S)
         /\ Range(FirstUses(names)) = Range(names)
         /\ Distinct(FirstUses(names))
<1>1. PICK h :
        /\ h[0] = << >>
        /\ \A n \in 1 .. Len(names) : h[n] = Kept(h[n - 1], names[n])
        /\ FirstUses(names) = h[Len(names)]
  BY FirstUsesFold
<1> DEFINE N == Len(names)
           Good == {n \in Nat : n <= N =>
                      /\ h[n] \in Seq(S)
                      /\ Distinct(h[n])
                      /\ Range(h[n]) = {names[i] : i \in 1 .. n}}
<1>2. N \in Nat /\ DOMAIN names = 1 .. N
  OBVIOUS
<1>3. 0 \in Good
  <2>1. << >> \in Seq(S) /\ Distinct(<< >>) /\ Range(<< >>) = {}
    BY DEF Distinct, Range
  <2>2. {names[i] : i \in 1 .. 0} = {}
    OBVIOUS
  <2> QED
    BY <1>1, <2>1, <2>2
<1>4. ASSUME NEW n \in Good
      PROVE  n + 1 \in Good
  <2> SUFFICES ASSUME n + 1 <= N
               PROVE  /\ h[n + 1] \in Seq(S)
                      /\ Distinct(h[n + 1])
                      /\ Range(h[n + 1]) = {names[i] : i \in 1 .. n + 1}
    OBVIOUS
  <2>1. n \in Nat /\ n <= N /\ n \in 0 .. N /\ n + 1 \in 1 .. N /\ (n + 1) - 1 = n
    BY <1>2
  <2>2. PICK seen \in Seq(S) : seen = h[n]
    BY <1>1, <2>1
  <2>3. Distinct(seen) /\ Range(seen) = {names[i] : i \in 1 .. n}
    BY <2>1, <2>2
  <2>4. PICK name \in S : name = names[n + 1]
    BY <2>1
  <2>5. h[n + 1] = Kept(seen, name)
    BY <1>1, <2>1, <2>2, <2>4
  <2>6. {names[i] : i \in 1 .. n + 1} = {names[i] : i \in 1 .. n} \cup {name}
    <3>1. 1 .. n + 1 = (1 .. n) \cup {n + 1}
      BY <2>1
    <3> QED
      BY <2>4, <3>1
  <2>7. CASE Contains(seen, name)
    <3>1. h[n + 1] = seen
      BY <2>5, <2>7 DEF Kept
    <3>2. name \in Range(seen)
      BY <2>7 DEF Contains, Range
    <3> QED
      BY <2>3, <2>6, <3>1, <3>2
  <2>8. CASE ~Contains(seen, name)
    <3>1. h[n + 1] = Append(seen, name)
      BY <2>5, <2>8 DEF Kept
    <3>2. \A i \in 1 .. Len(seen) : seen[i] # name
      BY <2>8 DEF Contains
    <3>3. Distinct(Append(seen, name))
      <4> SUFFICES ASSUME NEW i \in 1 .. Len(seen) + 1, NEW j \in 1 .. Len(seen) + 1,
                          Append(seen, name)[i] = Append(seen, name)[j]
                   PROVE  i = j
        BY DEF Distinct
      <4>1. \A k \in 1 .. Len(seen) : Append(seen, name)[k] = seen[k]
        OBVIOUS
      <4>2. Append(seen, name)[Len(seen) + 1] = name
        OBVIOUS
      <4>3. DOMAIN seen = 1 .. Len(seen)
        OBVIOUS
      <4>4. CASE i \in 1 .. Len(seen) /\ j \in 1 .. Len(seen)
        BY <2>3, <4>1, <4>3, <4>4 DEF Distinct
      <4>5. i \in (1 .. Len(seen)) \cup {Len(seen) + 1} /\ j \in (1 .. Len(seen)) \cup {Len(seen) + 1}
        OBVIOUS
      <4>6. CASE i = Len(seen) + 1 \/ j = Len(seen) + 1
        BY <3>2, <4>1, <4>2, <4>5, <4>6
      <4> QED
        BY <4>4, <4>5, <4>6
    <3>4. Range(Append(seen, name)) = Range(seen) \cup {name}
      <4>1. \A i \in 1 .. Len(seen) : Append(seen, name)[i] = seen[i]
        OBVIOUS
      <4>2. Append(seen, name)[Len(seen) + 1] = name /\ Len(seen) \in Nat
        OBVIOUS
      <4>3. DOMAIN Append(seen, name) = (1 .. Len(seen)) \cup {Len(seen) + 1}
        BY <4>2
      <4>4. DOMAIN seen = 1 .. Len(seen)
        OBVIOUS
      <4>5. \A x : x \in Range(Append(seen, name)) <=> x \in Range(seen) \cup {name}
        BY <4>1, <4>2, <4>3, <4>4 DEF Range
      <4> QED
        BY <4>5
    <3>5. Append(seen, name) \in Seq(S)
      OBVIOUS
    <3> QED
      BY <2>3, <2>6, <3>1, <3>3, <3>4, <3>5
  <2> QED
    BY <2>7, <2>8
<1>5. Good = Nat
  <2> HIDE DEF Good
  <2>1. Good \in SUBSET Nat
    BY DEF Good
  <2> QED
    BY <1>3, <1>4, <2>1, NumberInduction
<1>6. N \in Good
  BY <1>2, <1>5
<1>7. PICK last \in Seq(S) : last = h[N]
  BY <1>2, <1>6
<1>8. Distinct(last) /\ Range(last) = {names[i] : i \in 1 .. N}
  BY <1>2, <1>6, <1>7
<1>9. Range(names) = {names[i] : i \in 1 .. N}
  BY <1>2 DEF Range
<1> QED
  BY <1>1, <1>7, <1>8, <1>9

\* A sequence without repetition is as long as the set of its elements is large.
LEMMA DistinctLength ==
  ASSUME NEW S, NEW s \in Seq(S), Distinct(s)
  PROVE  Len(s) = Cardinality(Range(s))
<1>1. s \in Bijection(1 .. Len(s), Range(s))
  <2>1. s \in [1 .. Len(s) -> Range(s)]
    BY DEF Range
  <2>2. IsInjective(s)
    BY DEF IsInjective, Distinct
  <2>3. \A x \in Range(s) : \E i \in 1 .. Len(s) : s[i] = x
    BY DEF Range
  <2> QED
    BY <2>1, <2>2, <2>3 DEF Bijection, Injection, Surjection
<1>2. ExistsBijection(1 .. Len(s), Range(s))
  BY <1>1 DEF ExistsBijection
<1>3. IsFiniteSet(1 .. Len(s)) /\ Cardinality(1 .. Len(s)) = Len(s)
  <2>1. Len(s) \in Nat /\ 1 \in Int /\ Len(s) \in Int
    OBVIOUS
  <2>2. Cardinality(1 .. Len(s)) = IF 1 > Len(s) THEN 0 ELSE Len(s) - 1 + 1
    BY <2>1, FS_Interval
  <2> QED
    BY <2>1, <2>2, FS_Interval
<1> QED
  BY <1>2, <1>3, FS_Bijection

-----------------------------------------------------------------------------
(* What the host keeps of each call.                                       *)

\* A call that waits for an answer has made a request.
CallTypes ==
  /\ TTypeOK
  /\ DOMAIN bodies = Call
  /\ DOMAIN result = Call
  /\ DOMAIN record = Call
  /\ \A c \in Call : status[c] = "fetching" => fetches[c] # << >>

\* The results that Finish is given.
Outcome(c, r) ==
  \/ \E bytes \in Output : r = Ok(bytes, FirstUses(asked[c]))
  \/ r \in {Err("failed"), Err("timeout")}

Ends(c) == \E r : Outcome(c, r) /\ Finish(c, r)

\* The steps of which only the status tells.
Rests(c) == TransportFails(c) \/ Wait(c) \/ Wake(c)

LEMMA GuestActions ==
  ASSUME NEW c \in Call, GuestStep(c)
  PROVE  \/ Begin(c) \/ Grow(c) \/ SecretExists(c) \/ HttpFetch(c) \/ Answer(c)
         \/ Rests(c) \/ Ends(c)
<1>1. ASSUME Return(c)
      PROVE  Ends(c)
  BY <1>1 DEF Return, Ends, Outcome
<1>2. ASSUME Fail(c) \/ Interrupt(c)
      PROVE  Ends(c)
  BY <1>2 DEF Fail, Interrupt, Ends, Outcome
<1> QED
  BY <1>1, <1>2 DEF GuestStep, Rests

\* No result is taken for the absence of one.
LEMMA OutcomeIsSome ==
  ASSUME CallTypes, NEW c \in Call, NEW r, Outcome(c, r)
  PROVE  r # None
<1>1. asked[c] \in Seq(Secret)
  BY DEF CallTypes, TTypeOK
<1>2. FirstUses(asked[c]) \in Seq(Secret)
  BY <1>1, FirstUsesNames
<1>3. ASSUME NEW bytes \in Output, r = Ok(bytes, FirstUses(asked[c]))
      PROVE  r \in [kind : {"ok"}, bytes : Output, used : Seq(Secret)]
  BY <1>2, <1>3 DEF Ok
<1>4. ASSUME r \in {Err("failed"), Err("timeout")}
      PROVE  r \in [kind : {"failed", "timeout"}, bytes : {<< >>}, used : {<< >>}]
  BY <1>4 DEF Err
<1> QED
  BY <1>3, <1>4, WasmAssumption DEF Outcome

LEMMA CallTypesInit == TInit => CallTypes
<1> SUFFICES ASSUME TInit PROVE CallTypes
  OBVIOUS
<1> USE WasmAssumption, DeadlineType
<1>1. << >> \in Seq(Secret) /\ << >> \in Seq(Request)
  OBVIOUS
<1>2. 0 \in 0 .. MaxMemory /\ 0 \in 0 .. EpochDeadline /\ 0 \in 0 .. Timeout /\ 0 \in 0 .. Tick
  OBVIOUS
<1> QED
  BY <1>1, <1>2 DEF TInit, WInit, CallTypes, TTypeOK

\* What is kept of a request is a request for the same secret, and that request itself
\* if it was sent.
LEMMA FetchType ==
  ASSUME NEW req \in Request
  PROVE  /\ Fetch(req) \in Request
         /\ Fetch(req).auth = req.auth
         /\ Refusal(req) = None => Fetch(req) = req
  BY DEF Fetch, Request

\* The last request of a call that waits for an answer.
LEMMA LastFetchType ==
  ASSUME CallTypes, NEW c \in Call, status[c] = "fetching"
  PROVE  /\ Len(fetches[c]) \in DOMAIN fetches[c]
         /\ LastFetch(c) \in Request
<1>1. PICK s \in Seq(Request) : s = fetches[c] /\ s # << >>
  BY DEF CallTypes, TTypeOK
<1>2. Len(s) \in 1 .. Len(s) /\ s[Len(s)] \in Request
  BY <1>1
<1> QED
  BY <1>1, <1>2 DEF LastFetch

LEMMA BodyPair ==
  ASSUME NEW length \in MaxBody .. MaxBody + 2, BodyRead(length) # None
  PROVE  <<length, BodyRead(length)>> \in Nat \X Nat
<1>1. length \in Nat
  BY HttpAssumption
<1>2. BodyRead(length) = length
  BY <1>1, ReadWhole
<1> QED
  BY <1>1, <1>2

LEMMA CallTypesStep == CallTypes /\ [TNext]_tvars => CallTypes'
<1> SUFFICES ASSUME CallTypes, [TNext]_tvars PROVE CallTypes'
  OBVIOUS
<1> USE WasmAssumption, DeadlineType
<1>1. ASSUME NEW c \in Call, Begin(c), UNCHANGED <<handed, record>>
      PROVE  CallTypes'
  <2>1. PICK size \in 0 .. MaxMemory : memory' = [memory EXCEPT ![c] = size]
    BY <1>1 DEF Begin
  <2> QED
    BY <1>1, <2>1 DEF Begin, CallTypes, TTypeOK, collected
<1>2. ASSUME NEW c \in Call, Grow(c) \/ SecretExists(c), UNCHANGED <<handed, record>>
      PROVE  CallTypes'
  <2>1. CASE Grow(c)
    BY <1>2, <2>1 DEF Grow, CallTypes, TTypeOK, collected
  <2>2. CASE SecretExists(c)
    <3>1. probed' \in [Call -> SUBSET Secret]
      BY <2>2 DEF SecretExists, CallTypes, TTypeOK
    <3> QED
      BY <1>2, <2>2, <3>1 DEF SecretExists, CallTypes, TTypeOK, limits, collected
  <2> QED
    BY <1>2, <2>1, <2>2
<1>3. ASSUME NEW c \in Call, HttpFetch(c), UNCHANGED <<handed, record>>
      PROVE  CallTypes'
  <2>1. PICK req \in Request :
          /\ fetches' = [fetches EXCEPT ![c] = Append(@, Fetch(req))]
          /\ asked' = [asked EXCEPT ![c] = IF req.auth = None THEN @ ELSE Append(@, req.auth)]
          /\ status' \in {status, [status EXCEPT ![c] = "fetching"]}
    BY <1>3 DEF HttpFetch
  <2>2. Append(fetches[c], Fetch(req)) \in Seq(Request) /\ Append(fetches[c], Fetch(req)) # << >>
    <3>1. PICK s \in Seq(Request) : s = fetches[c]
      BY DEF CallTypes, TTypeOK
    <3>2. /\ Append(s, Fetch(req)) \in Seq(Request)
          /\ Len(Append(s, Fetch(req))) = Len(s) + 1
          /\ Len(s) \in Nat
      BY FetchType
    <3>3. PICK t \in Seq(Request) : t = Append(s, Fetch(req))
      BY <3>2
    <3>4. Len(t) # 0
      BY <3>2, <3>3
    <3>5. t # << >>
      BY <3>4
    <3> QED
      BY <3>1, <3>3, <3>5
  <2>3. req.auth # None => Append(asked[c], req.auth) \in Seq(Secret)
    BY DEF CallTypes, TTypeOK, Request
  <2>4. fetches' \in [Call -> Seq(Request)] /\ asked' \in [Call -> Seq(Secret)]
    BY <2>1, <2>2, <2>3 DEF CallTypes, TTypeOK
  <2>5. \A d \in Call : status'[d] = "fetching" => fetches'[d] # << >>
    BY <2>1, <2>2 DEF CallTypes, TTypeOK
  <2>6. UNCHANGED <<limits, bodies, probed, result, slept, record>>
    BY <1>3 DEF HttpFetch
  <2>7. status' \in [Call -> {"idle", "guest", "fetching", "waiting", "done"}]
    BY <2>1 DEF CallTypes, TTypeOK
  <2>8. \A d \in Call : result[d] # None <=> status'[d] = "done"
    BY <1>3, <2>1 DEF HttpFetch, CallsHost, CallTypes, TTypeOK
  <2> QED
    BY <2>4, <2>5, <2>6, <2>7, <2>8 DEF CallTypes, TTypeOK, limits
<1>4. ASSUME NEW c \in Call, Answer(c), UNCHANGED <<handed, record>>
      PROVE  CallTypes'
  <2>1. PICK length \in MaxBody .. MaxBody + 2 :
          IF BodyRead(length) = None
          THEN UNCHANGED <<asked, bodies>>
          ELSE /\ bodies' = [bodies EXCEPT ![c] = @ \cup {<<length, BodyRead(length)>>}]
               /\ asked' = [asked EXCEPT ![c] =
                    IF LastFetch(c).auth = None THEN @ ELSE Append(@, LastFetch(c).auth)]
    BY <1>4 DEF Answer
  <2>2. LastFetch(c) \in Request
    BY <1>4, LastFetchType DEF Answer
  <2>3. LastFetch(c).auth # None => Append(asked[c], LastFetch(c).auth) \in Seq(Secret)
    BY <2>2 DEF CallTypes, TTypeOK, Request
  <2>4. asked' \in [Call -> Seq(Secret)]
    <3>1. asked \in [Call -> Seq(Secret)]
      BY DEF CallTypes, TTypeOK
    <3>2. CASE BodyRead(length) = None
      BY <2>1, <3>1, <3>2
    <3>3. CASE BodyRead(length) # None
      <4>1. PICK noted : noted = IF LastFetch(c).auth = None THEN asked[c]
                                 ELSE Append(asked[c], LastFetch(c).auth)
        OBVIOUS
      <4>2. noted \in Seq(Secret)
        BY <2>3, <3>1, <4>1
      <4>3. asked' = [asked EXCEPT ![c] = noted]
        BY <2>1, <3>3, <4>1
      <4> QED
        BY <3>1, <4>2, <4>3
    <3> QED
      BY <3>2, <3>3
  <2>5. DOMAIN bodies' = Call /\ \A d \in Call : bodies'[d] \subseteq Nat \X Nat
    <3>1. CASE BodyRead(length) = None
      BY <2>1, <3>1 DEF CallTypes, TTypeOK
    <3>2. CASE BodyRead(length) # None
      <4>1. PICK pair : pair = <<length, BodyRead(length)>> /\ pair \in Nat \X Nat
        BY <3>2, BodyPair
      <4>2. bodies' = [bodies EXCEPT ![c] = @ \cup {pair}]
        BY <2>1, <3>2, <4>1
      <4>3. \A d \in Call : bodies[d] \subseteq Nat \X Nat
        BY DEF CallTypes, TTypeOK
      <4>4. DOMAIN bodies = Call
        BY DEF CallTypes
      <4> QED
        BY <4>1, <4>2, <4>3, <4>4
    <3> QED
      BY <3>1, <3>2
  <2> QED
    BY <1>4, <2>4, <2>5 DEF Answer, CallTypes, TTypeOK, limits
<1>5. ASSUME NEW c \in Call, Rests(c), UNCHANGED <<handed, record>>
      PROVE  CallTypes'
  <2>1. PICK s \in {"guest", "waiting"} :
          /\ status' = [status EXCEPT ![c] = s]
          /\ status[c] \in {"guest", "fetching", "waiting"}
          /\ UNCHANGED <<limits, collected, probed, result, wire, slept>>
    BY <1>5 DEF Rests, TransportFails, Wait, Wake
  <2> QED
    BY <1>5, <2>1 DEF CallTypes, TTypeOK, limits, collected
<1>6. ASSUME NEW c \in Call, Ends(c), UNCHANGED <<handed, record>>
      PROVE  CallTypes'
  <2>1. PICK r : r # None /\ Finish(c, r)
    BY <1>6, OutcomeIsSome DEF Ends
  <2>2. 0 \in 0 .. MaxMemory /\ 0 \in 0 .. EpochDeadline /\ 0 \in 0 .. Timeout
    OBVIOUS
  <2> QED
    BY <1>6, <2>1, <2>2 DEF Finish, CallTypes, TTypeOK, collected
<1>7. ASSUME Advance, UNCHANGED <<handed, record>>
      PROVE  CallTypes'
  <2>1. age' \in [Call -> 0 .. Timeout]
    BY <1>7 DEF Advance, CallTypes, TTypeOK
  <2>2. slept' \in 0 .. Tick
    BY <1>7 DEF Advance, CallTypes, TTypeOK
  <2> QED
    BY <1>7, <2>1, <2>2 DEF Advance, CallTypes, TTypeOK, collected
<1>8. ASSUME TickerWakes, UNCHANGED <<handed, record>>
      PROVE  CallTypes'
  <2>1. ticks' \in [Call -> 0 .. EpochDeadline]
    BY <1>8 DEF TickerWakes, CallTypes, TTypeOK
  <2> QED
    BY <1>8, <2>1 DEF TickerWakes, CallTypes, TTypeOK, collected
<1>9. ASSUME NEW c \in Call, RecordExecution(c)
      PROVE  CallTypes'
  BY <1>9 DEF RecordExecution, CallTypes, TTypeOK, wvars, limits, collected
<1>10. CASE UNCHANGED tvars
  BY <1>10 DEF CallTypes, TTypeOK, tvars, wvars, limits, collected
<1> QED
  BY <1>1, <1>2, <1>3, <1>4, <1>5, <1>6, <1>7, <1>8, <1>9, <1>10, GuestActions DEF TNext

LEMMA CallTypesHold == TSpec => []CallTypes
  BY CallTypesInit, CallTypesStep, PTL DEF TSpec

\* Every variable keeps its type: the memory of a guest stays within the bound whatever
\* it grows, no deadline runs below zero, and a call has a result if, and only if, it has
\* ended.
THEOREM ToolTypesHold == TSpec => []TTypeOK
<1>1. CallTypes => TTypeOK
  BY DEF CallTypes
<1> QED
  BY <1>1, CallTypesHold, PTL

-----------------------------------------------------------------------------
(* Which secrets a call is charged with.                                   *)

\* The secrets that the requests of a sequence ask for.
Auths(requests) == {requests[i].auth : i \in DOMAIN requests} \ {None}

\* What the host has noted are the secrets the guest asked for, what is on the wire
\* is the value of one of them, and results and records are taken from the notes.
NotesAgree == \A c \in Call : Range(asked[c]) = Auths(fetches[c])
WireAgrees ==
  \A w \in wire : w.bearer # None => \E n \in Auths(fetches[w.call]) : w.bearer = Fetched(n)
ResultsAgree ==
  \A c \in Call : result[c] # None =>
    /\ result[c].kind \in {"ok", "failed", "timeout"}
    /\ result[c].kind = "ok" => result[c].used = FirstUses(asked[c])
RecordsAgree ==
  \A c \in Call : record[c] # None /\ record[c].error = None =>
    /\ result[c] # None
    /\ result[c].kind = "ok"
    /\ record[c].used = Range(result[c].used)

SecretsInv ==
  /\ NotesAgree
  /\ \A w \in wire : w.call \in Call
  /\ WireAgrees
  /\ ResultsAgree
  /\ RecordsAgree

LEMMA RangeAppend ==
  ASSUME NEW S, NEW s \in Seq(S), NEW x \in S
  PROVE  Range(Append(s, x)) = Range(s) \cup {x}
<1>1. \A i \in 1 .. Len(s) : Append(s, x)[i] = s[i]
  OBVIOUS
<1>2. Append(s, x)[Len(s) + 1] = x /\ Len(s) \in Nat
  OBVIOUS
<1>3. DOMAIN Append(s, x) = (1 .. Len(s)) \cup {Len(s) + 1}
  BY <1>2
<1>4. DOMAIN s = 1 .. Len(s)
  OBVIOUS
<1>5. \A y : y \in Range(Append(s, x)) <=> y \in Range(s) \cup {x}
  BY <1>1, <1>2, <1>3, <1>4 DEF Range
<1> QED
  BY <1>5

LEMMA AuthsAppend ==
  ASSUME NEW s \in Seq(Request), NEW req \in Request
  PROVE  Auths(Append(s, req)) = Auths(s) \cup ({req.auth} \ {None})
<1>1. \A i \in 1 .. Len(s) : Append(s, req)[i] = s[i]
  OBVIOUS
<1>2. Append(s, req)[Len(s) + 1] = req /\ Len(s) \in Nat
  OBVIOUS
<1>3. DOMAIN Append(s, req) = (1 .. Len(s)) \cup {Len(s) + 1}
  BY <1>2
<1>4. DOMAIN s = 1 .. Len(s)
  OBVIOUS
<1>5. \A y : y \in Auths(Append(s, req)) <=> y \in Auths(s) \cup ({req.auth} \ {None})
  BY <1>1, <1>2, <1>3, <1>4 DEF Auths
<1> QED
  BY <1>5

LEMMA SecretsInit == TInit => SecretsInv
<1> SUFFICES ASSUME TInit PROVE SecretsInv
  OBVIOUS
<1>1. Range(<< >>) = {} /\ Auths(<< >>) = {}
  BY DEF Range, Auths
<1>2. \A c \in Call : asked[c] = << >> /\ fetches[c] = << >> /\ result[c] = None /\ record[c] = None
  BY DEF TInit, WInit
<1>3. wire = {}
  BY DEF TInit, WInit
<1> QED
  BY <1>1, <1>2, <1>3 DEF SecretsInv, NotesAgree, WireAgrees, ResultsAgree, RecordsAgree

\* A call that has a result makes no more requests: the notes it was taken from stay.
LEMMA SecretsStep == CallTypes /\ SecretsInv /\ [TNext]_tvars => SecretsInv'
<1> SUFFICES ASSUME CallTypes, SecretsInv, [TNext]_tvars PROVE SecretsInv'
  OBVIOUS
<1> DEFINE Notes == UNCHANGED <<asked, fetches, wire>>
<1>1. CASE Notes /\ UNCHANGED <<result, record>>
  BY <1>1 DEF SecretsInv, NotesAgree, WireAgrees, ResultsAgree, RecordsAgree
<1>2. ASSUME NEW c \in Call, HttpFetch(c), UNCHANGED record
      PROVE  SecretsInv'
  <2>1. PICK req \in Request :
          /\ fetches' = [fetches EXCEPT ![c] = Append(@, Fetch(req))]
          /\ asked' = [asked EXCEPT ![c] = IF req.auth = None THEN @ ELSE Append(@, req.auth)]
          /\ IF Refusal(req) = None
             THEN wire' = wire \cup {[call |-> c, host |-> req.host, bearer |-> Bearer(req)]}
             ELSE wire' = wire
    BY <1>2 DEF HttpFetch
  <2>2. asked[c] \in Seq(Secret) /\ fetches[c] \in Seq(Request)
    BY DEF CallTypes, TTypeOK
  <2>3. Auths(fetches'[c]) = Auths(fetches[c]) \cup ({req.auth} \ {None})
    BY <2>1, <2>2, FetchType, AuthsAppend DEF CallTypes, TTypeOK
  <2>4. \A d \in Call \ {c} : fetches'[d] = fetches[d] /\ asked'[d] = asked[d]
    BY <2>1 DEF CallTypes, TTypeOK
  <2>5. Range(asked'[c]) = Range(asked[c]) \cup ({req.auth} \ {None})
    <3>1. CASE req.auth = None
      BY <2>1, <3>1 DEF CallTypes, TTypeOK
    <3>2. CASE req.auth # None
      <4>1. req.auth \in Secret
        BY <3>2 DEF Request
      <4>2. asked'[c] = Append(asked[c], req.auth)
        BY <2>1, <3>2 DEF CallTypes, TTypeOK
      <4> QED
        BY <2>2, <3>2, <4>1, <4>2, RangeAppend
    <3> QED
      BY <3>1, <3>2
  <2>6. NotesAgree'
    BY <2>3, <2>4, <2>5 DEF SecretsInv, NotesAgree
  <2>7. \A w \in wire' : w.call \in Call
    BY <2>1 DEF SecretsInv
  <2>8. \A d \in Call : Auths(fetches[d]) \subseteq Auths(fetches'[d])
    BY <2>3, <2>4
  <2>9. WireAgrees'
    <3> SUFFICES ASSUME NEW w \in wire', w.bearer # None
                 PROVE  \E n \in Auths(fetches'[w.call]) : w.bearer = Fetched(n)
      BY DEF WireAgrees
    <3>1. CASE w \in wire
      BY <2>8, <3>1 DEF SecretsInv, WireAgrees
    <3>2. CASE w = [call |-> c, host |-> req.host, bearer |-> Bearer(req)]
      <4>1. w.call = c /\ w.bearer = Bearer(req)
        BY <3>2
      <4>2. req.auth # None /\ w.bearer = Fetched(req.auth)
        BY <4>1 DEF Bearer
      <4> QED
        BY <2>3, <4>1, <4>2
    <3> QED
      BY <2>1, <3>1, <3>2
  <2>10. result' = result /\ result[c] = None
    BY <1>2 DEF HttpFetch, CallsHost, CallTypes, TTypeOK
  <2>11. ResultsAgree'
    BY <2>4, <2>10 DEF SecretsInv, ResultsAgree
  <2>12. RecordsAgree'
    BY <1>2, <2>10 DEF SecretsInv, RecordsAgree
  <2> QED
    BY <2>6, <2>7, <2>9, <2>11, <2>12 DEF SecretsInv
<1>3. ASSUME NEW c \in Call, Answer(c), UNCHANGED record
      PROVE  SecretsInv'
  <2>1. UNCHANGED <<fetches, wire, result>> /\ result[c] = None
    BY <1>3 DEF Answer, CallTypes, TTypeOK
  <2>2. asked' = asked \/
        asked' = [asked EXCEPT ![c] =
                    IF LastFetch(c).auth = None THEN @ ELSE Append(@, LastFetch(c).auth)]
    BY <1>3 DEF Answer
  <2>3. \A d \in Call \ {c} : asked'[d] = asked[d]
    BY <2>2 DEF CallTypes, TTypeOK
  <2>4. Range(asked'[c]) = Range(asked[c])
    <3> SUFFICES ASSUME LastFetch(c).auth # None, asked'[c] = Append(asked[c], LastFetch(c).auth)
                 PROVE  Range(asked'[c]) = Range(asked[c])
      BY <2>2 DEF CallTypes, TTypeOK
    <3>1. LastFetch(c) \in Request /\ Len(fetches[c]) \in DOMAIN fetches[c]
      BY <1>3, LastFetchType DEF Answer
    <3>2. LastFetch(c).auth \in Secret /\ asked[c] \in Seq(Secret)
      BY <3>1 DEF Request, CallTypes, TTypeOK
    <3>3. LastFetch(c).auth \in Auths(fetches[c])
      BY <3>1 DEF LastFetch, Auths
    <3>4. LastFetch(c).auth \in Range(asked[c])
      BY <3>3 DEF SecretsInv, NotesAgree
    <3>5. Range(Append(asked[c], LastFetch(c).auth)) = Range(asked[c]) \cup {LastFetch(c).auth}
      BY <3>2, RangeAppend
    <3> QED
      BY <3>4, <3>5
  <2> QED
    BY <1>3, <2>1, <2>3, <2>4 DEF SecretsInv, NotesAgree, WireAgrees, ResultsAgree, RecordsAgree
<1>4. ASSUME NEW c \in Call, Ends(c), UNCHANGED record
      PROVE  SecretsInv'
  <2>1. PICK r : Outcome(c, r) /\ Finish(c, r)
    BY <1>4 DEF Ends
  <2>2. UNCHANGED <<asked, fetches, wire>> /\ result' = [result EXCEPT ![c] = r] /\ result[c] = None
    BY <2>1 DEF Finish, collected, CallTypes, TTypeOK
  <2>3. /\ r.kind \in {"ok", "failed", "timeout"}
        /\ r.kind = "ok" => r.used = FirstUses(asked[c])
    BY <2>1 DEF Outcome, Ok, Err
  <2>4. ResultsAgree'
    BY <2>2, <2>3 DEF SecretsInv, ResultsAgree, CallTypes
  <2>5. RecordsAgree'
    BY <1>4, <2>2 DEF SecretsInv, RecordsAgree, CallTypes
  <2> QED
    BY <2>2, <2>4, <2>5 DEF SecretsInv, NotesAgree, WireAgrees
<1>5. ASSUME NEW c \in Call, RecordExecution(c)
      PROVE  SecretsInv'
  <2>1. Notes /\ result' = result /\ result[c] # None
    BY <1>5 DEF RecordExecution, wvars, collected, CallTypes, TTypeOK
  <2>2. PICK redaction : record' = [record EXCEPT ![c] = ExecutionRecord(result[c], redaction)]
    BY <1>5 DEF RecordExecution
  <2>3. record'[c].error = None => result[c].kind = "ok" /\ record'[c].used = Range(result[c].used)
    BY <2>1, <2>2, WasmAssumption DEF SecretsInv, ResultsAgree, ExecutionRecord, CallTypes
  <2>4. \A d \in Call \ {c} : record'[d] = record[d]
    BY <2>2 DEF CallTypes
  <2>5. RecordsAgree'
    BY <2>1, <2>3, <2>4 DEF SecretsInv, RecordsAgree
  <2> QED
    BY <2>1, <2>5 DEF SecretsInv, NotesAgree, WireAgrees, ResultsAgree
<1>6. ASSUME NEW c \in Call, Begin(c) \/ Grow(c) \/ SecretExists(c) \/ Rests(c)
      PROVE  Notes /\ UNCHANGED result
  BY <1>6 DEF Begin, Grow, SecretExists, Rests, TransportFails, Wait, Wake, collected
<1>7. ASSUME Advance \/ TickerWakes \/ UNCHANGED tvars
      PROVE  Notes /\ UNCHANGED result
  BY <1>7 DEF Advance, TickerWakes, tvars, wvars, collected
<1>8. ASSUME UNCHANGED tvars
      PROVE  UNCHANGED record
  BY <1>8 DEF tvars
<1> HIDE DEF Notes
<1> QED
  BY <1>1, <1>2, <1>3, <1>4, <1>5, <1>6, <1>7, <1>8, GuestActions DEF TNext

\* Whatever calls run at the same time, and however often a server has to be asked,
\* the record of one that succeeded names exactly the secrets its own guest used, each
\* once, and every bearer token it sent is the value of one of them.
THEOREM SecretsAreNamed == TSpec => []SuccessNamesSecrets
<1>1. CallTypes /\ SecretsInv => SuccessNamesSecrets
  <2> SUFFICES ASSUME CallTypes, SecretsInv, NEW c \in Call,
                      record[c] # None, record[c].error = None
               PROVE  /\ record[c].used = Auths(fetches[c])
                      /\ \A w \in wire : w.call = c /\ w.bearer # None =>
                           w.bearer \in {Fetched(n) : n \in record[c].used}
                      /\ Len(result[c].used) = Cardinality(record[c].used)
    BY DEF SuccessNamesSecrets, Auths
  <2>1. /\ record[c].used = Range(result[c].used)
        /\ result[c].used = FirstUses(asked[c])
    BY DEF SecretsInv, RecordsAgree, ResultsAgree
  <2>2. asked[c] \in Seq(Secret)
    BY DEF CallTypes, TTypeOK
  <2>3. PICK used \in Seq(Secret) : used = FirstUses(asked[c]) /\ Distinct(used) /\ Range(used) = Range(asked[c])
    BY <2>2, FirstUsesNames
  <2>4. record[c].used = Auths(fetches[c])
    BY <2>1, <2>3 DEF SecretsInv, NotesAgree
  <2>5. Len(used) = Cardinality(Range(used))
    BY <2>3, DistinctLength
  <2> QED
    BY <2>1, <2>3, <2>4, <2>5 DEF SecretsInv, WireAgrees
<1>2. TSpec => []SecretsInv
  BY SecretsInit, SecretsStep, CallTypesHold, PTL DEF TSpec
<1> QED
  BY <1>1, <1>2, CallTypesHold, PTL

-----------------------------------------------------------------------------
(* The glob matcher finds only what the pattern denotes.  Parts and the    *)
(* cursor are folds, which go through the pattern and through its parts.   *)

\* What Parts does with the next character.
Split(parts, ch) ==
  IF ch = Star THEN Append(parts, << >>) ELSE [parts EXCEPT ![Len(parts)] = Append(@, ch)]

SomeParts(C) == Seq(Seq(C)) \ {<< >>}

LEMMA SplitType ==
  ASSUME NEW C, NEW parts \in SomeParts(C), NEW ch \in C
  PROVE  Split(parts, ch) \in SomeParts(C)
<1>1. PICK n \in Nat \ {0} : n = Len(parts) /\ DOMAIN parts = 1 .. n
  BY DEF SomeParts
<1>2. PICK last \in Seq(C) : last = parts[n]
  BY <1>1 DEF SomeParts
<1>3. << >> \in Seq(C) /\ Append(last, ch) \in Seq(C)
  OBVIOUS
<1>4. Append(parts, << >>) \in Seq(Seq(C)) /\ Len(Append(parts, << >>)) = n + 1
  BY <1>1, <1>3 DEF SomeParts
<1>5. PICK next : next = [parts EXCEPT ![n] = Append(last, ch)]
  OBVIOUS
<1>6. next \in [1 .. n -> Seq(C)]
  BY <1>1, <1>2, <1>3, <1>5 DEF SomeParts
<1>7. next \in Seq(Seq(C)) /\ next # << >>
  BY <1>1, <1>6
<1> QED
  BY <1>1, <1>2, <1>4, <1>5, <1>7 DEF Split, SomeParts

LEMMA PartsFold ==
  ASSUME NEW C, NEW pattern \in Seq(C)
  PROVE  \E h : /\ h[0] = << << >> >>
                /\ \A n \in 1 .. Len(pattern) : h[n] = Split(h[n - 1], pattern[n])
                /\ Parts(pattern) = h[Len(pattern)]
<1>1. PICK N \in Nat : N = Len(pattern) /\ DOMAIN pattern = 1 .. N
  OBVIOUS
<1>2. PICK pick : pick = [s \in (SUBSET (1 .. N)) \ {{}} |-> CHOOSE x \in s : \A y \in s : x >= y]
  OBVIOUS
<1>3. \A s \in (SUBSET (1 .. N)) \ {{}} : pick[s] = Max(s)
  BY <1>2 DEF Max
<1>4. Latest(pick, N)
  BY <1>2, LatestExists
<1>5. PICK step : step = [n \in 1 .. N |-> [parts \in SomeParts(C) |-> Split(parts, pattern[n])]]
  OBVIOUS
<1>6. Steps(step, 1 .. N, SomeParts(C))
  BY <1>1, <1>5, SplitType DEF Steps
<1>7. << << >> >> \in SomeParts(C)
  <2>1. << >> \in Seq(C)
    OBVIOUS
  <2> QED
    BY <2>1 DEF SomeParts
<1>8. HasFold(1 .. N, SomeParts(C), << << >> >>, pick, step)
  BY <1>4, <1>6, <1>7, LatestFold
<1>9. PICK g \in [SUBSET (1 .. N) -> SomeParts(C)] : AllFold(g, 1 .. N, << << >> >>, pick, step)
  BY <1>8 DEF HasFold
<1> DEFINE Eq(h) == h = [s \in SUBSET (1 .. N) |->
              IF s = {} THEN << << >> >> ELSE Split(h[s \ {Max(s)}], pattern[Max(s)])]
<1>10. Eq(g)
  <2>1. ASSUME NEW s \in (SUBSET (1 .. N)) \ {{}}
        PROVE  g[s] = Split(g[s \ {Max(s)}], pattern[Max(s)])
    <3>1. pick[s] = Max(s) /\ Max(s) \in 1 .. N
      BY <1>3, <1>4 DEF Latest, Picks
    <3>2. g[s] = step[Max(s)][g[s \ {Max(s)}]] /\ g[s \ {Max(s)}] \in SomeParts(C)
      BY <1>9, <3>1 DEF AllFold, Folds
    <3> QED
      BY <1>5, <3>1, <3>2
  <2> QED
    BY <1>9, <2>1 DEF AllFold, Folds
<1>11. PICK iter : iter = CHOOSE h : Eq(h)
  OBVIOUS
<1>12. Parts(pattern) = iter[1 .. N]
  BY <1>1, <1>11 DEF Parts, FoldLeft, MapThenFoldSet, Split
<1>13. Eq(iter)
  <2> HIDE DEF Eq
  <2> QED
    BY <1>10, <1>11
<1>14. PICK h : h = [n \in 0 .. N |-> iter[1 .. n]]
  OBVIOUS
<1>15. h[0] = << << >> >>
  <2>1. 1 .. 0 = {} /\ 0 \in 0 .. N
    OBVIOUS
  <2> QED
    BY <1>13, <1>14, <2>1
<1>16. ASSUME NEW n \in 1 .. N
       PROVE  h[n] = Split(h[n - 1], pattern[n])
  <2>1. (1 .. n) \in (SUBSET (1 .. N)) \ {{}} /\ Max(1 .. n) = n /\ (1 .. n) \ {n} = 1 .. (n - 1)
    BY <1>3, <1>4, LatestOfPrefix
  <2>2. n \in 0 .. N /\ n - 1 \in 0 .. N
    OBVIOUS
  <2> QED
    BY <1>13, <1>14, <2>1, <2>2
<1>17. h[N] = iter[1 .. N]
  BY <1>14
<1> QED
  BY <1>1, <1>12, <1>15, <1>16, <1>17

\* An occurrence of the part at or behind the cursor ends at e.
EndsAt(part, candidate, cursor, e) ==
  \E at \in cursor : \E pos \in Occurrences(part, candidate, at) :
    pos \in Nat /\ e = pos + Len(part)

\* The cursor behind a middle part is the end of an occurrence of it, at or behind
\* the cursor before.
LEMMA AfterMiddleFinds ==
  ASSUME NEW C, NEW part \in Seq(C), NEW candidate \in Seq(C), NEW cursor \in SUBSET Nat,
         NEW e \in AfterMiddle(part, candidate, cursor)
  PROVE  EndsAt(part, candidate, cursor, e)
<1>1. PICK at \in cursor : /\ Occurrences(part, candidate, at) # {}
                           /\ e = Min(Occurrences(part, candidate, at)) + Len(part)
  BY DEF AfterMiddle
<1>2. PICK T : T = Occurrences(part, candidate, at)
  OBVIOUS
<1>3. T \subseteq Nat
  <2>1. Len(candidate) \in Nat /\ Len(part) \in Nat /\ at \in Nat
    OBVIOUS
  <2>2. \A pos \in at .. Len(candidate) - Len(part) : pos \in Nat
    BY <2>1
  <2> QED
    BY <1>2, <2>2 DEF Occurrences
<1>4. Min(T) \in T
  BY <1>1, <1>2, <1>3, LeastElement DEF Min
<1> QED
  BY <1>1, <1>2, <1>3, <1>4 DEF EndsAt

LEMMA CursorFold ==
  ASSUME NEW C, NEW candidate \in Seq(C), NEW first \in Seq(C), NEW middle \in Seq(Seq(C))
  PROVE  \E h : /\ h[0] = AfterFirst(first, candidate)
                /\ \A n \in 1 .. Len(middle) : h[n] = AfterMiddle(middle[n], candidate, h[n - 1])
                /\ CursorBehind(first, middle, candidate) = h[Len(middle)]
<1>1. PICK N \in Nat : N = Len(middle) /\ DOMAIN middle = 1 .. N
  OBVIOUS
<1>2. PICK pick : pick = [s \in (SUBSET (1 .. N)) \ {{}} |-> CHOOSE x \in s : \A y \in s : x >= y]
  OBVIOUS
<1>3. \A s \in (SUBSET (1 .. N)) \ {{}} : pick[s] = Max(s)
  BY <1>2 DEF Max
<1>4. Latest(pick, N)
  BY <1>2, LatestExists
<1>5. PICK step : step = [n \in 1 .. N |->
                            [cur \in SUBSET Nat |-> AfterMiddle(middle[n], candidate, cur)]]
  OBVIOUS
<1>6. Steps(step, 1 .. N, SUBSET Nat)
  <2>1. ASSUME NEW n \in 1 .. N, NEW cur \in SUBSET Nat
        PROVE  AfterMiddle(middle[n], candidate, cur) \in SUBSET Nat
    <3>1. middle[n] \in Seq(C) /\ Len(middle[n]) \in Nat
      BY <1>1
    <3>2. ASSUME NEW e \in AfterMiddle(middle[n], candidate, cur)
          PROVE  e \in Nat
      <4>1. PICK part \in Seq(C) : part = middle[n] /\ Len(part) \in Nat
        BY <3>1
      <4>2. e \in AfterMiddle(part, candidate, cur)
        BY <4>1
      <4>3. EndsAt(part, candidate, cur, e)
        BY <4>2, AfterMiddleFinds
      <4>4. PICK pos \in Nat : e = pos + Len(part)
        BY <4>3 DEF EndsAt
      <4> QED
        BY <4>1, <4>4
    <3> QED
      BY <3>2
  <2> QED
    BY <1>5, <2>1 DEF Steps
<1>7. PICK base \in SUBSET Nat : base = AfterFirst(first, candidate)
  <2>1. Len(first) \in Nat
    OBVIOUS
  <2>2. AfterFirst(first, candidate) \subseteq Nat
    BY <2>1 DEF AfterFirst
  <2> QED
    BY <2>2
<1>8. HasFold(1 .. N, SUBSET Nat, base, pick, step)
  BY <1>4, <1>6, LatestFold
<1>9. PICK g \in [SUBSET (1 .. N) -> SUBSET Nat] : AllFold(g, 1 .. N, base, pick, step)
  BY <1>8 DEF HasFold
<1> DEFINE Eq(h) == h = [s \in SUBSET (1 .. N) |->
              IF s = {} THEN AfterFirst(first, candidate)
              ELSE AfterMiddle(middle[Max(s)], candidate, h[s \ {Max(s)}])]
<1>10. Eq(g)
  <2>1. ASSUME NEW s \in (SUBSET (1 .. N)) \ {{}}
        PROVE  g[s] = AfterMiddle(middle[Max(s)], candidate, g[s \ {Max(s)}])
    <3>1. pick[s] = Max(s) /\ Max(s) \in 1 .. N
      BY <1>3, <1>4 DEF Latest, Picks
    <3>2. g[s] = step[Max(s)][g[s \ {Max(s)}]] /\ g[s \ {Max(s)}] \in SUBSET Nat
      BY <1>9, <3>1 DEF AllFold, Folds
    <3> QED
      BY <1>5, <3>1, <3>2
  <2> QED
    BY <1>7, <1>9, <2>1 DEF AllFold, Folds
<1>11. PICK iter : iter = CHOOSE h : Eq(h)
  OBVIOUS
<1>12. CursorBehind(first, middle, candidate) = iter[1 .. N]
  BY <1>1, <1>11 DEF CursorBehind, FoldLeft, MapThenFoldSet
<1>13. Eq(iter)
  <2> HIDE DEF Eq
  <2> QED
    BY <1>10, <1>11
<1>14. PICK h : h = [n \in 0 .. N |-> iter[1 .. n]]
  OBVIOUS
<1>15. h[0] = AfterFirst(first, candidate)
  <2>1. 1 .. 0 = {} /\ 0 \in 0 .. N
    OBVIOUS
  <2> QED
    BY <1>13, <1>14, <2>1
<1>16. ASSUME NEW n \in 1 .. N
       PROVE  h[n] = AfterMiddle(middle[n], candidate, h[n - 1])
  <2>1. (1 .. n) \in (SUBSET (1 .. N)) \ {{}} /\ Max(1 .. n) = n /\ (1 .. n) \ {n} = 1 .. (n - 1)
    BY <1>3, <1>4, LatestOfPrefix
  <2>2. n \in 0 .. N /\ n - 1 \in 0 .. N
    OBVIOUS
  <2> QED
    BY <1>13, <1>14, <2>1, <2>2
<1>17. h[N] = iter[1 .. N]
  BY <1>14
<1> QED
  BY <1>1, <1>12, <1>15, <1>16, <1>17

\* The first n characters of the pattern denote the first e of the candidate.
Fits(pattern, n, candidate, e) ==
  \E ends \in [0 .. n -> 0 .. e] :
    /\ ends[0] = 0
    /\ ends[n] = e
    /\ \A i \in 1 .. n :
         IF pattern[i] = Star
         THEN ends[i] >= ends[i - 1]
         ELSE ends[i] = ends[i - 1] + 1 /\ candidate[ends[i]] = pattern[i]

LEMMA FitsEmpty ==
  ASSUME NEW pattern, NEW candidate
  PROVE  Fits(pattern, 0, candidate, 0)
<1>1. PICK ends : ends = [i \in 0 .. 0 |-> 0]
  OBVIOUS
<1>2. ends \in [0 .. 0 -> 0 .. 0] /\ ends[0] = 0 /\ 1 .. 0 = {}
  BY <1>1
<1> QED
  BY <1>2 DEF Fits

\* A star takes any stretch, another character takes itself.
LEMMA FitsNext ==
  ASSUME NEW pattern, NEW candidate, NEW n \in Nat, NEW e \in Nat, NEW f \in Nat,
         Fits(pattern, n, candidate, e),
         IF pattern[n + 1] = Star THEN f >= e ELSE f = e + 1 /\ candidate[f] = pattern[n + 1]
  PROVE  Fits(pattern, n + 1, candidate, f)
<1>1. PICK ends \in [0 .. n -> 0 .. e] :
        /\ ends[0] = 0
        /\ ends[n] = e
        /\ \A i \in 1 .. n :
             IF pattern[i] = Star
             THEN ends[i] >= ends[i - 1]
             ELSE ends[i] = ends[i - 1] + 1 /\ candidate[ends[i]] = pattern[i]
  BY DEF Fits
<1>2. PICK more : more = [i \in 0 .. n + 1 |-> IF i = n + 1 THEN f ELSE ends[i]]
  OBVIOUS
<1>3. more \in [0 .. n + 1 -> 0 .. f]
  <2>1. e <= f
    OBVIOUS
  <2>2. ASSUME NEW i \in 0 .. n + 1
        PROVE  more[i] \in 0 .. f
    <3>1. CASE i = n + 1
      BY <1>2, <3>1
    <3>2. CASE i \in 0 .. n
      <4>1. more[i] = ends[i] /\ ends[i] \in 0 .. e
        BY <1>1, <1>2, <3>2
      <4> QED
        BY <2>1, <4>1
    <3> QED
      BY <3>1, <3>2
  <2> QED
    BY <1>2, <2>2
<1>4. \A i \in 0 .. n : more[i] = ends[i]
  BY <1>2
<1>5. more[0] = 0 /\ more[n + 1] = f /\ more[n] = e
  BY <1>1, <1>2
<1>6. ASSUME NEW i \in 1 .. n + 1
      PROVE  IF pattern[i] = Star
             THEN more[i] >= more[i - 1]
             ELSE more[i] = more[i - 1] + 1 /\ candidate[more[i]] = pattern[i]
  <2>1. CASE i = n + 1
    BY <1>5, <2>1
  <2>2. CASE i \in 1 .. n
    <3>1. more[i] = ends[i] /\ more[i - 1] = ends[i - 1]
      BY <1>4, <2>2
    <3> QED
      BY <1>1, <2>2, <3>1
  <2> QED
    BY <2>1, <2>2
<1> QED
  BY <1>3, <1>5, <1>6 DEF Fits

\* The first k parts stand in the candidate where at says, in their order.
Placed(parts, k, at, candidate) ==
  /\ at[1] = 0
  /\ \A i \in 1 .. k : at[i] \in Nat /\ \A j \in 1 .. Len(parts[i]) : candidate[at[i] + j] = parts[i][j]
  /\ \A i \in 1 .. k - 1 : at[i] + Len(parts[i]) <= at[i + 1]

\* Wherever the parts of the first n characters are placed, these characters fit.
PlacedFits(pattern, n, parts, candidate) ==
  \A at : Placed(parts, Len(parts), at, candidate) =>
            Fits(pattern, n, candidate, at[Len(parts)] + Len(parts[Len(parts)]))

LEMMA PlacedFitsNext ==
  ASSUME NEW C, NEW pattern, NEW candidate, NEW n \in Nat, NEW parts \in SomeParts(C),
         NEW ch \in C, pattern[n + 1] = ch, PlacedFits(pattern, n, parts, candidate)
  PROVE  PlacedFits(pattern, n + 1, Split(parts, ch), candidate)
<1>1. PICK K \in Nat \ {0} : K = Len(parts) /\ DOMAIN parts = 1 .. K
  BY DEF SomeParts
<1>2. \A i \in 1 .. K : parts[i] \in Seq(C) /\ Len(parts[i]) \in Nat
  BY <1>1 DEF SomeParts
<1>3. PICK last \in Seq(C) : last = parts[K]
  BY <1>1, <1>2
<1>4. PICK next : next = Split(parts, ch)
  OBVIOUS
<1> SUFFICES ASSUME NEW at, Placed(next, Len(next), at, candidate)
             PROVE  Fits(pattern, n + 1, candidate, at[Len(next)] + Len(next[Len(next)]))
  BY <1>4 DEF PlacedFits
<1>5. CASE ch = Star
  <2>1. next = Append(parts, << >>)
    BY <1>4, <1>5 DEF Split
  <2>2. Len(next) = K + 1 /\ next[K + 1] = << >> /\ \A i \in 1 .. K : next[i] = parts[i]
    BY <1>1, <2>1 DEF SomeParts
  <2>3. Placed(next, K + 1, at, candidate)
    BY <2>2
  <2>4. (K + 1) - 1 = K /\ K \in 1 .. K /\ K + 1 \in 1 .. K + 1
    OBVIOUS
  <2>5. at[K] + Len(parts[K]) <= at[K + 1] /\ at[K + 1] \in Nat /\ at[K] \in Nat
    BY <2>2, <2>3, <2>4 DEF Placed
  <2>6. Placed(parts, K, at, candidate)
    <3>1. ASSUME NEW i \in 1 .. K
          PROVE  at[i] \in Nat /\ \A j \in 1 .. Len(parts[i]) : candidate[at[i] + j] = parts[i][j]
      <4>1. i \in 1 .. K + 1 /\ next[i] = parts[i]
        BY <2>2
      <4>2. at[i] \in Nat /\ \A j \in 1 .. Len(next[i]) : candidate[at[i] + j] = next[i][j]
        BY <2>3, <4>1 DEF Placed
      <4> QED
        BY <4>1, <4>2
    <3>2. ASSUME NEW i \in 1 .. K - 1
          PROVE  at[i] + Len(parts[i]) <= at[i + 1]
      <4>1. i \in 1 .. (K + 1) - 1 /\ i \in 1 .. K /\ next[i] = parts[i]
        BY <2>2
      <4> QED
        BY <2>3, <4>1 DEF Placed
    <3>3. at[1] = 0
      BY <2>3 DEF Placed
    <3> QED
      BY <3>1, <3>2, <3>3 DEF Placed
  <2>7. Fits(pattern, n, candidate, at[K] + Len(parts[K]))
    BY <1>1, <2>6 DEF PlacedFits
  <2>8. PICK e \in Nat : e = at[K] + Len(parts[K])
    BY <1>2, <2>4, <2>5
  <2>9. Fits(pattern, n + 1, candidate, at[K + 1])
    BY <1>5, <2>5, <2>7, <2>8, FitsNext
  <2>10. at[Len(next)] + Len(next[Len(next)]) = at[K + 1]
    BY <2>2, <2>5
  <2> QED
    BY <2>9, <2>10
<1>6. CASE ch # Star
  <2>1. next = [parts EXCEPT ![K] = Append(last, ch)]
    BY <1>1, <1>3, <1>4, <1>6 DEF Split
  <2>2. DOMAIN next = 1 .. K /\ next[K] = Append(last, ch) /\ \A i \in 1 .. K - 1 : next[i] = parts[i]
    BY <1>1, <2>1
  <2>3. Len(next) = K
    <3>1. Append(last, ch) \in Seq(C)
      OBVIOUS
    <3>2. next \in [1 .. K -> Seq(C)]
      BY <1>1, <1>2, <2>1, <3>1 DEF SomeParts
    <3> QED
      BY <3>2
  <2>4. Placed(next, K, at, candidate)
    BY <2>3
  <2>5. PICK m \in Nat : m = Len(last)
    OBVIOUS
  <2>6. Len(next[K]) = m + 1 /\ next[K][m + 1] = ch /\ \A j \in 1 .. m : next[K][j] = last[j]
    BY <2>2, <2>5
  <2>7. at[1] = 0
    BY <2>4 DEF Placed
  <2>8. at[K] \in Nat /\ \A j \in 1 .. m + 1 : candidate[at[K] + j] = next[K][j]
    BY <2>4, <2>6 DEF Placed
  <2>9. ASSUME NEW i \in 1 .. K
        PROVE  at[i] \in Nat /\ \A j \in 1 .. Len(parts[i]) : candidate[at[i] + j] = parts[i][j]
    <3>1. CASE i = K
      BY <1>3, <2>5, <2>6, <2>8, <3>1
    <3>2. CASE i \in 1 .. K - 1
      BY <2>2, <2>4, <3>2 DEF Placed
    <3> QED
      BY <3>1, <3>2
  <2>10. \A i \in 1 .. K - 1 : at[i] + Len(parts[i]) <= at[i + 1]
    BY <2>2, <2>4 DEF Placed
  <2>11. Placed(parts, K, at, candidate)
    BY <2>7, <2>9, <2>10 DEF Placed
  <2>12. Fits(pattern, n, candidate, at[K] + m)
    BY <1>1, <1>3, <2>5, <2>11 DEF PlacedFits
  <2>13. PICK a \in Nat : a = at[K]
    BY <2>8
  <2>14. PICK e \in Nat : e = a + m
    OBVIOUS
  <2>15. candidate[e + 1] = ch
    <3>1. a + (m + 1) = e + 1 /\ m + 1 \in 1 .. m + 1
      BY <2>14
    <3> QED
      BY <2>6, <2>8, <2>13, <3>1
  <2>16. Fits(pattern, n, candidate, e)
    BY <2>12, <2>13, <2>14
  <2>17. Fits(pattern, n + 1, candidate, e + 1)
    <3>1. PICK f \in Nat : f = e + 1
      OBVIOUS
    <3>2. candidate[f] = pattern[n + 1] /\ pattern[n + 1] # Star
      BY <1>6, <2>15, <3>1
    <3>3. Fits(pattern, n + 1, candidate, f)
      BY <2>16, <3>1, <3>2, FitsNext
    <3> QED
      BY <3>1, <3>3
  <2>18. at[Len(next)] + Len(next[Len(next)]) = e + 1
    <3>1. a + (m + 1) = e + 1
      BY <2>14
    <3> QED
      BY <2>3, <2>6, <2>13, <3>1
  <2> QED
    BY <2>17, <2>18
<1> QED
  BY <1>5, <1>6

LEMMA PartsFit ==
  ASSUME NEW C, NEW pattern \in Seq(C), NEW candidate
  PROVE  /\ Parts(pattern) \in SomeParts(C)
         /\ PlacedFits(pattern, Len(pattern), Parts(pattern), candidate)
<1>1. PICK h : /\ h[0] = << << >> >>
               /\ \A n \in 1 .. Len(pattern) : h[n] = Split(h[n - 1], pattern[n])
               /\ Parts(pattern) = h[Len(pattern)]
  BY PartsFold
<1> DEFINE N == Len(pattern)
           Good == {n \in Nat : n <= N =>
                      h[n] \in SomeParts(C) /\ PlacedFits(pattern, n, h[n], candidate)}
<1>2. N \in Nat /\ DOMAIN pattern = 1 .. N
  OBVIOUS
<1>3. 0 \in Good
  <2>1. << >> \in Seq(C)
    OBVIOUS
  <2>2. PICK one : one = << << >> >> /\ one \in SomeParts(C) /\ Len(one) = 1 /\ Len(one[1]) = 0
    <3>1. PICK none \in Seq(C) : none = << >> /\ Len(none) = 0
      BY <2>1
    <3>2. <<none>> \in Seq(Seq(C)) /\ Len(<<none>>) = 1 /\ <<none>>[1] = none
      BY <3>1
    <3>3. <<none>> # << >>
      BY <3>2
    <3> QED
      BY <3>1, <3>2, <3>3 DEF SomeParts
  <2>3. PlacedFits(pattern, 0, one, candidate)
    BY <2>2, FitsEmpty DEF PlacedFits, Placed
  <2> QED
    BY <1>1, <2>2, <2>3
<1>4. ASSUME NEW n \in Good
      PROVE  n + 1 \in Good
  <2> SUFFICES ASSUME n + 1 <= N
               PROVE  h[n + 1] \in SomeParts(C) /\ PlacedFits(pattern, n + 1, h[n + 1], candidate)
    OBVIOUS
  <2>1. n \in Nat /\ n <= N /\ n + 1 \in 1 .. N /\ (n + 1) - 1 = n
    BY <1>2
  <2>2. PICK parts \in SomeParts(C) : parts = h[n] /\ PlacedFits(pattern, n, parts, candidate)
    BY <2>1
  <2>3. PICK ch \in C : ch = pattern[n + 1]
    BY <2>1
  <2>4. h[n + 1] = Split(parts, ch)
    BY <1>1, <2>1, <2>2, <2>3
  <2> QED
    BY <2>1, <2>2, <2>3, <2>4, SplitType, PlacedFitsNext
<1>5. Good = Nat
  <2> HIDE DEF Good
  <2>1. Good \in SUBSET Nat
    BY DEF Good
  <2> QED
    BY <1>3, <1>4, <2>1, NumberInduction
<1>6. N \in Good
  BY <1>2, <1>5
<1> QED
  BY <1>1, <1>2, <1>6

\* The first k parts can be placed so that the last of them ends at e.
PlacedTo(parts, k, candidate, e) ==
  \E at : Placed(parts, k, at, candidate) /\ e = at[k] + Len(parts[k])

\* The part stands in the candidate behind pos.
StandsAt(part, candidate, pos) == \A j \in 1 .. Len(part) : candidate[pos + j] = part[j]

LEMMA FirstPlaced ==
  ASSUME NEW parts, NEW candidate, Len(parts[1]) \in Nat, StandsAt(parts[1], candidate, 0)
  PROVE  PlacedTo(parts, 1, candidate, Len(parts[1]))
<1>1. PICK at : at = [i \in {1} |-> 0]
  OBVIOUS
<1>2. at[1] = 0
  BY <1>1
<1>3. Placed(parts, 1, at, candidate)
  BY <1>2 DEF Placed, StandsAt
<1> QED
  BY <1>2, <1>3 DEF PlacedTo

LEMMA NextPlaced ==
  ASSUME NEW parts, NEW candidate, NEW k \in Nat \ {0}, NEW e \in Nat, NEW pos \in Nat, e <= pos,
         PlacedTo(parts, k, candidate, e), StandsAt(parts[k + 1], candidate, pos)
  PROVE  PlacedTo(parts, k + 1, candidate, pos + Len(parts[k + 1]))
<1>1. PICK at : Placed(parts, k, at, candidate) /\ e = at[k] + Len(parts[k])
  BY DEF PlacedTo
<1>2. PICK more : more = [i \in 1 .. k + 1 |-> IF i = k + 1 THEN pos ELSE at[i]]
  OBVIOUS
<1>3. more[k + 1] = pos /\ \A i \in 1 .. k : more[i] = at[i]
  BY <1>2
<1>4. more[1] = 0
  BY <1>1, <1>3 DEF Placed
<1>5. ASSUME NEW i \in 1 .. k + 1
      PROVE  more[i] \in Nat /\ \A j \in 1 .. Len(parts[i]) : candidate[more[i] + j] = parts[i][j]
  <2>1. CASE i = k + 1
    BY <1>3, <2>1 DEF StandsAt
  <2>2. CASE i \in 1 .. k
    BY <1>1, <1>3, <2>2 DEF Placed
  <2> QED
    BY <2>1, <2>2
<1>6. ASSUME NEW i \in 1 .. k
      PROVE  more[i] + Len(parts[i]) <= more[i + 1]
  <2>1. CASE i = k
    BY <1>1, <1>3, <2>1
  <2>2. CASE i \in 1 .. k - 1
    <3>1. i + 1 \in 1 .. k
      BY <2>2
    <3> QED
      BY <1>1, <1>3, <2>2, <3>1 DEF Placed
  <2> QED
    BY <2>1, <2>2
<1>7. (k + 1) - 1 = k
  OBVIOUS
<1>8. Placed(parts, k + 1, more, candidate)
  BY <1>4, <1>5, <1>6, <1>7 DEF Placed
<1> QED
  BY <1>3, <1>8 DEF PlacedTo

LEMMA PrefixStands ==
  ASSUME NEW C, NEW part \in Seq(C), NEW candidate \in Seq(C), IsPrefix(part, candidate)
  PROVE  StandsAt(part, candidate, 0)
<1> SUFFICES ASSUME NEW j \in 1 .. Len(part) PROVE candidate[0 + j] = part[j]
  BY DEF StandsAt
<1>1. Len(part) \in Nat /\ Len(candidate) \in Nat /\ Len(part) <= Len(candidate)
  BY DEF IsPrefix
<1>2. SubSeq(part, 1, Len(part))[j] = part[j] /\ SubSeq(candidate, 1, Len(part))[j] = candidate[j]
  BY <1>1
<1> QED
  BY <1>2 DEF IsPrefix

LEMMA OccurrenceStands ==
  ASSUME NEW C, NEW part \in Seq(C), NEW candidate \in Seq(C), NEW from \in Nat,
         NEW pos \in Occurrences(part, candidate, from)
  PROVE  pos \in Nat /\ from <= pos /\ StandsAt(part, candidate, pos)
<1>1. PICK L \in Nat : L = Len(part)
  OBVIOUS
<1>2. PICK M \in Nat : M = Len(candidate)
  OBVIOUS
<1>3. pos \in from .. M - L /\ SubSeq(candidate, pos + 1, pos + L) = part
  BY <1>1, <1>2 DEF Occurrences
<1>4. pos \in Nat /\ from <= pos /\ pos + L <= M
  BY <1>3
<1>5. ASSUME NEW j \in 1 .. L
      PROVE  candidate[pos + j] = part[j]
  <2>1. SubSeq(candidate, pos + 1, pos + L)[j] = candidate[pos + j]
    BY <1>2, <1>4
  <2> QED
    BY <1>3, <2>1
<1> QED
  BY <1>1, <1>4, <1>5 DEF StandsAt

LEMMA SuffixStands ==
  ASSUME NEW C, NEW part \in Seq(C), NEW candidate \in Seq(C), IsSuffix(part, candidate)
  PROVE  StandsAt(part, candidate, Len(candidate) - Len(part))
<1>1. PICK L \in Nat : L = Len(part)
  OBVIOUS
<1>2. PICK M \in Nat : M = Len(candidate)
  OBVIOUS
<1>3. PICK back \in Seq(C) : back = Reverse(part) /\ Len(back) = L /\ \A i \in 1 .. L : back[i] = part[L - i + 1]
  <2>1. PICK f : f = Reverse(part)
    OBVIOUS
  <2>2. f = [i \in 1 .. L |-> part[(L - i) + 1]]
    BY <1>1, <2>1 DEF Reverse
  <2>3. \A i \in 1 .. L : part[(L - i) + 1] \in C
    BY <1>1
  <2>4. f \in [1 .. L -> C]
    BY <2>2, <2>3
  <2>5. f \in Seq(C) /\ Len(f) = L
    BY <2>4
  <2>6. \A i \in 1 .. L : f[i] = part[L - i + 1]
    BY <2>2
  <2> QED
    BY <2>1, <2>5, <2>6
<1>4. PICK rest \in Seq(C) : rest = Reverse(candidate) /\ Len(rest) = M /\ \A i \in 1 .. M : rest[i] = candidate[M - i + 1]
  <2>1. PICK f : f = Reverse(candidate)
    OBVIOUS
  <2>2. f = [i \in 1 .. M |-> candidate[(M - i) + 1]]
    BY <1>2, <2>1 DEF Reverse
  <2>3. \A i \in 1 .. M : candidate[(M - i) + 1] \in C
    BY <1>2
  <2>4. f \in [1 .. M -> C]
    BY <2>2, <2>3
  <2>5. f \in Seq(C) /\ Len(f) = M
    BY <2>4
  <2>6. \A i \in 1 .. M : f[i] = candidate[M - i + 1]
    BY <2>2
  <2> QED
    BY <2>1, <2>5, <2>6
<1>5. L <= M /\ IsPrefix(back, rest)
  BY <1>3, <1>4 DEF IsSuffix, IsPrefix
<1>6. StandsAt(back, rest, 0)
  BY <1>5, PrefixStands
<1>7. ASSUME NEW j \in 1 .. L
      PROVE  candidate[(M - L) + j] = part[j]
  <2>1. PICK i \in 1 .. L : i = L - j + 1
    OBVIOUS
  <2>2. back[i] = rest[i]
    <3>1. 0 + i = i
      OBVIOUS
    <3> QED
      BY <1>3, <1>6, <3>1 DEF StandsAt
  <2>3. L - i + 1 = j /\ M - i + 1 = (M - L) + j /\ i \in 1 .. M
    BY <1>5, <2>1
  <2> QED
    BY <1>3, <1>4, <2>2, <2>3
<1> QED
  BY <1>1, <1>2, <1>7 DEF StandsAt

\* Wherever the cursor has come to, the parts before it can be placed.
LEMMA CursorPlaces ==
  ASSUME NEW C, NEW candidate \in Seq(C), NEW parts \in SomeParts(C), NEW k \in Nat \ {0},
         k + 1 = Len(parts),
         NEW e \in CursorBehind(parts[1], SubSeq(parts, 2, k), candidate)
  PROVE  e \in Nat /\ PlacedTo(parts, k, candidate, e)
<1>1. PICK middle : middle = SubSeq(parts, 2, k)
  OBVIOUS
<1>2. parts \in Seq(Seq(C))
  BY DEF SomeParts
<1>3. middle \in Seq(Seq(C)) /\ Len(middle) = k - 1 /\ \A i \in 1 .. k - 1 : middle[i] = parts[i + 1]
  BY <1>1, <1>2
<1>4. \A i \in 1 .. k + 1 : parts[i] \in Seq(C) /\ Len(parts[i]) \in Nat
  BY <1>2
<1>5. PICK first \in Seq(C) : first = parts[1]
  BY <1>4
<1>6. PICK h : /\ h[0] = AfterFirst(first, candidate)
               /\ \A n \in 1 .. Len(middle) : h[n] = AfterMiddle(middle[n], candidate, h[n - 1])
               /\ CursorBehind(first, middle, candidate) = h[Len(middle)]
  BY <1>3, CursorFold
<1> DEFINE Good == {n \in Nat : n <= k - 1 =>
                      \A x \in h[n] : x \in Nat /\ PlacedTo(parts, n + 1, candidate, x)}
<1>7. 0 \in Good
  <2> SUFFICES ASSUME NEW x \in h[0] PROVE x \in Nat /\ PlacedTo(parts, 0 + 1, candidate, x)
    OBVIOUS
  <2>1. x = Len(first) /\ IsPrefix(first, candidate)
    BY <1>6 DEF AfterFirst
  <2>2. StandsAt(first, candidate, 0)
    BY <2>1, PrefixStands
  <2>3. Len(first) \in Nat
    OBVIOUS
  <2>4. PlacedTo(parts, 1, candidate, Len(first))
    BY <1>5, <2>2, <2>3, FirstPlaced
  <2> QED
    BY <2>1, <2>3, <2>4
<1>8. ASSUME NEW n \in Good
      PROVE  n + 1 \in Good
  <2> SUFFICES ASSUME n + 1 <= k - 1, NEW x \in h[n + 1]
               PROVE  x \in Nat /\ PlacedTo(parts, (n + 1) + 1, candidate, x)
    OBVIOUS
  <2>1. n \in Nat /\ n <= k - 1 /\ n + 1 \in 1 .. k - 1 /\ (n + 1) - 1 = n /\ n + 1 \in Nat \ {0}
    OBVIOUS
  <2>2. PICK K \in Nat \ {0} : K = n + 1
    BY <2>1
  <2>3. K + 1 \in 1 .. k + 1 /\ K \in 1 .. k - 1
    BY <2>1, <2>2
  <2>4. PICK part \in Seq(C) : part = parts[K + 1] /\ Len(part) \in Nat
    BY <1>4, <2>3
  <2>5. PICK cursor \in SUBSET Nat : cursor = h[n]
    BY <2>1
  <2>6. x \in AfterMiddle(part, candidate, cursor)
    BY <1>3, <1>6, <2>1, <2>2, <2>3, <2>4, <2>5
  <2>7. EndsAt(part, candidate, cursor, x)
    BY <2>6, AfterMiddleFinds
  <2>8. PICK at \in cursor : \E pos \in Occurrences(part, candidate, at) : x = pos + Len(part)
    BY <2>7 DEF EndsAt
  <2>9. PICK pos \in Occurrences(part, candidate, at) : x = pos + Len(part)
    BY <2>8
  <2>10. at \in Nat /\ PlacedTo(parts, K, candidate, at)
    BY <2>1, <2>2, <2>5
  <2>11. pos \in Nat /\ at <= pos /\ StandsAt(part, candidate, pos)
    BY <2>10, OccurrenceStands
  <2>12. PlacedTo(parts, K + 1, candidate, pos + Len(parts[K + 1]))
    BY <2>4, <2>10, <2>11, NextPlaced
  <2>13. x \in Nat
    BY <2>4, <2>9, <2>11
  <2> QED
    BY <2>2, <2>4, <2>9, <2>12, <2>13
<1>9. Good = Nat
  <2> HIDE DEF Good
  <2>1. Good \in SUBSET Nat
    BY DEF Good
  <2> QED
    BY <1>7, <1>8, <2>1, NumberInduction
<1>10. k - 1 \in Good /\ (k - 1) + 1 = k
  BY <1>9
<1>11. e \in h[k - 1]
  BY <1>1, <1>3, <1>5, <1>6
<1> QED
  BY <1>10, <1>11

\* A pattern denotes what is spelled as it is, stars included.
LEMMA DenotesItself ==
  ASSUME NEW C, NEW s \in Seq(C)
  PROVE  Denotes(s, s)
<1>1. PICK n \in Nat : n = Len(s)
  OBVIOUS
<1>2. PICK ends : ends = [i \in 0 .. n |-> i]
  OBVIOUS
<1>3. ends \in [0 .. n -> 0 .. n] /\ \A i \in 0 .. n : ends[i] = i
  BY <1>2
<1>4. \A i \in 1 .. n : IF s[i] = Star THEN ends[i] >= ends[i - 1]
                        ELSE ends[i] = ends[i - 1] + 1 /\ s[ends[i]] = s[i]
  BY <1>3
<1>5. ends[0] = 0 /\ ends[n] = n
  BY <1>3
<1> QED
  BY <1>1, <1>3, <1>4, <1>5 DEF Denotes

\* The single pass of glob_match, without backtracking, accepts only what the pattern
\* denotes (capability.rs).
LEMMA GlobMatchSound ==
  ASSUME NEW C, NEW pattern \in Seq(C), NEW candidate \in Seq(C), GlobMatch(pattern, candidate)
  PROVE  Denotes(pattern, candidate)
<1>1. PICK parts \in SomeParts(C) : parts = Parts(pattern) /\ PlacedFits(pattern, Len(pattern), parts, candidate)
  BY PartsFit
<1>2. CASE Len(parts) = 1
  BY <1>1, <1>2, DenotesItself DEF GlobMatch
<1>3. CASE Len(parts) # 1
  <2>1. PICK k \in Nat \ {0} : k + 1 = Len(parts)
    <3>1. Len(parts) \in Nat /\ Len(parts) # 0
      BY DEF SomeParts
    <3>2. Len(parts) - 1 \in Nat \ {0} /\ (Len(parts) - 1) + 1 = Len(parts)
      BY <1>3, <3>1
    <3> QED
      BY <3>2
  <2>2. EndsWith(parts[k + 1], candidate, CursorBehind(parts[1], SubSeq(parts, 2, k), candidate))
    <3>1. Len(parts) - 1 = k
      BY <2>1
    <3> QED
      BY <1>1, <1>3, <2>1, <3>1 DEF GlobMatch
  <2>3. PICK e \in CursorBehind(parts[1], SubSeq(parts, 2, k), candidate) :
          /\ Len(candidate) - e >= Len(parts[k + 1])
          /\ IsSuffix(parts[k + 1], candidate)
    BY <2>2 DEF EndsWith
  <2>4. e \in Nat /\ PlacedTo(parts, k, candidate, e)
    BY <2>1, CursorPlaces
  <2>5. PICK last \in Seq(C) : last = parts[k + 1]
    BY <2>1 DEF SomeParts
  <2>6. StandsAt(last, candidate, Len(candidate) - Len(last))
    BY <2>3, <2>5, SuffixStands
  <2>7. PICK pos \in Nat : pos = Len(candidate) - Len(last) /\ e <= pos /\ pos + Len(last) = Len(candidate)
    <3>1. PICK M \in Nat : M = Len(candidate)
      OBVIOUS
    <3>2. PICK L \in Nat : L = Len(last)
      OBVIOUS
    <3>3. M - e >= L /\ e \in Nat
      BY <2>3, <2>4, <2>5, <3>1, <3>2
    <3>4. M - L \in Nat /\ e <= M - L /\ (M - L) + L = M
      BY <3>3
    <3> QED
      BY <3>1, <3>2, <3>4
  <2>8. PlacedTo(parts, k + 1, candidate, Len(candidate))
    BY <2>4, <2>5, <2>6, <2>7, NextPlaced
  <2>9. Fits(pattern, Len(pattern), candidate, Len(candidate))
    BY <1>1, <2>1, <2>8 DEF PlacedTo, PlacedFits
  <2> QED
    BY <2>9 DEF Fits, Denotes
<1> QED
  BY <1>2, <1>3

-----------------------------------------------------------------------------
(* The glob matcher finds whatever the pattern denotes: the cursor is      *)
(* never behind the place where a part can stand.                          *)

\* The first k parts can be placed within the first e characters.
PlacedWithin(parts, k, at, candidate, e) ==
  /\ Placed(parts, k, at, candidate)
  /\ \A i \in 1 .. k : at[i] + Len(parts[i]) <= e

\* Where the first n characters fit, their parts can be placed, the last one at the end.
FitsPlaced(pattern, n, parts, candidate) ==
  \A e \in Nat : Fits(pattern, n, candidate, e) =>
    \E at : /\ PlacedWithin(parts, Len(parts), at, candidate, e)
            /\ at[Len(parts)] + Len(parts[Len(parts)]) = e

\* Character ch stands for the stretch of the candidate between e and f.
Stretches(ch, candidate, e, f) == IF ch = Star THEN f >= e ELSE f = e + 1 /\ candidate[f] = ch

LEMMA FitsBefore ==
  ASSUME NEW pattern, NEW candidate, NEW n \in Nat, NEW f \in Nat,
         Fits(pattern, n + 1, candidate, f)
  PROVE  \E e \in Nat : Fits(pattern, n, candidate, e) /\ Stretches(pattern[n + 1], candidate, e, f)
<1>1. PICK ends \in [0 .. n + 1 -> 0 .. f] :
        /\ ends[0] = 0
        /\ ends[n + 1] = f
        /\ \A i \in 1 .. n + 1 :
             IF pattern[i] = Star
             THEN ends[i] >= ends[i - 1]
             ELSE ends[i] = ends[i - 1] + 1 /\ candidate[ends[i]] = pattern[i]
  BY DEF Fits
<1>2. PICK e \in Nat : e = ends[n]
  OBVIOUS
<1>3. (n + 1) - 1 = n /\ n + 1 \in 1 .. n + 1
  OBVIOUS
<1>4. Stretches(pattern[n + 1], candidate, e, f)
  BY <1>1, <1>2, <1>3 DEF Stretches
<1> DEFINE Good == {i \in Nat : i <= n => ends[n - i] <= e}
<1>5. 0 \in Good
  BY <1>2
<1>6. ASSUME NEW i \in Good
      PROVE  i + 1 \in Good
  <2> SUFFICES ASSUME i + 1 <= n PROVE ends[n - (i + 1)] <= e
    OBVIOUS
  <2>1. n - i \in 1 .. n + 1 /\ n - i \in 0 .. n + 1 /\ n - (i + 1) \in 0 .. n + 1 /\ (n - i) - 1 = n - (i + 1)
    OBVIOUS
  <2>2. ends[n - i] <= e
    OBVIOUS
  <2>3. PICK a \in Nat : a = ends[n - i]
    BY <2>1
  <2>4. PICK b \in Nat : b = ends[n - (i + 1)]
    BY <2>1
  <2>5. b <= a
    BY <1>1, <2>1, <2>3, <2>4
  <2> QED
    BY <2>2, <2>3, <2>4, <2>5
<1>7. Good = Nat
  <2> HIDE DEF Good
  <2>1. Good \in SUBSET Nat
    BY DEF Good
  <2> QED
    BY <1>5, <1>6, <2>1, NumberInduction
<1>8. ASSUME NEW i \in 0 .. n
      PROVE  ends[i] \in 0 .. e
  <2>1. PICK back \in Nat : back = n - i /\ n - back = i /\ back <= n
    <3>1. n - i \in Nat /\ n - (n - i) = i /\ n - i <= n
      OBVIOUS
    <3> QED
      BY <3>1
  <2>2. ends[n - back] <= e
    BY <1>7, <2>1
  <2>3. ends[i] \in 0 .. f
    OBVIOUS
  <2> QED
    BY <2>1, <2>2, <2>3
<1>9. PICK less : less = [i \in 0 .. n |-> ends[i]]
  OBVIOUS
<1>10. less \in [0 .. n -> 0 .. e] /\ \A i \in 0 .. n : less[i] = ends[i]
  BY <1>8, <1>9
<1>11. Fits(pattern, n, candidate, e)
  <2>1. less[0] = 0 /\ less[n] = e
    BY <1>1, <1>2, <1>10
  <2>2. ASSUME NEW i \in 1 .. n
        PROVE  IF pattern[i] = Star
               THEN less[i] >= less[i - 1]
               ELSE less[i] = less[i - 1] + 1 /\ candidate[less[i]] = pattern[i]
    <3>1. i \in 1 .. n + 1 /\ i \in 0 .. n /\ i - 1 \in 0 .. n
      OBVIOUS
    <3>2. less[i] = ends[i] /\ less[i - 1] = ends[i - 1]
      BY <1>10, <3>1
    <3> QED
      BY <1>1, <3>1, <3>2
  <2> QED
    BY <1>10, <2>1, <2>2 DEF Fits
<1> QED
  BY <1>4, <1>11

LEMMA FitsPlacedNext ==
  ASSUME NEW C, NEW pattern, NEW candidate, NEW n \in Nat, NEW parts \in SomeParts(C),
         NEW ch \in C, pattern[n + 1] = ch, FitsPlaced(pattern, n, parts, candidate)
  PROVE  FitsPlaced(pattern, n + 1, Split(parts, ch), candidate)
<1>1. PICK K \in Nat \ {0} : K = Len(parts) /\ DOMAIN parts = 1 .. K
  BY DEF SomeParts
<1>2. \A i \in 1 .. K : parts[i] \in Seq(C) /\ Len(parts[i]) \in Nat
  BY <1>1 DEF SomeParts
<1>3. PICK last \in Seq(C) : last = parts[K]
  BY <1>1, <1>2
<1>4. PICK m \in Nat : m = Len(last)
  OBVIOUS
<1>5. PICK next : next = Split(parts, ch)
  OBVIOUS
<1> SUFFICES ASSUME NEW f \in Nat, Fits(pattern, n + 1, candidate, f)
             PROVE  \E at : /\ PlacedWithin(next, Len(next), at, candidate, f)
                            /\ at[Len(next)] + Len(next[Len(next)]) = f
  BY <1>5 DEF FitsPlaced
<1>6. PICK e \in Nat : Fits(pattern, n, candidate, e) /\ Stretches(ch, candidate, e, f)
  BY FitsBefore
<1>7. PICK at : PlacedWithin(parts, K, at, candidate, e) /\ at[K] + m = e
  BY <1>1, <1>3, <1>4, <1>6 DEF FitsPlaced
<1>8. /\ at[1] = 0
      /\ \A i \in 1 .. K : /\ at[i] \in Nat
                           /\ \A j \in 1 .. Len(parts[i]) : candidate[at[i] + j] = parts[i][j]
      /\ \A i \in 1 .. K - 1 : at[i] + Len(parts[i]) <= at[i + 1]
      /\ \A i \in 1 .. K : at[i] + Len(parts[i]) <= e
  BY <1>7 DEF PlacedWithin, Placed
<1>9. e <= f
  BY <1>6 DEF Stretches
<1>10. CASE ch = Star
  <2>1. next = Append(parts, << >>)
    BY <1>5, <1>10 DEF Split
  <2>2. Len(next) = K + 1 /\ next[K + 1] = << >> /\ \A i \in 1 .. K : next[i] = parts[i]
    BY <1>1, <2>1 DEF SomeParts
  <2>3. PICK more : more = [i \in 1 .. K + 1 |-> IF i = K + 1 THEN f ELSE at[i]]
    OBVIOUS
  <2>4. more[K + 1] = f /\ more[1] = 0 /\ \A i \in 1 .. K : more[i] = at[i]
    BY <1>8, <2>3
  <2>5. Len(next[K + 1]) = 0
    BY <2>2
  <2>6. ASSUME NEW i \in 1 .. K + 1
        PROVE  /\ more[i] \in Nat
               /\ \A j \in 1 .. Len(next[i]) : candidate[more[i] + j] = next[i][j]
               /\ more[i] + Len(next[i]) <= f
    <3>1. CASE i = K + 1
      BY <2>4, <2>5, <3>1
    <3>2. CASE i \in 1 .. K
      <4>1. PICK a \in Nat : a = at[i]
        BY <1>8, <3>2
      <4>2. PICK l \in Nat : l = Len(parts[i])
        BY <1>2, <3>2
      <4>3. a + l <= f
        <5>1. a + l <= e
          BY <1>8, <3>2, <4>1, <4>2
        <5> QED
          BY <1>9, <5>1
      <4>4. more[i] = a /\ next[i] = parts[i] /\ Len(next[i]) = l
        BY <2>2, <2>4, <3>2, <4>1, <4>2
      <4>5. \A j \in 1 .. Len(next[i]) : candidate[more[i] + j] = next[i][j]
        BY <1>8, <3>2, <4>1, <4>4
      <4> QED
        BY <4>3, <4>4, <4>5
    <3> QED
      BY <3>1, <3>2
  <2>7. ASSUME NEW i \in 1 .. K
        PROVE  more[i] + Len(next[i]) <= more[i + 1]
    <3>1. CASE i = K
      BY <2>4, <2>6, <3>1
    <3>2. CASE i \in 1 .. K - 1
      <4>1. i + 1 \in 1 .. K
        BY <3>2
      <4> QED
        BY <1>8, <2>2, <2>4, <3>2, <4>1
    <3> QED
      BY <3>1, <3>2
  <2>8. (K + 1) - 1 = K
    OBVIOUS
  <2>9. PlacedWithin(next, K + 1, more, candidate, f)
    BY <2>4, <2>6, <2>7, <2>8 DEF PlacedWithin, Placed
  <2> QED
    BY <2>2, <2>4, <2>5, <2>9
<1>11. CASE ch # Star
  <2>1. next = [parts EXCEPT ![K] = Append(last, ch)]
    BY <1>1, <1>3, <1>5, <1>11 DEF Split
  <2>2. DOMAIN next = 1 .. K /\ next[K] = Append(last, ch) /\ \A i \in 1 .. K - 1 : next[i] = parts[i]
    BY <1>1, <2>1
  <2>3. Len(next) = K
    <3>1. Append(last, ch) \in Seq(C)
      OBVIOUS
    <3>2. next \in [1 .. K -> Seq(C)]
      BY <1>1, <1>2, <2>1, <3>1 DEF SomeParts
    <3> QED
      BY <3>2
  <2>4. Len(next[K]) = m + 1 /\ next[K][m + 1] = ch /\ \A j \in 1 .. m : next[K][j] = last[j]
    BY <1>4, <2>2
  <2>5. PICK a \in Nat : a = at[K]
    BY <1>8
  <2>6. a + m = e /\ a + (m + 1) = f /\ candidate[f] = ch
    <3>1. a + m = e
      BY <1>7, <2>5
    <3>2. f = e + 1 /\ candidate[f] = ch
      BY <1>6, <1>11 DEF Stretches
    <3> QED
      BY <3>1, <3>2
  <2>7. ASSUME NEW i \in 1 .. K
        PROVE  /\ at[i] \in Nat
               /\ \A j \in 1 .. Len(next[i]) : candidate[at[i] + j] = next[i][j]
               /\ at[i] + Len(next[i]) <= f
    <3>1. CASE i = K
      <4>1. ASSUME NEW j \in 1 .. m + 1
            PROVE  candidate[a + j] = next[K][j]
        <5>1. CASE j = m + 1
          BY <2>4, <2>6, <5>1
        <5>2. CASE j \in 1 .. m
          BY <1>3, <1>4, <1>8, <2>4, <2>5, <5>2
        <5> QED
          BY <5>1, <5>2
      <4>2. at[i] = a /\ Len(next[i]) = m + 1 /\ next[i] = next[K]
        BY <2>4, <2>5, <3>1
      <4>3. \A j \in 1 .. Len(next[i]) : candidate[at[i] + j] = next[i][j]
        BY <4>1, <4>2
      <4> QED
        BY <2>6, <4>2, <4>3
    <3>2. CASE i \in 1 .. K - 1
      <4>1. PICK b \in Nat : b = at[i]
        BY <1>8, <3>2
      <4>2. PICK l \in Nat : l = Len(parts[i])
        BY <1>2, <3>2
      <4>3. b + l <= f
        <5>1. b + l <= e
          BY <1>8, <3>2, <4>1, <4>2
        <5> QED
          BY <1>9, <5>1
      <4>4. next[i] = parts[i] /\ Len(next[i]) = l
        BY <2>2, <3>2, <4>2
      <4>5. \A j \in 1 .. Len(next[i]) : candidate[at[i] + j] = next[i][j]
        BY <1>8, <3>2, <4>4
      <4> QED
        BY <4>1, <4>3, <4>4, <4>5
    <3> QED
      BY <3>1, <3>2
  <2>8. \A i \in 1 .. K - 1 : at[i] + Len(next[i]) <= at[i + 1]
    BY <1>8, <2>2
  <2>9. PlacedWithin(next, K, at, candidate, f)
    BY <1>8, <2>7, <2>8 DEF PlacedWithin, Placed
  <2>10. at[K] + Len(next[K]) = f
    BY <2>4, <2>5, <2>6
  <2> QED
    BY <2>3, <2>9, <2>10
<1> QED
  BY <1>10, <1>11

LEMMA PartsPlaced ==
  ASSUME NEW C, NEW pattern \in Seq(C), NEW candidate
  PROVE  FitsPlaced(pattern, Len(pattern), Parts(pattern), candidate)
<1>1. PICK h : /\ h[0] = << << >> >>
               /\ \A n \in 1 .. Len(pattern) : h[n] = Split(h[n - 1], pattern[n])
               /\ Parts(pattern) = h[Len(pattern)]
  BY PartsFold
<1> DEFINE N == Len(pattern)
           Good == {n \in Nat : n <= N =>
                      h[n] \in SomeParts(C) /\ FitsPlaced(pattern, n, h[n], candidate)}
<1>2. N \in Nat /\ DOMAIN pattern = 1 .. N
  OBVIOUS
<1>3. 0 \in Good
  <2>1. PICK none \in Seq(C) : none = << >> /\ Len(none) = 0
    <3>1. << >> \in Seq(C) /\ Len(<< >>) = 0
      OBVIOUS
    <3> QED
      BY <3>1
  <2>2. PICK one : one = <<none>>
    OBVIOUS
  <2>3. one \in SomeParts(C) /\ Len(one) = 1 /\ one[1] = none
    <3>1. <<none>> \in Seq(Seq(C)) /\ Len(<<none>>) = 1 /\ <<none>>[1] = none
      OBVIOUS
    <3>2. <<none>> # << >>
      BY <3>1
    <3> QED
      BY <2>2, <3>1, <3>2 DEF SomeParts
  <2>4. ASSUME NEW e \in Nat, Fits(pattern, 0, candidate, e)
        PROVE  \E at : PlacedWithin(one, 1, at, candidate, e) /\ at[1] + Len(one[1]) = e
    <3>1. e = 0
      BY <2>4 DEF Fits
    <3>2. PICK at : at = [i \in {1} |-> 0]
      OBVIOUS
    <3>3. at[1] = 0 /\ Len(one[1]) = 0 /\ 1 .. 0 = {}
      BY <2>1, <2>3, <3>2
    <3>4. PlacedWithin(one, 1, at, candidate, e)
      BY <3>1, <3>3 DEF PlacedWithin, Placed
    <3> QED
      BY <3>1, <3>3, <3>4
  <2>5. FitsPlaced(pattern, 0, one, candidate)
    BY <2>3, <2>4 DEF FitsPlaced
  <2> QED
    BY <1>1, <2>1, <2>2, <2>3, <2>5
<1>4. ASSUME NEW n \in Good
      PROVE  n + 1 \in Good
  <2> SUFFICES ASSUME n + 1 <= N
               PROVE  h[n + 1] \in SomeParts(C) /\ FitsPlaced(pattern, n + 1, h[n + 1], candidate)
    OBVIOUS
  <2>1. n \in Nat /\ n <= N /\ n + 1 \in 1 .. N /\ (n + 1) - 1 = n
    BY <1>2
  <2>2. PICK parts \in SomeParts(C) : parts = h[n] /\ FitsPlaced(pattern, n, parts, candidate)
    BY <2>1
  <2>3. PICK ch \in C : ch = pattern[n + 1]
    BY <2>1
  <2>4. h[n + 1] = Split(parts, ch)
    BY <1>1, <2>1, <2>2, <2>3
  <2> QED
    BY <2>1, <2>2, <2>3, <2>4, SplitType, FitsPlacedNext
<1>5. Good = Nat
  <2> HIDE DEF Good
  <2>1. Good \in SUBSET Nat
    BY DEF Good
  <2> QED
    BY <1>3, <1>4, <2>1, NumberInduction
<1>6. N \in Good
  BY <1>2, <1>5
<1> QED
  BY <1>1, <1>2, <1>6
LEMMA SameSequence ==
  ASSUME NEW C, NEW s \in Seq(C), NEW t \in Seq(C), NEW n \in Nat, Len(s) = n, Len(t) = n,
         \A j \in 1 .. n : s[j] = t[j]
  PROVE  s = t
<1>1. DOMAIN s = 1 .. n /\ DOMAIN t = 1 .. n
  OBVIOUS
<1>2. s = [j \in 1 .. n |-> s[j]] /\ t = [j \in 1 .. n |-> t[j]]
  BY <1>1
<1> QED
  BY <1>2

LEMMA OccurrenceFound ==
  ASSUME NEW C, NEW part \in Seq(C), NEW candidate \in Seq(C), NEW from \in Nat, NEW pos \in Nat,
         from <= pos, pos + Len(part) <= Len(candidate), StandsAt(part, candidate, pos)
  PROVE  pos \in Occurrences(part, candidate, from)
<1>1. PICK L \in Nat : L = Len(part) /\ DOMAIN part = 1 .. L
  OBVIOUS
<1>2. PICK M \in Nat : M = Len(candidate) /\ DOMAIN candidate = 1 .. M
  OBVIOUS
<1>3. pos + L <= M
  BY <1>1, <1>2
<1>4. pos \in from .. M - L
  BY <1>3
<1>5. PICK cut \in Seq(C) : /\ cut = SubSeq(candidate, pos + 1, pos + L)
                            /\ Len(cut) = L
                            /\ \A j \in 1 .. L : cut[j] = candidate[pos + j]
  <2>1. SubSeq(candidate, pos + 1, pos + L) \in Seq(C)
    BY <1>2, <1>3
  <2>2. Len(SubSeq(candidate, pos + 1, pos + L)) = L
    BY <1>2, <1>3
  <2>3. \A j \in 1 .. L : SubSeq(candidate, pos + 1, pos + L)[j] = candidate[pos + j]
    BY <1>2, <1>3
  <2> QED
    BY <2>1, <2>2, <2>3
<1>6. cut = part
  <2>1. \A j \in 1 .. L : cut[j] = part[j]
    BY <1>1, <1>5 DEF StandsAt
  <2> QED
    BY <1>1, <1>5, <2>1, SameSequence
<1> QED
  BY <1>1, <1>2, <1>4, <1>5, <1>6 DEF Occurrences

LEMMA PrefixFound ==
  ASSUME NEW C, NEW part \in Seq(C), NEW candidate \in Seq(C),
         Len(part) <= Len(candidate), StandsAt(part, candidate, 0)
  PROVE  IsPrefix(part, candidate)
<1>1. PICK L \in Nat : L = Len(part) /\ DOMAIN part = 1 .. L
  OBVIOUS
<1>2. PICK M \in Nat : M = Len(candidate) /\ DOMAIN candidate = 1 .. M
  OBVIOUS
<1>3. L <= M
  BY <1>1, <1>2
<1>4. PICK cut \in Seq(C) : /\ cut = SubSeq(candidate, 1, L)
                            /\ Len(cut) = L
                            /\ \A j \in 1 .. L : cut[j] = candidate[j]
  <2>1. SubSeq(candidate, 1, L) \in Seq(C)
    BY <1>2, <1>3
  <2>2. Len(SubSeq(candidate, 1, L)) = L
    BY <1>2, <1>3
  <2>3. \A j \in 1 .. L : SubSeq(candidate, 1, L)[j] = candidate[j]
    BY <1>2, <1>3
  <2> QED
    BY <2>1, <2>2, <2>3
<1>5. PICK whole \in Seq(C) : /\ whole = SubSeq(part, 1, L)
                              /\ Len(whole) = L
                              /\ \A j \in 1 .. L : whole[j] = part[j]
  <2>1. SubSeq(part, 1, L) \in Seq(C)
    BY <1>1
  <2>2. Len(SubSeq(part, 1, L)) = L
    BY <1>1
  <2>3. \A j \in 1 .. L : SubSeq(part, 1, L)[j] = part[j]
    BY <1>1
  <2> QED
    BY <2>1, <2>2, <2>3
<1>6. \A j \in 1 .. L : candidate[j] = part[j]
  BY <1>1 DEF StandsAt
<1>7. cut = whole
  <2>1. \A j \in 1 .. L : cut[j] = whole[j]
    BY <1>4, <1>5, <1>6
  <2> QED
    BY <1>4, <1>5, <2>1, SameSequence
<1> QED
  BY <1>1, <1>2, <1>3, <1>4, <1>5, <1>7 DEF IsPrefix

\* The reverse of a sequence.
LEMMA Reversed ==
  ASSUME NEW C, NEW s \in Seq(C)
  PROVE  /\ Reverse(s) \in Seq(C)
         /\ Len(Reverse(s)) = Len(s)
         /\ \A i \in 1 .. Len(s) : Reverse(s)[i] = s[Len(s) - i + 1]
<1>1. PICK n \in Nat : n = Len(s)
  OBVIOUS
<1>2. PICK f : f = Reverse(s)
  OBVIOUS
<1>3. f = [i \in 1 .. n |-> s[(n - i) + 1]]
  BY <1>1, <1>2 DEF Reverse
<1>4. \A i \in 1 .. n : s[(n - i) + 1] \in C
  BY <1>1
<1>5. f \in [1 .. n -> C]
  BY <1>3, <1>4
<1>6. f \in Seq(C) /\ Len(f) = n
  BY <1>5
<1>7. \A i \in 1 .. n : f[i] = s[n - i + 1]
  BY <1>3
<1> QED
  BY <1>1, <1>2, <1>6, <1>7

LEMMA SuffixFound ==
  ASSUME NEW C, NEW part \in Seq(C), NEW candidate \in Seq(C),
         Len(part) <= Len(candidate), StandsAt(part, candidate, Len(candidate) - Len(part))
  PROVE  IsSuffix(part, candidate)
<1>1. PICK L \in Nat : L = Len(part)
  OBVIOUS
<1>2. PICK M \in Nat : M = Len(candidate)
  OBVIOUS
<1>3. PICK back \in Seq(C) : back = Reverse(part) /\ Len(back) = L /\ \A i \in 1 .. L : back[i] = part[L - i + 1]
  BY <1>1, Reversed
<1>4. PICK rest \in Seq(C) : rest = Reverse(candidate) /\ Len(rest) = M /\ \A i \in 1 .. M : rest[i] = candidate[M - i + 1]
  BY <1>2, Reversed
<1>5. L <= M
  BY <1>1, <1>2
<1>6. ASSUME NEW i \in 1 .. L
      PROVE  rest[0 + i] = back[i]
  <2>1. PICK j \in 1 .. L : j = L - i + 1
    OBVIOUS
  <2>2. candidate[(M - L) + j] = part[j]
    BY <1>1, <1>2, <2>1 DEF StandsAt
  <2>3. (M - L) + j = M - i + 1 /\ 0 + i = i /\ i \in 1 .. M
    BY <1>5, <2>1
  <2> QED
    BY <1>3, <1>4, <2>1, <2>2, <2>3
<1>7. StandsAt(back, rest, 0)
  BY <1>3, <1>6 DEF StandsAt
<1>8. IsPrefix(back, rest)
  BY <1>3, <1>4, <1>5, <1>7, PrefixFound
<1> QED
  BY <1>3, <1>4, <1>8 DEF IsSuffix

\* A middle part that stands at or behind the cursor moves it, and not beyond that place.
LEMMA AfterMiddleReaches ==
  ASSUME NEW C, NEW part \in Seq(C), NEW candidate \in Seq(C), NEW cursor \in SUBSET Nat,
         NEW from \in cursor, NEW pos \in Nat, from <= pos,
         pos + Len(part) <= Len(candidate), StandsAt(part, candidate, pos)
  PROVE  \E e \in AfterMiddle(part, candidate, cursor) : e \in Nat /\ e <= pos + Len(part)
<1>1. PICK T : T = Occurrences(part, candidate, from)
  OBVIOUS
<1>2. pos \in T
  BY <1>1, OccurrenceFound
<1>3. T \subseteq Nat
  <2>1. Len(candidate) \in Nat /\ Len(part) \in Nat /\ from \in Nat
    OBVIOUS
  <2>2. \A p \in from .. Len(candidate) - Len(part) : p \in Nat
    BY <2>1
  <2> QED
    BY <1>1, <2>2 DEF Occurrences
<1>4. Min(T) \in T /\ \A p \in T : Min(T) <= p
  BY <1>2, <1>3, LeastElement DEF Min
<1>5. PICK least \in Nat : least = Min(T) /\ least <= pos
  BY <1>2, <1>3, <1>4
<1>6. PICK L \in Nat : L = Len(part)
  OBVIOUS
<1>7. PICK e \in Nat : e = least + L
  OBVIOUS
<1>8. e \in AfterMiddle(part, candidate, cursor)
  BY <1>1, <1>2, <1>5, <1>6, <1>7 DEF AfterMiddle
<1>9. e <= pos + L
  BY <1>5, <1>7
<1> QED
  BY <1>6, <1>8, <1>9

\* The cursor is not lost, and not behind the place where the parts before it stand.
Reaches(cursor, e) == \E x \in cursor : x \in Nat /\ x <= e

LEMMA CursorReaches ==
  ASSUME NEW C, NEW candidate \in Seq(C), NEW parts \in SomeParts(C), NEW k \in Nat \ {0},
         k + 1 = Len(parts), NEW at, PlacedWithin(parts, k + 1, at, candidate, Len(candidate))
  PROVE  Reaches(CursorBehind(parts[1], SubSeq(parts, 2, k), candidate), at[k] + Len(parts[k]))
<1>1. PICK middle : middle = SubSeq(parts, 2, k)
  OBVIOUS
<1>2. parts \in Seq(Seq(C))
  BY DEF SomeParts
<1>3. middle \in Seq(Seq(C)) /\ Len(middle) = k - 1 /\ \A i \in 1 .. k - 1 : middle[i] = parts[i + 1]
  BY <1>1, <1>2
<1>4. \A i \in 1 .. k + 1 : parts[i] \in Seq(C) /\ Len(parts[i]) \in Nat
  BY <1>2
<1>5. PICK first \in Seq(C) : first = parts[1]
  BY <1>4
<1>6. PICK h : /\ h[0] = AfterFirst(first, candidate)
               /\ \A n \in 1 .. Len(middle) : h[n] = AfterMiddle(middle[n], candidate, h[n - 1])
               /\ CursorBehind(first, middle, candidate) = h[Len(middle)]
  <2>1. middle \in Seq(Seq(C))
    BY <1>3
  <2> QED
    BY <2>1, CursorFold
<1>7. PICK M \in Nat : M = Len(candidate)
  OBVIOUS
<1>8. /\ at[1] = 0
      /\ \A i \in 1 .. k + 1 : at[i] \in Nat /\ StandsAt(parts[i], candidate, at[i])
      /\ \A i \in 1 .. k : at[i] + Len(parts[i]) <= at[i + 1]
      /\ \A i \in 1 .. k + 1 : at[i] + Len(parts[i]) <= M
  <2>1. (k + 1) - 1 = k
    OBVIOUS
  <2> QED
    BY <1>7, <2>1 DEF PlacedWithin, Placed, StandsAt
<1> DEFINE Good == {n \in Nat : n <= k - 1 =>
                      /\ h[n] \in SUBSET Nat
                      /\ Reaches(h[n], at[n + 1] + Len(parts[n + 1]))}
<1>9. 0 \in Good
  <2>1. StandsAt(first, candidate, 0) /\ at[1] + Len(first) <= M /\ at[1] = 0
    BY <1>5, <1>8
  <2>2. PICK L \in Nat : L = Len(first)
    OBVIOUS
  <2>3. L <= M /\ at[1] + L = L
    BY <2>1, <2>2
  <2>4. IsPrefix(first, candidate)
    BY <1>7, <2>1, <2>2, <2>3, PrefixFound
  <2>5. h[0] = {L}
    BY <1>6, <2>2, <2>4 DEF AfterFirst
  <2>6. Reaches(h[0], at[1] + Len(parts[1]))
    BY <1>5, <2>2, <2>3, <2>5 DEF Reaches
  <2>7. 0 + 1 = 1
    OBVIOUS
  <2> QED
    BY <2>5, <2>6, <2>7
<1>10. ASSUME NEW n \in Good
       PROVE  n + 1 \in Good
  <2> SUFFICES ASSUME n + 1 <= k - 1
               PROVE  /\ h[n + 1] \in SUBSET Nat
                      /\ Reaches(h[n + 1], at[(n + 1) + 1] + Len(parts[(n + 1) + 1]))
    OBVIOUS
  <2>1. n \in Nat /\ n <= k - 1 /\ n + 1 \in 1 .. k - 1 /\ (n + 1) - 1 = n /\ n + 1 \in Nat \ {0}
    OBVIOUS
  <2>2. PICK K \in Nat \ {0} : K = n + 1
    BY <2>1
  <2>3. K + 1 \in 1 .. k + 1 /\ K \in 1 .. k - 1 /\ K \in 1 .. k
    BY <2>1, <2>2
  <2>4. PICK part \in Seq(C) : part = parts[K + 1] /\ Len(part) \in Nat
    BY <1>4, <2>3
  <2>5. PICK cursor \in SUBSET Nat : cursor = h[n]
    BY <2>1
  <2>6. h[K] = AfterMiddle(part, candidate, cursor)
    BY <1>3, <1>6, <2>1, <2>2, <2>3, <2>4, <2>5
  <2>7. PICK pos \in Nat : pos = at[K + 1] /\ StandsAt(part, candidate, pos)
    BY <1>8, <2>3, <2>4
  <2>8. pos + Len(part) <= Len(candidate) /\ at[K] + Len(parts[K]) <= pos
    BY <1>7, <1>8, <2>3, <2>4, <2>7
  <2>9. Reaches(cursor, at[K] + Len(parts[K]))
    BY <2>1, <2>2, <2>5
  <2>10. PICK x \in cursor : x \in Nat /\ x <= at[K] + Len(parts[K])
    BY <2>9 DEF Reaches
  <2>11. x <= pos
    <3>1. PICK a \in Nat : a = at[K]
      BY <1>8, <2>3
    <3>2. PICK l \in Nat : l = Len(parts[K])
      <4>1. K \in 1 .. k + 1
        BY <2>3
      <4> QED
        BY <1>4, <4>1
    <3>3. x <= a + l /\ a + l <= pos
      BY <2>8, <2>10, <3>1, <3>2
    <3> QED
      BY <2>10, <3>3
  <2>12. Reaches(h[K], pos + Len(part))
    <3>1. PICK y \in AfterMiddle(part, candidate, cursor) : y \in Nat /\ y <= pos + Len(part)
      BY <2>7, <2>8, <2>11, AfterMiddleReaches
    <3> QED
      BY <2>6, <3>1 DEF Reaches
  <2>13. h[K] \in SUBSET Nat
    <3>1. ASSUME NEW y \in AfterMiddle(part, candidate, cursor)
          PROVE  y \in Nat
      <4>1. EndsAt(part, candidate, cursor, y)
        BY AfterMiddleFinds
      <4>2. PICK p \in Nat : y = p + Len(part)
        BY <4>1 DEF EndsAt
      <4> QED
        BY <2>4, <4>2
    <3> QED
      BY <2>6, <3>1
  <2> QED
    BY <2>2, <2>4, <2>7, <2>12, <2>13
<1>11. Good = Nat
  <2> HIDE DEF Good
  <2>1. Good \in SUBSET Nat
    BY DEF Good
  <2> QED
    BY <1>9, <1>10, <2>1, NumberInduction
<1>12. k - 1 \in Good /\ (k - 1) + 1 = k
  BY <1>11
<1>13. Reaches(h[k - 1], at[k] + Len(parts[k]))
  BY <1>12
<1> QED
  BY <1>1, <1>3, <1>5, <1>6, <1>13

\* The single pass of glob_match misses nothing the pattern denotes (capability.rs).
LEMMA GlobMatchComplete ==
  ASSUME NEW C, NEW pattern \in Seq(C), NEW candidate \in Seq(C), Denotes(pattern, candidate)
  PROVE  GlobMatch(pattern, candidate)
<1>1. PICK parts \in SomeParts(C) : parts = Parts(pattern)
  BY PartsFit
<1>2. PICK N \in Nat : N = Len(pattern)
  OBVIOUS
<1>3. PICK M \in Nat : M = Len(candidate)
  OBVIOUS
<1>4. PICK K \in Nat \ {0} : K = Len(parts) /\ \A i \in 1 .. K : parts[i] \in Seq(C) /\ Len(parts[i]) \in Nat
  <2>1. PICK n \in Nat \ {0} : n = Len(parts) /\ DOMAIN parts = 1 .. n
    BY DEF SomeParts
  <2>2. \A i \in 1 .. n : parts[i] \in Seq(C)
    BY <2>1 DEF SomeParts
  <2>3. \A i \in 1 .. n : Len(parts[i]) \in Nat
    BY <2>2
  <2> QED
    BY <2>1, <2>2, <2>3
<1>5. ASSUME NEW s \in Seq(C), Denotes(pattern, s)
      PROVE  \E at : PlacedWithin(parts, K, at, s, Len(s)) /\ at[K] + Len(parts[K]) = Len(s)
  <2>1. Fits(pattern, N, s, Len(s))
    BY <1>2, <1>5 DEF Denotes, Fits
  <2>2. FitsPlaced(pattern, N, parts, s)
    BY <1>1, <1>2, PartsPlaced
  <2>3. Len(s) \in Nat
    OBVIOUS
  <2> QED
    BY <1>4, <2>1, <2>2, <2>3 DEF FitsPlaced
<1>6. PICK at : PlacedWithin(parts, K, at, candidate, M) /\ at[K] + Len(parts[K]) = M
  BY <1>3, <1>5
<1>7. CASE K = 1
  <2>1. ASSUME NEW s \in Seq(C), Denotes(pattern, s)
        PROVE  s = parts[1]
    <3>1. PICK where : PlacedWithin(parts, 1, where, s, Len(s)) /\ where[1] + Len(parts[1]) = Len(s)
      BY <1>5, <1>7, <2>1
    <3>2. PICK L \in Nat : L = Len(parts[1])
      BY <1>4
    <3>3. where[1] = 0 /\ \A j \in 1 .. L : s[where[1] + j] = parts[1][j]
      BY <3>1, <3>2 DEF PlacedWithin, Placed
    <3>4. Len(s) = L
      BY <3>1, <3>2, <3>3
    <3>5. \A j \in 1 .. L : s[j] = parts[1][j]
      <4>1. \A j \in 1 .. L : 0 + j = j
        OBVIOUS
      <4> QED
        BY <3>3, <4>1
    <3>6. PICK part \in Seq(C) : part = parts[1]
      BY <1>4
    <3>7. Len(part) = L /\ \A j \in 1 .. L : s[j] = part[j]
      BY <3>2, <3>5, <3>6
    <3>8. s = part
      BY <3>4, <3>7, SameSequence
    <3> QED
      BY <3>6, <3>8
  <2>2. pattern = parts[1] /\ candidate = parts[1]
    BY <2>1, DenotesItself
  <2> QED
    BY <1>1, <1>4, <1>7, <2>2 DEF GlobMatch
<1>8. CASE K # 1
  <2>1. PICK k \in Nat \ {0} : k + 1 = K /\ K - 1 = k
    <3>1. K - 1 \in Nat \ {0} /\ (K - 1) + 1 = K
      BY <1>8
    <3> QED
      BY <3>1
  <2>2. PICK cursor : cursor = CursorBehind(parts[1], SubSeq(parts, 2, k), candidate)
    OBVIOUS
  <2>3. Reaches(cursor, at[k] + Len(parts[k]))
    <3>1. PlacedWithin(parts, k + 1, at, candidate, Len(candidate))
      BY <1>3, <1>6, <2>1
    <3> QED
      BY <1>4, <2>1, <2>2, <3>1, CursorReaches
  <2>4. PICK last \in Seq(C) : last = parts[K]
    BY <1>4
  <2>5. PICK L \in Nat : L = Len(last)
    OBVIOUS
  <2>6. PICK pos \in Nat : pos = at[K] /\ StandsAt(last, candidate, pos) /\ pos + L = M
    <3>1. at[K] \in Nat /\ \A j \in 1 .. Len(parts[K]) : candidate[at[K] + j] = parts[K][j]
      <4>1. K \in 1 .. K
        OBVIOUS
      <4> QED
        BY <1>6, <4>1 DEF PlacedWithin, Placed
    <3>2. at[K] + L = M
      BY <1>6, <2>4, <2>5
    <3> QED
      BY <2>4, <3>1, <3>2 DEF StandsAt
  <2>7. IsSuffix(last, candidate)
    <3>1. pos + L = M
      BY <2>6
    <3>2. L <= M /\ M - L = pos
      BY <3>1
    <3> QED
      BY <1>3, <2>5, <2>6, <3>2, SuffixFound
  <2>8. at[k] + Len(parts[k]) <= pos
    <3>1. k \in 1 .. K - 1
      BY <2>1
    <3> QED
      BY <1>6, <2>1, <2>6, <3>1 DEF PlacedWithin, Placed
  <2>9. PICK x \in cursor : x \in Nat /\ x <= at[k] + Len(parts[k])
    BY <2>3 DEF Reaches
  <2>10. M - x >= L
    <3>1. PICK a \in Nat : a = at[k]
      <4>1. k \in 1 .. K
        BY <2>1
      <4> QED
        BY <1>6, <4>1 DEF PlacedWithin, Placed
    <3>2. PICK l \in Nat : l = Len(parts[k])
      <4>1. k \in 1 .. K
        BY <2>1
      <4> QED
        BY <1>4, <4>1
    <3>3. x <= a + l /\ a + l <= pos
      BY <2>8, <2>9, <3>1, <3>2
    <3> QED
      BY <2>6, <2>9, <3>3
  <2>11. EndsWith(last, candidate, cursor)
    BY <1>3, <2>5, <2>7, <2>10 DEF EndsWith
  <2> QED
    BY <1>1, <1>4, <1>8, <2>1, <2>2, <2>4, <2>11 DEF GlobMatch
<1> QED
  BY <1>7, <1>8

\* A granted glob admits exactly the hosts it denotes, although glob_match never
\* comes back on where a part was found (capability.rs).
THEOREM GlobIsExact == TSpec => []GlobAgrees
<1>1. GlobAgrees
  <2> SUFFICES ASSUME NEW pattern \in BoundedSeq({Star, "a", "b"}, 4),
                      NEW candidate \in BoundedSeq({"a", "b"}, 4)
               PROVE  GlobMatch(pattern, candidate) <=> Denotes(pattern, candidate)
    BY DEF GlobAgrees
  <2>1. PICK C : C = {Star, "a", "b"}
    OBVIOUS
  <2>2. pattern \in Seq(C)
    <3>1. PICK n \in 0 .. 4 : pattern \in [1 .. n -> C]
      BY <2>1 DEF BoundedSeq, SeqOf
    <3> QED
      BY <3>1
  <2>3. candidate \in Seq(C)
    <3>1. PICK n \in 0 .. 4 : candidate \in [1 .. n -> {"a", "b"}]
      BY DEF BoundedSeq, SeqOf
    <3>2. candidate \in [1 .. n -> C]
      BY <2>1, <3>1
    <3> QED
      BY <3>2
  <2> QED
    BY <2>2, <2>3, GlobMatchSound, GlobMatchComplete
<1> QED
  BY <1>1, PTL

-----------------------------------------------------------------------------
(* The table of addresses.  The bits of a network's prefix cover some      *)
(* parts of an address and the upper bits of the next, and the upper bits  *)
(* of a part are a quotient of it.  Powers, quotients and last bits are    *)
(* named so that they can be left unexpanded.                              *)

Pow(k) == 2 ^ k
Quotient(x, k) == x \div Pow(k)
LastBit(q) == q % 2

\* x and y agree in the first m of their w bits.
SameBits(x, y, w, m) == \A b \in 1 .. m : LastBit(Quotient(x, w - b)) = LastBit(Quotient(y, w - b))

LEMMA Powers ==
  ASSUME NEW k \in 0 .. 15
  PROVE  Pow(k) \in Nat \ {0} /\ Pow(k + 1) = Pow(k) + Pow(k)
<1>1. /\ Pow(0) = 1 /\ Pow(1) = 2 /\ Pow(2) = 4 /\ Pow(3) = 8 /\ Pow(4) = 16 /\ Pow(5) = 32
      /\ Pow(6) = 64 /\ Pow(7) = 128 /\ Pow(8) = 256 /\ Pow(9) = 512 /\ Pow(10) = 1024
      /\ Pow(11) = 2048 /\ Pow(12) = 4096 /\ Pow(13) = 8192 /\ Pow(14) = 16384
      /\ Pow(15) = 32768 /\ Pow(16) = 65536
  BY DEF Pow
<1>2. \/ k = 0 /\ k + 1 = 1
      \/ k = 1 /\ k + 1 = 2
      \/ k = 2 /\ k + 1 = 3
      \/ k = 3 /\ k + 1 = 4
      \/ k = 4 /\ k + 1 = 5
      \/ k = 5 /\ k + 1 = 6
      \/ k = 6 /\ k + 1 = 7
      \/ k = 7 /\ k + 1 = 8
      \/ k = 8 /\ k + 1 = 9
      \/ k = 9 /\ k + 1 = 10
      \/ k = 10 /\ k + 1 = 11
      \/ k = 11 /\ k + 1 = 12
      \/ k = 12 /\ k + 1 = 13
      \/ k = 13 /\ k + 1 = 14
      \/ k = 14 /\ k + 1 = 15
      \/ k = 15 /\ k + 1 = 16
  OBVIOUS
<1> QED
  BY <1>1, <1>2

LEMMA QuotientType ==
  ASSUME NEW x \in Nat, NEW k \in 0 .. 16
  PROVE  Quotient(x, k) \in Nat
<1>1. PICK W \in Nat \ {0} : W = Pow(k)
  <2>1. CASE k \in 0 .. 15
    BY <2>1, Powers
  <2>2. CASE k = 16
    <3>1. Pow(16) = 65536
      BY DEF Pow
    <3> QED
      BY <2>2, <3>1
  <2> QED
    BY <2>1, <2>2
<1> QED
  BY <1>1 DEF Quotient

\* The quotient loses one bit with every power.
LEMMA Halving ==
  ASSUME NEW x \in Nat, NEW k \in 0 .. 15,
         NEW q \in Nat, q = Quotient(x, k), NEW g \in Nat, g = Quotient(x, k + 1),
         NEW b \in 0 .. 1, b = LastBit(q)
  PROVE  q = 2 * g + b
<1>1. PICK W \in Nat \ {0} : W = Pow(k)
  BY Powers
<1>2. PICK V \in Nat \ {0} : V = Pow(k + 1) /\ V = W + W
  <2>1. Pow(k + 1) = Pow(k) + Pow(k)
    BY Powers
  <2>2. W + W \in Nat \ {0}
    OBVIOUS
  <2> QED
    BY <1>1, <2>1, <2>2
<1>3. q = x \div W
  BY <1>1 DEF Quotient
<1>4. PICK r \in 0 .. W - 1 : r = x % W
  OBVIOUS
<1>5. PICK h \in Nat : h = q \div 2
  OBVIOUS
<1>6. b = q % 2
  BY DEF LastBit
<1>7. q = 2 * h + b
  BY <1>5, <1>6
<1>8. PICK a \in Nat : a = q * W
  OBVIOUS
<1>9. x = a + r
  BY <1>3, <1>4, <1>8
<1>10. PICK c \in Nat : c = h * V
  OBVIOUS
<1>11. PICK d \in Nat : d = h * W
  OBVIOUS
<1>12. PICK e \in Nat : e = b * W /\ e \in {0, W}
  OBVIOUS
<1>13. c = d + d
  BY <1>2, <1>10, <1>11
<1>14. a = d + d + e
  <2>1. PICK g2 \in Nat : g2 = h + h
    OBVIOUS
  <2>2. PICK f \in Nat : f = g2 * W
    OBVIOUS
  <2>3. f = d + d
    BY <1>11, <2>1, <2>2
  <2>4. q = g2 + b
    BY <1>7, <2>1
  <2>5. a = f + e
    BY <1>8, <1>12, <2>2, <2>4
  <2> QED
    BY <2>3, <2>5
<1>15. PICK s \in 0 .. V - 1 : s = e + r
  BY <1>2, <1>12
<1>16. x = c + s
  BY <1>9, <1>13, <1>14, <1>15
<1>17. x \div V = h
  <2>1. h \in Int
    OBVIOUS
  <2>2. (h * V + s) \div V = h
    BY <2>1, DivisionUnique
  <2> QED
    BY <1>10, <1>16, <2>2
<1>18. g = h
  BY <1>2, <1>17 DEF Quotient
<1> QED
  BY <1>7, <1>18

\* The numbers of w bits whose first m bits agree are those with the same quotient.
LEMMA SamePrefix ==
  ASSUME NEW w \in 1 .. 16, NEW x \in 0 .. Pow(w) - 1, NEW y \in 0 .. Pow(w) - 1, NEW m \in 0 .. w
  PROVE  SameBits(x, y, w, m) <=> Quotient(x, w - m) = Quotient(y, w - m)
<1> DEFINE Good == {n \in Nat : n <= w => (SameBits(x, y, w, n) <=> Quotient(x, w - n) = Quotient(y, w - n))}
<1>1. PICK W \in Nat \ {0} : W = Pow(w)
  <2>1. PICK k \in 0 .. 15 : w = k + 1
    <3>1. w - 1 \in 0 .. 15 /\ w = (w - 1) + 1
      OBVIOUS
    <3> QED
      BY <3>1
  <2>2. PICK V \in Nat \ {0} : V = Pow(k)
    BY Powers
  <2>3. Pow(k + 1) = V + V
    BY <2>2, Powers
  <2> QED
    BY <2>1, <2>2, <2>3
<1>2. x \in Nat /\ y \in Nat /\ x \in 0 .. W - 1 /\ y \in 0 .. W - 1
  BY <1>1
<1>3. 0 \in Good
  <2>1. (0 * W + x) \div W = 0 /\ (0 * W + y) \div W = 0 /\ 0 * W + x = x /\ 0 * W + y = y
    BY <1>2, DivisionUnique
  <2>2. Quotient(x, w) = 0 /\ Quotient(y, w) = 0
    BY <1>1, <2>1 DEF Quotient
  <2>3. w - 0 = w /\ 1 .. 0 = {}
    OBVIOUS
  <2> QED
    BY <2>2, <2>3 DEF SameBits
<1>4. ASSUME NEW n \in Good
      PROVE  n + 1 \in Good
  <2> SUFFICES ASSUME n + 1 <= w
               PROVE  SameBits(x, y, w, n + 1) <=> Quotient(x, w - (n + 1)) = Quotient(y, w - (n + 1))
    OBVIOUS
  <2>1. PICK k \in 0 .. 15 : w - (n + 1) = k /\ w - n = k + 1
    <3>1. w - (n + 1) \in 0 .. 15 /\ w - n = (w - (n + 1)) + 1
      OBVIOUS
    <3> QED
      BY <3>1
  <2>2. SameBits(x, y, w, n) <=> Quotient(x, k + 1) = Quotient(y, k + 1)
    BY <2>1
  <2>3. SameBits(x, y, w, n + 1) <=> SameBits(x, y, w, n) /\ LastBit(Quotient(x, k)) = LastBit(Quotient(y, k))
    <3>1. 1 .. n + 1 = (1 .. n) \cup {n + 1}
      OBVIOUS
    <3> QED
      BY <2>1, <3>1 DEF SameBits
  <2>4. PICK p \in Nat : p = Quotient(x, k)
    <3>1. k \in 0 .. 16
      OBVIOUS
    <3> QED
      BY <1>2, <3>1, QuotientType
  <2>5. PICK q \in Nat : q = Quotient(y, k)
    <3>1. k \in 0 .. 16
      OBVIOUS
    <3> QED
      BY <1>2, <3>1, QuotientType
  <2>6. PICK g \in Nat : g = Quotient(x, k + 1)
    <3>1. k + 1 \in 0 .. 16
      OBVIOUS
    <3> QED
      BY <1>2, <3>1, QuotientType
  <2>7. PICK h \in Nat : h = Quotient(y, k + 1)
    <3>1. k + 1 \in 0 .. 16
      OBVIOUS
    <3> QED
      BY <1>2, <3>1, QuotientType
  <2>8. PICK a \in 0 .. 1 : a = LastBit(p)
    BY DEF LastBit
  <2>9. PICK b \in 0 .. 1 : b = LastBit(q)
    BY DEF LastBit
  <2>10. p = 2 * g + a
    <3>1. x \in Nat
      BY <1>2
    <3> QED
      BY <2>4, <2>6, <2>8, <3>1, Halving
  <2>11. q = 2 * h + b
    <3>1. y \in Nat
      BY <1>2
    <3> QED
      BY <2>5, <2>7, <2>9, <3>1, Halving
  <2>12. (g = h /\ a = b) <=> p = q
    BY <2>10, <2>11
  <2> QED
    BY <2>1, <2>2, <2>3, <2>4, <2>5, <2>6, <2>7, <2>8, <2>9, <2>12
<1>5. Good = Nat
  <2> HIDE DEF Good
  <2>1. Good \in SUBSET Nat
    BY DEF Good
  <2> QED
    BY <1>3, <1>4, <2>1, NumberInduction
<1> QED
  BY <1>5

\* The prefix of a network covers whole parts of the address, and some bits of the next.
LEMMA NetworkParts ==
  ASSUME NEW w \in Nat \ {0}, NEW q \in Nat, NEW r \in 0 .. w - 1,
         NEW n \in Nat, n = q * w + r, NEW parts, NEW net
  PROVE  InNetwork(parts, w, <<net, n>>) <=>
           /\ \A j \in 1 .. q : SameBits(parts[j], net[j], w, w)
           /\ SameBits(parts[q + 1], net[q + 1], w, r)
<1> DEFINE Same(j, b) == LastBit(Quotient(parts[j], w - b)) = LastBit(Quotient(net[j], w - b))
<1>1. ASSUME NEW j \in Nat \ {0}, NEW b \in 1 .. w, NEW i \in Nat \ {0}, i = (j - 1) * w + b
      PROVE  Bit(parts, w, i) = Bit(net, w, i) <=> Same(j, b)
  <2>1. PICK a \in Int : a = (j - 1) * w
    OBVIOUS
  <2>2. ((j - 1) * w + (b - 1)) \div w = j - 1 /\ ((j - 1) * w + (b - 1)) % w = b - 1
    <3>1. j - 1 \in Int /\ b - 1 \in 0 .. w - 1
      OBVIOUS
    <3> QED
      BY <3>1, DivisionUnique
  <2>3. i - 1 = a + (b - 1)
    BY <1>1, <2>1
  <2>4. (i - 1) \div w = j - 1 /\ (i - 1) % w = b - 1
    BY <2>1, <2>2, <2>3
  <2>5. (i - 1) \div w + 1 = j /\ w - 1 - ((i - 1) % w) = w - b
    BY <2>4
  <2> QED
    BY <2>5 DEF Bit, Pow, Quotient, LastBit
<1>2. InNetwork(parts, w, <<net, n>>) <=> \A i \in 1 .. n : Bit(parts, w, i) = Bit(net, w, i)
  BY DEF InNetwork
<1>3. ASSUME InNetwork(parts, w, <<net, n>>), NEW j \in 1 .. q + 1, NEW b \in 1 .. w, j = q + 1 => b <= r
      PROVE  Same(j, b)
  <2>1. PICK a \in Nat : a = (j - 1) * w
    OBVIOUS
  <2>2. PICK i \in Nat \ {0} : i = a + b
    OBVIOUS
  <2>3. PICK c \in Nat : c = q * w
    OBVIOUS
  <2>4. i <= n
    <3>1. CASE j = q + 1
      BY <1>3, <2>1, <2>2, <2>3, <3>1
    <3>2. CASE j <= q
      <4>1. PICK d \in Nat : d = q - j
        BY <3>2
      <4>2. PICK e \in Nat : e = d * w
        OBVIOUS
      <4>3. c = a + w + e
        BY <2>1, <2>3, <4>1, <4>2
      <4> QED
        BY <2>2, <2>3, <4>3
    <3> QED
      BY <3>1, <3>2
  <2>5. j \in Nat \ {0} /\ i = (j - 1) * w + b
    BY <2>1, <2>2
  <2> QED
    BY <1>1, <1>2, <1>3, <2>2, <2>4, <2>5
<1>4. ASSUME \A j \in 1 .. q : \A b \in 1 .. w : Same(j, b),
             \A b \in 1 .. r : Same(q + 1, b),
             NEW i \in 1 .. n
      PROVE  Bit(parts, w, i) = Bit(net, w, i)
  <2>1. PICK p \in Nat : p = (i - 1) \div w
    OBVIOUS
  <2>2. PICK s \in 0 .. w - 1 : s = (i - 1) % w
    OBVIOUS
  <2>3. PICK a \in Nat : a = p * w
    OBVIOUS
  <2>4. i - 1 = a + s
    BY <2>1, <2>2, <2>3
  <2>5. PICK c \in Nat : c = q * w
    OBVIOUS
  <2>6. i <= c + r
    BY <2>5
  <2>7. p <= q /\ (p = q => s + 1 <= r)
    <3>1. PICK d \in Int : d = p - q
      OBVIOUS
    <3>2. PICK e \in Int : e = d * w
      OBVIOUS
    <3>3. a = c + e
      BY <2>3, <2>5, <3>1, <3>2
    <3>4. (d >= 1 => e >= w) /\ (d = 0 => e = 0)
      BY <3>2
    <3> QED
      BY <2>4, <2>6, <3>1, <3>3, <3>4
  <2>8. PICK j \in Nat \ {0} : j = p + 1 /\ j - 1 = p
    <3>1. (p + 1) - 1 = p
      OBVIOUS
    <3> QED
      BY <3>1
  <2>9. PICK b \in 1 .. w : b = s + 1
    OBVIOUS
  <2>10. Same(j, b)
    <3>1. CASE p = q
      BY <1>4, <2>7, <2>8, <2>9, <3>1
    <3>2. CASE p < q
      BY <1>4, <2>8, <2>9, <3>2
    <3> QED
      BY <2>7, <3>1, <3>2
  <2>11. i \in Nat \ {0} /\ i = (j - 1) * w + b
    BY <2>3, <2>4, <2>8, <2>9
  <2> QED
    BY <1>1, <2>10, <2>11
<1>5. ASSUME InNetwork(parts, w, <<net, n>>)
      PROVE  /\ \A j \in 1 .. q : SameBits(parts[j], net[j], w, w)
             /\ SameBits(parts[q + 1], net[q + 1], w, r)
  <2>1. ASSUME NEW j \in 1 .. q, NEW b \in 1 .. w
        PROVE  Same(j, b)
    <3>1. j \in 1 .. q + 1 /\ j # q + 1
      OBVIOUS
    <3> HIDE DEF Same
    <3> QED
      BY <1>3, <1>5, <3>1
  <2>2. ASSUME NEW b \in 1 .. r
        PROVE  Same(q + 1, b)
    <3>1. q + 1 \in 1 .. q + 1 /\ b \in 1 .. w /\ b <= r
      OBVIOUS
    <3> HIDE DEF Same
    <3> QED
      BY <1>3, <1>5, <3>1
  <2> QED
    BY <2>1, <2>2 DEF SameBits
<1>6. ASSUME \A j \in 1 .. q : SameBits(parts[j], net[j], w, w),
             SameBits(parts[q + 1], net[q + 1], w, r)
      PROVE  InNetwork(parts, w, <<net, n>>)
  <2>1. \A j \in 1 .. q : \A b \in 1 .. w : Same(j, b)
    BY <1>6 DEF SameBits
  <2>2. \A b \in 1 .. r : Same(q + 1, b)
    BY <1>6 DEF SameBits
  <2> QED
    BY <1>2, <1>4, <2>1, <2>2
<1> QED
  BY <1>5, <1>6

LEMMA PowerValues == Pow(8) = 256 /\ Pow(16) = 65536
  BY DEF Pow

\* Octets and segments.
LEMMA PartPrefix ==
  ASSUME NEW w \in {8, 16}, NEW x \in 0 .. Pow(w) - 1, NEW y \in 0 .. Pow(w) - 1
  PROVE  /\ SameBits(x, y, w, 0)
         /\ SameBits(x, y, w, w) <=> x = y
         /\ \A m \in 1 .. w : SameBits(x, y, w, m) <=> Quotient(x, w - m) = Quotient(y, w - m)
<1>1. w \in 1 .. 16 /\ w \in 0 .. w /\ w - w = 0 /\ 1 .. 0 = {}
  OBVIOUS
<1>2. x \in Nat /\ y \in Nat
  BY PowerValues
<1>3. x \div 1 = x /\ y \div 1 = y
  BY <1>2
<1>4. Quotient(x, 0) = x /\ Quotient(y, 0) = y
  <2>1. Pow(0) = 1
    BY DEF Pow
  <2> QED
    BY <1>3, <2>1 DEF Quotient
<1>5. SameBits(x, y, w, 0)
  BY <1>1 DEF SameBits
<1>6. SameBits(x, y, w, w) <=> x = y
  BY <1>1, <1>4, SamePrefix
<1>7. ASSUME NEW m \in 1 .. w
      PROVE  SameBits(x, y, w, m) <=> Quotient(x, w - m) = Quotient(y, w - m)
  <2>1. m \in 0 .. w
    OBVIOUS
  <2> QED
    BY <1>1, <2>1, SamePrefix
<1> QED
  BY <1>5, <1>6, <1>7

Address4 == [1 .. 4 -> 0 .. 255]
Address6 == [1 .. 8 -> 0 .. Pow(16) - 1]

LEMMA Network4 ==
  ASSUME NEW o \in Address4, NEW net \in Address4
  PROVE  /\ InNetwork(o, 8, <<net, 4>>) <=> o[1] \div 16 = net[1] \div 16
         /\ InNetwork(o, 8, <<net, 8>>) <=> o[1] = net[1]
         /\ InNetwork(o, 8, <<net, 10>>) <=> o[1] = net[1] /\ o[2] \div 64 = net[2] \div 64
         /\ InNetwork(o, 8, <<net, 12>>) <=> o[1] = net[1] /\ o[2] \div 16 = net[2] \div 16
         /\ InNetwork(o, 8, <<net, 15>>) <=> o[1] = net[1] /\ o[2] \div 2 = net[2] \div 2
         /\ InNetwork(o, 8, <<net, 16>>) <=> o[1] = net[1] /\ o[2] = net[2]
         /\ InNetwork(o, 8, <<net, 24>>) <=> o[1] = net[1] /\ o[2] = net[2] /\ o[3] = net[3]
         /\ InNetwork(o, 8, <<net, 32>>) <=> o = net
<1> DEFINE Same(j, m) == SameBits(o[j], net[j], 8, m)
<1>1. ASSUME NEW j \in 1 .. 4
      PROVE  /\ Same(j, 0)
             /\ Same(j, 8) <=> o[j] = net[j]
             /\ \A m \in 1 .. 8 : Same(j, m) <=> Quotient(o[j], 8 - m) = Quotient(net[j], 8 - m)
  <2>1. o[j] \in 0 .. Pow(8) - 1 /\ net[j] \in 0 .. Pow(8) - 1
    <3>1. Pow(8) - 1 = 255
      BY PowerValues
    <3>2. o[j] \in 0 .. 255 /\ net[j] \in 0 .. 255
      BY DEF Address4
    <3> QED
      BY <3>1, <3>2
  <2>2. 8 \in {8, 16}
    OBVIOUS
  <2>3. /\ SameBits(o[j], net[j], 8, 0)
        /\ SameBits(o[j], net[j], 8, 8) <=> o[j] = net[j]
        /\ \A m \in 1 .. 8 :
             SameBits(o[j], net[j], 8, m) <=> Quotient(o[j], 8 - m) = Quotient(net[j], 8 - m)
    BY <2>1, <2>2, PartPrefix
  <2> QED
    BY <2>3
<1>2. Same(1, 4) <=> o[1] \div 16 = net[1] \div 16
  <2>1. Same(1, 4) <=> Quotient(o[1], 4) = Quotient(net[1], 4)
    <3>1. 1 \in 1 .. 4 /\ 4 \in 1 .. 8 /\ 8 - 4 = 4
      OBVIOUS
    <3> QED
      BY <1>1, <3>1
  <2>2. Pow(4) = 16
    BY DEF Pow
  <2> QED
    BY <2>1, <2>2 DEF Quotient
<1>3. Same(2, 2) <=> o[2] \div 64 = net[2] \div 64
  <2>1. Same(2, 2) <=> Quotient(o[2], 6) = Quotient(net[2], 6)
    <3>1. 2 \in 1 .. 4 /\ 2 \in 1 .. 8 /\ 8 - 2 = 6
      OBVIOUS
    <3> QED
      BY <1>1, <3>1
  <2>2. Pow(6) = 64
    BY DEF Pow
  <2> QED
    BY <2>1, <2>2 DEF Quotient
<1>4. Same(2, 4) <=> o[2] \div 16 = net[2] \div 16
  <2>1. Same(2, 4) <=> Quotient(o[2], 4) = Quotient(net[2], 4)
    <3>1. 2 \in 1 .. 4 /\ 4 \in 1 .. 8 /\ 8 - 4 = 4
      OBVIOUS
    <3> QED
      BY <1>1, <3>1
  <2>2. Pow(4) = 16
    BY DEF Pow
  <2> QED
    BY <2>1, <2>2 DEF Quotient
<1>5. Same(2, 7) <=> o[2] \div 2 = net[2] \div 2
  <2>1. Same(2, 7) <=> Quotient(o[2], 1) = Quotient(net[2], 1)
    <3>1. 2 \in 1 .. 4 /\ 7 \in 1 .. 8 /\ 8 - 7 = 1
      OBVIOUS
    <3> QED
      BY <1>1, <3>1
  <2>2. Pow(1) = 2
    BY DEF Pow
  <2> QED
    BY <2>1, <2>2 DEF Quotient
<1>6. ASSUME NEW q \in 0 .. 3, NEW r \in 0 .. 7, NEW n \in Nat, n = q * 8 + r
      PROVE  InNetwork(o, 8, <<net, n>>) <=> (\A j \in 1 .. q : o[j] = net[j]) /\ Same(q + 1, r)
  <2>1. InNetwork(o, 8, <<net, n>>) <=> (\A j \in 1 .. q : Same(j, 8)) /\ Same(q + 1, r)
    BY <1>6, NetworkParts
  <2>2. \A j \in 1 .. q : Same(j, 8) <=> o[j] = net[j]
    BY <1>1
  <2> QED
    BY <2>1, <2>2
<1>7. InNetwork(o, 8, <<net, 4>>) <=> o[1] \div 16 = net[1] \div 16
  <2>1. 4 = 0 * 8 + 4 /\ 0 + 1 = 1 /\ 1 .. 0 = {}
    OBVIOUS
  <2> QED
    BY <1>2, <1>6, <2>1
<1>8. InNetwork(o, 8, <<net, 8>>) <=> o[1] = net[1]
  <2>1. 8 = 1 * 8 + 0 /\ 1 + 1 = 2 /\ 1 .. 1 = {1}
    OBVIOUS
  <2> QED
    BY <1>1, <1>6, <2>1
<1>9. InNetwork(o, 8, <<net, 10>>) <=> o[1] = net[1] /\ o[2] \div 64 = net[2] \div 64
  <2>1. 10 = 1 * 8 + 2 /\ 1 + 1 = 2 /\ 1 .. 1 = {1}
    OBVIOUS
  <2> QED
    BY <1>3, <1>6, <2>1
<1>10. InNetwork(o, 8, <<net, 12>>) <=> o[1] = net[1] /\ o[2] \div 16 = net[2] \div 16
  <2>1. 12 = 1 * 8 + 4 /\ 1 + 1 = 2 /\ 1 .. 1 = {1}
    OBVIOUS
  <2> QED
    BY <1>4, <1>6, <2>1
<1>11. InNetwork(o, 8, <<net, 15>>) <=> o[1] = net[1] /\ o[2] \div 2 = net[2] \div 2
  <2>1. 15 = 1 * 8 + 7 /\ 1 + 1 = 2 /\ 1 .. 1 = {1}
    OBVIOUS
  <2> QED
    BY <1>5, <1>6, <2>1
<1>12. InNetwork(o, 8, <<net, 16>>) <=> o[1] = net[1] /\ o[2] = net[2]
  <2>1. 16 = 2 * 8 + 0 /\ 2 + 1 = 3 /\ 1 .. 2 = {1, 2}
    OBVIOUS
  <2> QED
    BY <1>1, <1>6, <2>1
<1>13. InNetwork(o, 8, <<net, 24>>) <=> o[1] = net[1] /\ o[2] = net[2] /\ o[3] = net[3]
  <2>1. 24 = 3 * 8 + 0 /\ 3 + 1 = 4 /\ 1 .. 3 = {1, 2, 3}
    OBVIOUS
  <2> QED
    BY <1>1, <1>6, <2>1
<1>14. InNetwork(o, 8, <<net, 32>>) <=> o = net
  <2>1. 32 = 3 * 8 + 8 /\ 1 .. 4 = {1, 2, 3, 4}
    OBVIOUS
  <2>2. 32 = 4 * 8 + 0 /\ 8 \in Nat \ {0} /\ 0 \in 0 .. 8 - 1
    OBVIOUS
  <2>3. InNetwork(o, 8, <<net, 32>>) <=> (\A j \in 1 .. 4 : Same(j, 8)) /\ SameBits(o[5], net[5], 8, 0)
    BY <2>2, NetworkParts
  <2>4. SameBits(o[5], net[5], 8, 0)
    BY DEF SameBits
  <2>5. (\A j \in 1 .. 4 : o[j] = net[j]) <=> o = net
    BY DEF Address4
  <2> QED
    BY <1>1, <2>3, <2>4, <2>5
<1> QED
  BY <1>7, <1>8, <1>9, <1>10, <1>11, <1>12, <1>13, <1>14

LEMMA FourOctets ==
  ASSUME NEW S, NEW a \in S, NEW b \in S, NEW c \in S, NEW d \in S, NEW t, t = <<a, b, c, d>>
  PROVE  t \in [1 .. 4 -> S] /\ t[1] = a /\ t[2] = b /\ t[3] = c
<1>1. t \in Seq(S)
  OBVIOUS
<1>2. Len(t) = 4 /\ t[1] = a /\ t[2] = b /\ t[3] = c
  OBVIOUS
<1> QED
  BY <1>1, <1>2

\* The documented networks of IPv4, as tests on the octets.
ListedOctets(o, a, b, c) ==
  \/ a \in {0, 10, 127}
  \/ a = 100 /\ b \div 64 = 1
  \/ a = 169 /\ b = 254
  \/ a = 172 /\ b \div 16 = 1
  \/ a = 192 /\ b = 0 /\ c = 0
  \/ a = 192 /\ b = 168
  \/ a = 198 /\ b \div 2 = 9
  \/ a \div 16 \in {14, 15}
  \/ o = <<255, 255, 255, 255>>

LEMMA NetworksAsTests ==
  ASSUME NEW o \in Address4, NEW a, NEW b, NEW c, a = o[1], b = o[2], c = o[3]
  PROVE  Listed4(o) <=> ListedOctets(o, a, b, c)
<1> DEFINE N(p, q, r, t, n) == << <<p, q, r, t>>, n >>
           In(p, q, r, t, n) == InNetwork(o, 8, N(p, q, r, t, n))
           Octets == 0 .. 255
           Tests(p, q, r, t) ==
             /\ In(p, q, r, t, 4) <=> a \div 16 = p \div 16
             /\ In(p, q, r, t, 8) <=> a = p
             /\ In(p, q, r, t, 10) <=> a = p /\ b \div 64 = q \div 64
             /\ In(p, q, r, t, 12) <=> a = p /\ b \div 16 = q \div 16
             /\ In(p, q, r, t, 15) <=> a = p /\ b \div 2 = q \div 2
             /\ In(p, q, r, t, 16) <=> a = p /\ b = q
             /\ In(p, q, r, t, 24) <=> a = p /\ b = q /\ c = r
             /\ In(p, q, r, t, 32) <=> o = <<p, q, r, t>>
<1>1. Listed4(o) <=>
        \/ In(0, 0, 0, 0, 8) \/ In(10, 0, 0, 0, 8) \/ In(100, 64, 0, 0, 10)
        \/ In(127, 0, 0, 0, 8) \/ In(169, 254, 0, 0, 16) \/ In(172, 16, 0, 0, 12)
        \/ In(192, 0, 0, 0, 24) \/ In(192, 168, 0, 0, 16) \/ In(198, 18, 0, 0, 15)
        \/ In(224, 0, 0, 0, 4) \/ In(240, 0, 0, 0, 4) \/ In(255, 255, 255, 255, 32)
  <2>1. Networks4 =
          { N(0, 0, 0, 0, 8), N(10, 0, 0, 0, 8), N(100, 64, 0, 0, 10), N(127, 0, 0, 0, 8),
            N(169, 254, 0, 0, 16), N(172, 16, 0, 0, 12), N(192, 0, 0, 0, 24), N(192, 168, 0, 0, 16),
            N(198, 18, 0, 0, 15), N(224, 0, 0, 0, 4), N(240, 0, 0, 0, 4), N(255, 255, 255, 255, 32) }
    BY DEF Networks4
  <2> HIDE DEF N
  <2> QED
    BY <2>1 DEF Listed4
<1>2. ASSUME NEW p \in Octets, NEW q \in Octets, NEW r \in Octets, NEW t \in Octets
      PROVE  Tests(p, q, r, t)
  <2>1. PICK net : net = <<p, q, r, t>>
    OBVIOUS
  <2>2. net \in Address4 /\ net[1] = p /\ net[2] = q /\ net[3] = r
    BY <2>1, FourOctets DEF Address4
  <2>3. \A n : In(p, q, r, t, n) <=> InNetwork(o, 8, <<net, n>>)
    BY <2>1
  <2>4. /\ InNetwork(o, 8, <<net, 4>>) <=> o[1] \div 16 = net[1] \div 16
        /\ InNetwork(o, 8, <<net, 8>>) <=> o[1] = net[1]
        /\ InNetwork(o, 8, <<net, 10>>) <=> o[1] = net[1] /\ o[2] \div 64 = net[2] \div 64
        /\ InNetwork(o, 8, <<net, 12>>) <=> o[1] = net[1] /\ o[2] \div 16 = net[2] \div 16
        /\ InNetwork(o, 8, <<net, 15>>) <=> o[1] = net[1] /\ o[2] \div 2 = net[2] \div 2
        /\ InNetwork(o, 8, <<net, 16>>) <=> o[1] = net[1] /\ o[2] = net[2]
        /\ InNetwork(o, 8, <<net, 24>>) <=> o[1] = net[1] /\ o[2] = net[2] /\ o[3] = net[3]
        /\ InNetwork(o, 8, <<net, 32>>) <=> o = net
    BY <2>2, Network4
  <2> HIDE DEF In
  <2> QED
    BY <2>1, <2>2, <2>3, <2>4, Zenon
<1>3. /\ 0 \in Octets /\ 10 \in Octets /\ 16 \in Octets /\ 18 \in Octets /\ 64 \in Octets
      /\ 100 \in Octets /\ 127 \in Octets /\ 168 \in Octets /\ 169 \in Octets /\ 172 \in Octets
      /\ 192 \in Octets /\ 198 \in Octets /\ 224 \in Octets /\ 240 \in Octets /\ 254 \in Octets
      /\ 255 \in Octets
  OBVIOUS
<1> HIDE DEF Octets, Tests, In, N
<1>4. In(0, 0, 0, 0, 8) <=> a = 0
  <2>1. Tests(0, 0, 0, 0)
    BY <1>2, <1>3
  <2> QED
    BY <2>1 DEF Tests
<1>5. In(10, 0, 0, 0, 8) <=> a = 10
  <2>1. Tests(10, 0, 0, 0)
    BY <1>2, <1>3
  <2> QED
    BY <2>1 DEF Tests
<1>6. In(100, 64, 0, 0, 10) <=> a = 100 /\ b \div 64 = 1
  <2>1. Tests(100, 64, 0, 0)
    BY <1>2, <1>3
  <2>2. 64 \div 64 = 1
    OBVIOUS
  <2> QED
    BY <2>1, <2>2 DEF Tests
<1>7. In(127, 0, 0, 0, 8) <=> a = 127
  <2>1. Tests(127, 0, 0, 0)
    BY <1>2, <1>3
  <2> QED
    BY <2>1 DEF Tests
<1>8. In(169, 254, 0, 0, 16) <=> a = 169 /\ b = 254
  <2>1. Tests(169, 254, 0, 0)
    BY <1>2, <1>3
  <2> QED
    BY <2>1 DEF Tests
<1>9. In(172, 16, 0, 0, 12) <=> a = 172 /\ b \div 16 = 1
  <2>1. Tests(172, 16, 0, 0)
    BY <1>2, <1>3
  <2>2. 16 \div 16 = 1
    OBVIOUS
  <2> QED
    BY <2>1, <2>2 DEF Tests
<1>10. In(192, 0, 0, 0, 24) <=> a = 192 /\ b = 0 /\ c = 0
  <2>1. Tests(192, 0, 0, 0)
    BY <1>2, <1>3
  <2> QED
    BY <2>1 DEF Tests
<1>11. In(192, 168, 0, 0, 16) <=> a = 192 /\ b = 168
  <2>1. Tests(192, 168, 0, 0)
    BY <1>2, <1>3
  <2> QED
    BY <2>1 DEF Tests
<1>12. In(198, 18, 0, 0, 15) <=> a = 198 /\ b \div 2 = 9
  <2>1. Tests(198, 18, 0, 0)
    BY <1>2, <1>3
  <2>2. 18 \div 2 = 9
    OBVIOUS
  <2> QED
    BY <2>1, <2>2 DEF Tests
<1>13. In(224, 0, 0, 0, 4) <=> a \div 16 = 14
  <2>1. Tests(224, 0, 0, 0)
    BY <1>2, <1>3
  <2>2. 224 \div 16 = 14
    OBVIOUS
  <2> QED
    BY <2>1, <2>2 DEF Tests
<1>14. In(240, 0, 0, 0, 4) <=> a \div 16 = 15
  <2>1. Tests(240, 0, 0, 0)
    BY <1>2, <1>3
  <2>2. 240 \div 16 = 15
    OBVIOUS
  <2> QED
    BY <2>1, <2>2 DEF Tests
<1>15. In(255, 255, 255, 255, 32) <=> o = <<255, 255, 255, 255>>
  <2>1. Tests(255, 255, 255, 255)
    BY <1>2, <1>3
  <2> QED
    BY <2>1 DEF Tests
<1> QED
  BY <1>1, <1>4, <1>5, <1>6, <1>7, <1>8, <1>9, <1>10, <1>11, <1>12, <1>13, <1>14, <1>15 DEF ListedOctets

LEMMA FirstThree ==
  ASSUME NEW S, NEW t \in [1 .. 4 -> S]
  PROVE  SubSeq(t, 1, 3) = <<t[1], t[2], t[3]>>
<1>1. t \in Seq(S) /\ Len(t) = 4
  <2>1. PICK n \in Nat : n = 4
    OBVIOUS
  <2>2. t \in [1 .. n -> S]
    BY <2>1
  <2>3. t \in Seq(S) /\ Len(t) = n
    BY <2>2
  <2> QED
    BY <2>1, <2>3
<1>2. SubSeq(t, 1, 3) \in Seq(S) /\ Len(SubSeq(t, 1, 3)) = 3
  BY <1>1
<1>3. SubSeq(t, 1, 3)[1] = t[1] /\ SubSeq(t, 1, 3)[2] = t[2] /\ SubSeq(t, 1, 3)[3] = t[3]
  BY <1>1
<1>4. <<t[1], t[2], t[3]>> \in Seq(S) /\ Len(<<t[1], t[2], t[3]>>) = 3
  BY <1>1
<1>5. PICK u \in Seq(S) : u = SubSeq(t, 1, 3) /\ Len(u) = 3 /\ u[1] = t[1] /\ u[2] = t[2] /\ u[3] = t[3]
  BY <1>2, <1>3
<1>6. PICK v \in Seq(S) : v = <<t[1], t[2], t[3]>> /\ Len(v) = 3 /\ v[1] = t[1] /\ v[2] = t[2] /\ v[3] = t[3]
  BY <1>4
<1>7. \A j \in 1 .. 3 : u[j] = v[j]
  BY <1>5, <1>6
<1>8. u = v
  <2>1. PICK n \in Nat : n = 3
    OBVIOUS
  <2> QED
    BY <1>5, <1>6, <1>7, <2>1, SameSequence
<1> QED
  BY <1>5, <1>6, <1>8

\* is_disallowed_v4 refuses exactly the documented networks.
LEMMA TableOfV4 ==
  ASSUME NEW o \in Address4
  PROVE  IsDisallowedV4(o) <=> Listed4(o)
<1> DEFINE a == o[1]
           b == o[2]
           c == o[3]
<1>1. a \in 0 .. 255 /\ b \in 0 .. 255 /\ c \in 0 .. 255
  BY DEF Address4
<1>2. Listed4(o) <=> ListedOctets(o, a, b, c)
  BY NetworksAsTests
<1>3. SubSeq(o, 1, 3) = <<192, 0, 0>> <=> a = 192 /\ b = 0 /\ c = 0
  <2>1. SubSeq(o, 1, 3) = <<a, b, c>>
    BY FirstThree DEF Address4
  <2> QED
    BY <2>1
<1>4. (o = <<0, 0, 0, 0>> => a = 0) /\ (o = <<255, 255, 255, 255>> => a = 255)
  OBVIOUS
<1>5. /\ IsLoopback(o) <=> a = 127
      /\ IsPrivate(o) <=> a = 10 \/ (a = 172 /\ b \in 16 .. 31) \/ (a = 192 /\ b = 168)
      /\ IsLinkLocal(o) <=> a = 169 /\ b = 254
      /\ IsMulticast(o) <=> a \in 224 .. 239
      /\ IsUnspecified(o) => a = 0
      /\ IsBroadcast(o) => a = 255
  BY DEF IsLoopback, IsPrivate, IsLinkLocal, IsMulticast, IsUnspecified, IsBroadcast
<1>6. IsDisallowedV4(o) <=>
        \/ IsLoopback(o) \/ IsPrivate(o) \/ IsLinkLocal(o) \/ IsMulticast(o)
        \/ IsUnspecified(o) \/ IsBroadcast(o)
        \/ a = 0
        \/ a = 100 /\ b \in 64 .. 127
        \/ SubSeq(o, 1, 3) = <<192, 0, 0>>
        \/ a = 198 /\ b \in {18, 19}
        \/ a >= 240
  BY PTL DEF IsDisallowedV4
<1> HIDE DEF a, b, c
<1>7. /\ b \div 64 = 1 <=> b \in 64 .. 127
      /\ b \div 16 = 1 <=> b \in 16 .. 31
      /\ b \div 2 = 9 <=> b \in {18, 19}
      /\ a \div 16 \in {14, 15} <=> a \in 224 .. 239 \/ a >= 240
      /\ a = 255 => a >= 240
  BY <1>1
<1>8. ListedOctets(o, a, b, c) <=>
        \/ a \in {0, 10, 127}
        \/ a = 100 /\ b \in 64 .. 127
        \/ a = 169 /\ b = 254
        \/ a = 172 /\ b \in 16 .. 31
        \/ a = 192 /\ b = 0 /\ c = 0
        \/ a = 192 /\ b = 168
        \/ a = 198 /\ b \in {18, 19}
        \/ a \in 224 .. 239
        \/ a >= 240
  BY <1>4, <1>7 DEF ListedOctets
<1>9. a \in {0, 10, 127} <=> a = 0 \/ a = 10 \/ a = 127
  OBVIOUS
<1> QED
  BY <1>2, <1>3, <1>5, <1>6, <1>7, <1>8, <1>9, PTL

LEMMA Network6 ==
  ASSUME NEW s \in Address6, NEW net \in Address6
  PROVE  /\ InNetwork(s, 16, <<net, 7>>) <=> s[1] \div 512 = net[1] \div 512
         /\ InNetwork(s, 16, <<net, 8>>) <=> s[1] \div 256 = net[1] \div 256
         /\ InNetwork(s, 16, <<net, 10>>) <=> s[1] \div 64 = net[1] \div 64
         /\ InNetwork(s, 16, <<net, 32>>) <=> s[1] = net[1] /\ s[2] = net[2]
         /\ InNetwork(s, 16, <<net, 128>>) <=> s = net
<1> DEFINE Same(j, m) == SameBits(s[j], net[j], 16, m)
           Reduced(q, r, n) ==
             InNetwork(s, 16, <<net, n>>) <=> (\A j \in 1 .. q : s[j] = net[j]) /\ Same(q + 1, r)
<1>1. ASSUME NEW j \in 1 .. 8
      PROVE  /\ Same(j, 0)
             /\ Same(j, 16) <=> s[j] = net[j]
             /\ \A m \in 1 .. 16 : Same(j, m) <=> Quotient(s[j], 16 - m) = Quotient(net[j], 16 - m)
  <2>1. s[j] \in 0 .. Pow(16) - 1 /\ net[j] \in 0 .. Pow(16) - 1
    BY DEF Address6
  <2> QED
    BY <2>1, PartPrefix
<1>2. Same(1, 7) <=> s[1] \div 512 = net[1] \div 512
  <2>1. Same(1, 7) <=> Quotient(s[1], 9) = Quotient(net[1], 9)
    <3>1. 1 \in 1 .. 8 /\ 7 \in 1 .. 16 /\ 16 - 7 = 9
      OBVIOUS
    <3> QED
      BY <1>1, <3>1
  <2>2. Pow(9) = 512
    BY DEF Pow
  <2> QED
    BY <2>1, <2>2 DEF Quotient
<1>3. Same(1, 8) <=> s[1] \div 256 = net[1] \div 256
  <2>1. Same(1, 8) <=> Quotient(s[1], 8) = Quotient(net[1], 8)
    <3>1. 1 \in 1 .. 8 /\ 8 \in 1 .. 16 /\ 16 - 8 = 8
      OBVIOUS
    <3> QED
      BY <1>1, <3>1
  <2>2. Pow(8) = 256
    BY DEF Pow
  <2> QED
    BY <2>1, <2>2 DEF Quotient
<1>4. Same(1, 10) <=> s[1] \div 64 = net[1] \div 64
  <2>1. Same(1, 10) <=> Quotient(s[1], 6) = Quotient(net[1], 6)
    <3>1. 1 \in 1 .. 8 /\ 10 \in 1 .. 16 /\ 16 - 10 = 6
      OBVIOUS
    <3> QED
      BY <1>1, <3>1
  <2>2. Pow(6) = 64
    BY DEF Pow
  <2> QED
    BY <2>1, <2>2 DEF Quotient
<1>5. ASSUME NEW q \in 0 .. 8, NEW r \in 0 .. 15, NEW n \in Nat, n = q * 16 + r
      PROVE  Reduced(q, r, n)
  <2>1. InNetwork(s, 16, <<net, n>>) <=> (\A j \in 1 .. q : Same(j, 16)) /\ Same(q + 1, r)
    BY <1>5, NetworkParts
  <2>2. \A j \in 1 .. q : Same(j, 16) <=> s[j] = net[j]
    BY <1>1
  <2> QED
    BY <2>1, <2>2
<1> HIDE DEF Reduced
<1>6. InNetwork(s, 16, <<net, 7>>) <=> s[1] \div 512 = net[1] \div 512
  <2>1. 7 = 0 * 16 + 7 /\ 0 + 1 = 1 /\ 1 .. 0 = {}
    OBVIOUS
  <2>2. Reduced(0, 7, 7)
    BY <1>5, <2>1
  <2> QED
    BY <1>2, <2>1, <2>2 DEF Reduced
<1>7. InNetwork(s, 16, <<net, 8>>) <=> s[1] \div 256 = net[1] \div 256
  <2>1. 8 = 0 * 16 + 8 /\ 0 + 1 = 1 /\ 1 .. 0 = {}
    OBVIOUS
  <2>2. Reduced(0, 8, 8)
    BY <1>5, <2>1
  <2> QED
    BY <1>3, <2>1, <2>2 DEF Reduced
<1>8. InNetwork(s, 16, <<net, 10>>) <=> s[1] \div 64 = net[1] \div 64
  <2>1. 10 = 0 * 16 + 10 /\ 0 + 1 = 1 /\ 1 .. 0 = {}
    OBVIOUS
  <2>2. Reduced(0, 10, 10)
    BY <1>5, <2>1
  <2> QED
    BY <1>4, <2>1, <2>2 DEF Reduced
<1>9. InNetwork(s, 16, <<net, 32>>) <=> s[1] = net[1] /\ s[2] = net[2]
  <2>1. 32 = 2 * 16 + 0 /\ 2 + 1 = 3 /\ 1 .. 2 = {1, 2}
    OBVIOUS
  <2>2. Reduced(2, 0, 32)
    BY <1>5, <2>1
  <2> QED
    BY <1>1, <2>1, <2>2 DEF Reduced
<1>10. InNetwork(s, 16, <<net, 128>>) <=> s = net
  <2>1. 128 = 8 * 16 + 0 /\ 8 + 1 = 9
    OBVIOUS
  <2>2. Same(9, 0)
    BY DEF SameBits
  <2>3. (\A j \in 1 .. 8 : s[j] = net[j]) <=> s = net
    BY DEF Address6
  <2>4. Reduced(8, 0, 128)
    BY <1>5, <2>1
  <2> QED
    BY <2>1, <2>2, <2>3, <2>4 DEF Reduced
<1> QED
  BY <1>6, <1>7, <1>8, <1>9, <1>10

\* An address of eight segments, most of them d.
LEMMA EightSegments ==
  ASSUME NEW S, NEW a \in S, NEW b \in S, NEW c \in S, NEW d \in S,
         NEW t, t = <<a, b, d, d, d, d, d, c>>
  PROVE  t \in [1 .. 8 -> S] /\ t[1] = a /\ t[2] = b
<1>1. t \in Seq(S)
  OBVIOUS
<1>2. Len(t) = 8 /\ t[1] = a /\ t[2] = b
  OBVIOUS
<1> QED
  BY <1>1, <1>2

LEMMA SegmentsType ==
  ASSUME NEW S, 0 \in S, NEW a \in S, NEW b \in S, NEW c \in S
  PROVE  Segments(a, b, c) \in [1 .. 8 -> S] /\ Segments(a, b, c)[1] = a /\ Segments(a, b, c)[2] = b
  BY EightSegments DEF Segments

\* is_disallowed_v6 refuses exactly the documented networks.
LEMMA TableOfV6 ==
  ASSUME NEW s \in Address6
  PROVE  IsDisallowedV6(s) <=> Listed6(s)
<1> DEFINE In(a, b, c, n) == InNetwork(s, 16, << Segments(a, b, c), n >>)
           N(a, b, c, n) == << Segments(a, b, c), n >>
<1>1. Listed6(s) <=>
        \/ In(0, 0, 0, 128) \/ In(0, 0, 1, 128) \/ In(64512, 0, 0, 7) \/ In(65152, 0, 0, 10)
        \/ In(65280, 0, 0, 8) \/ In(8193, 3512, 0, 32)
        \/ IsMapped(s) /\ Listed4(Embedded(s))
  <2>1. Networks6 =
          { N(0, 0, 0, 128), N(0, 0, 1, 128), N(64512, 0, 0, 7), N(65152, 0, 0, 10),
            N(65280, 0, 0, 8), N(8193, 3512, 0, 32) }
    BY DEF Networks6
  <2>2. \A a, b, c, n : In(a, b, c, n) <=> InNetwork(s, 16, N(a, b, c, n))
    OBVIOUS
  <2> HIDE DEF N, In
  <2> QED
    BY <2>1, <2>2 DEF Listed6
<1> DEFINE Half == 0 .. Pow(16) - 1
<1>2. ASSUME NEW a \in Half, NEW b \in Half, NEW c \in Half
      PROVE  /\ In(a, b, c, 7) <=> s[1] \div 512 = a \div 512
             /\ In(a, b, c, 8) <=> s[1] \div 256 = a \div 256
             /\ In(a, b, c, 10) <=> s[1] \div 64 = a \div 64
             /\ In(a, b, c, 32) <=> s[1] = a /\ s[2] = b
             /\ In(a, b, c, 128) <=> s = Segments(a, b, c)
  <2>1. 0 \in Half
    BY PowerValues
  <2>2. Segments(a, b, c) \in Address6 /\ Segments(a, b, c)[1] = a /\ Segments(a, b, c)[2] = b
    <3>1. Address6 = [1 .. 8 -> Half]
      BY DEF Address6
    <3> HIDE DEF Half
    <3> QED
      BY <2>1, <3>1, SegmentsType
  <2> QED
    BY <2>2, Network6
<1> HIDE DEF In
<1>3. 0 \in Half /\ 1 \in Half /\ 64512 \in Half /\ 65152 \in Half /\ 65280 \in Half /\ 8193 \in Half /\ 3512 \in Half
  BY PowerValues
<1> HIDE DEF Half
<1>4. In(0, 0, 0, 128) <=> s = <<0, 0, 0, 0, 0, 0, 0, 0>>
  BY <1>2, <1>3 DEF Segments
<1>5. In(0, 0, 1, 128) <=> s = <<0, 0, 0, 0, 0, 0, 0, 1>>
  BY <1>2, <1>3 DEF Segments
<1>6. In(64512, 0, 0, 7) <=> s[1] \div 512 = 64512 \div 512
  BY <1>2, <1>3
<1>7. In(65152, 0, 0, 10) <=> s[1] \div 64 = 65152 \div 64
  BY <1>2, <1>3
<1>8. In(65280, 0, 0, 8) <=> s[1] \div 256 = 255
  <2>1. 65280 \div 256 = 255
    OBVIOUS
  <2> QED
    BY <1>2, <1>3, <2>1
<1>9. In(8193, 3512, 0, 32) <=> s[1] = 8193 /\ s[2] = 3512
  BY <1>2, <1>3
<1>10. IsDisallowedV4(Embedded(s)) <=> Listed4(Embedded(s))
  <2>1. PICK t \in Nat : t = s[7] /\ t < 65536
    BY PowerValues DEF Address6
  <2>2. PICK u \in Nat : u = s[8] /\ u < 65536
    BY PowerValues DEF Address6
  <2>3. t \div 256 \in 0 .. 255 /\ t % 256 \in 0 .. 255 /\ u \div 256 \in 0 .. 255 /\ u % 256 \in 0 .. 255
    BY <2>1, <2>2
  <2>4. <<t \div 256, t % 256, u \div 256, u % 256>> \in Address4
    BY <2>3 DEF Address4
  <2> QED
    BY <2>1, <2>2, <2>4, TableOfV4 DEF Embedded
<1> QED
  BY <1>1, <1>4, <1>5, <1>6, <1>7, <1>8, <1>9, <1>10 DEF IsDisallowedV6

\* The same for eight segments of which the last three differ from the others.
LEMMA MappedSegments ==
  ASSUME NEW S, NEW a \in S, NEW b \in S, NEW c \in S, NEW d \in S,
         NEW t, t = <<d, d, d, d, d, a, b, c>>
  PROVE  t \in [1 .. 8 -> S]
<1>1. t \in Seq(S)
  OBVIOUS
<1>2. Len(t) = 8
  OBVIOUS
<1> QED
  BY <1>1, <1>2

\* The tests of is_disallowed_ip on octets and segments refuse exactly the documented
\* networks; TableOfV4 and TableOfV6 say so of every address.
THEOREM TableIsExact == TSpec => []TableAgrees
<1> DEFINE Half == 0 .. Pow(16) - 1
           Mapped(s, t) == <<0, 0, 0, 0, 0, 65535, s, t>>
<1>1. Address6 = [1 .. 8 -> Half]
  BY DEF Address6
<1>2. Segment \subseteq Half /\ 0 \in Half /\ 65535 \in Half
  <2>1. ASSUME NEW n \in Nat, n < 65536
        PROVE  n \in Half
    BY <2>1, PowerValues
  <2>2. \A n \in Segment \cup {0, 65535} : n \in Nat /\ n < 65536
    BY DEF Segment
  <2> HIDE DEF Half
  <2> QED
    BY <2>1, <2>2
<1> HIDE DEF Half, Mapped
<1>3. \A a, b \in Octet, c \in {0, 1, 255}, d \in {0, 1, 255} :
        IsDisallowedV4(<<a, b, c, d>>) <=> Listed4(<<a, b, c, d>>)
  <2> TAKE a, b \in Octet, c \in {0, 1, 255}, d \in {0, 1, 255}
  <2>1. a \in 0 .. 255 /\ b \in 0 .. 255 /\ c \in 0 .. 255 /\ d \in 0 .. 255
    BY DEF Octet
  <2>2. <<a, b, c, d>> \in Address4
    BY <2>1, FourOctets DEF Address4
  <2> QED
    BY <2>2, TableOfV4
<1>4. \A first, second, last \in Segment :
        IsDisallowedV6(Segments(first, second, last)) <=> Listed6(Segments(first, second, last))
  <2> TAKE first, second, last \in Segment
  <2>1. Segments(first, second, last) \in Address6
    BY <1>1, <1>2, SegmentsType
  <2> QED
    BY <2>1, TableOfV6
<1>5. \A s, t \in Segment : IsDisallowedV6(Mapped(s, t)) <=> Listed6(Mapped(s, t))
  <2> TAKE s, t \in Segment
  <2>1. Mapped(s, t) \in Address6
    BY <1>1, <1>2, MappedSegments DEF Mapped
  <2> QED
    BY <2>1, TableOfV6
<1>6. TableAgrees
  BY <1>3, <1>4, <1>5, PTL DEF TableAgrees, Mapped
<1> QED
  BY <1>6, PTL

-----------------------------------------------------------------------------
(* What is sent.                                                           *)

\* Every request that was sent is one that its call made and that no gate refused.
Sent(w, req) == Refusal(req) = None /\ w.host = req.host /\ w.bearer = Bearer(req)

WireInv ==
  \A w \in wire :
    /\ w.call \in Call
    /\ \E i \in DOMAIN fetches[w.call] : Sent(w, fetches[w.call][i])

LEMMA WireStep == CallTypes /\ WireInv /\ [TNext]_tvars => WireInv'
<1> SUFFICES ASSUME CallTypes, WireInv, [TNext]_tvars PROVE WireInv'
  OBVIOUS
<1>1. CASE UNCHANGED <<wire, fetches>>
  BY <1>1 DEF WireInv, Sent
<1>2. ASSUME NEW c \in Call, HttpFetch(c)
      PROVE  WireInv'
  <2>1. PICK req \in Request :
          /\ fetches' = [fetches EXCEPT ![c] = Append(@, Fetch(req))]
          /\ IF Refusal(req) = None
             THEN wire' = wire \cup {[call |-> c, host |-> req.host, bearer |-> Bearer(req)]}
             ELSE wire' = wire
    BY <1>2 DEF HttpFetch
  <2>2. fetches[c] \in Seq(Request) /\ fetches'[c] = Append(fetches[c], Fetch(req))
    BY <2>1 DEF CallTypes, TTypeOK
  <2>3. \A d \in Call \ {c} : fetches'[d] = fetches[d]
    BY <2>1 DEF CallTypes, TTypeOK
  <2>4. /\ Len(fetches[c]) + 1 \in DOMAIN fetches'[c]
        /\ fetches'[c][Len(fetches[c]) + 1] = Fetch(req)
        /\ \A i \in DOMAIN fetches[c] : i \in DOMAIN fetches'[c] /\ fetches'[c][i] = fetches[c][i]
    <3>1. PICK f \in Request : f = Fetch(req)
      BY FetchType
    <3> QED
      BY <2>2, <3>1
  <2> SUFFICES ASSUME NEW w \in wire'
               PROVE  w.call \in Call /\ \E i \in DOMAIN fetches'[w.call] : Sent(w, fetches'[w.call][i])
    BY DEF WireInv, Sent
  <2>5. CASE w \in wire
    <3>1. w.call \in Call
      BY <2>5 DEF WireInv
    <3>2. PICK i \in DOMAIN fetches[w.call] : Sent(w, fetches[w.call][i])
      BY <2>5 DEF WireInv
    <3>3. i \in DOMAIN fetches'[w.call] /\ fetches'[w.call][i] = fetches[w.call][i]
      BY <2>3, <2>4, <3>1, <3>2
    <3> QED
      BY <3>1, <3>2, <3>3
  <2>6. CASE w \notin wire
    <3>1. Refusal(req) = None /\ w = [call |-> c, host |-> req.host, bearer |-> Bearer(req)]
      BY <2>1, <2>6
    <3>2. w.call = c /\ Sent(w, Fetch(req))
      BY <3>1, FetchType DEF Sent
    <3> QED
      BY <2>4, <3>2
  <2> QED
    BY <2>5, <2>6
<1>3. ASSUME NEW c \in Call,
             Begin(c) \/ Grow(c) \/ SecretExists(c) \/ Answer(c) \/ Rests(c) \/ Ends(c)
      PROVE  UNCHANGED <<wire, fetches>>
  BY <1>3 DEF Begin, Grow, SecretExists, Answer, Rests, TransportFails, Wait, Wake, Ends, Finish,
              collected
<1>4. ASSUME \/ Advance \/ TickerWakes \/ UNCHANGED tvars
             \/ \E c \in Call : RecordExecution(c)
      PROVE  UNCHANGED <<wire, fetches>>
  BY <1>4 DEF Advance, TickerWakes, RecordExecution, tvars, wvars, collected
<1> QED
  BY <1>1, <1>2, <1>3, <1>4, GuestActions DEF TNext

LEMMA AddressLength ==
  ASSUME NEW ip
  PROVE  (ip \in Address4 => Len(ip) = 4) /\ (ip \in Address6 => Len(ip) = 8)
<1>1. ASSUME NEW S, NEW n \in Nat, ip \in [1 .. n -> S]
      PROVE  Len(ip) = n
  <2>1. ip \in Seq(S) /\ DOMAIN ip = 1 .. n
    BY <1>1
  <2> QED
    BY <2>1
<1> QED
  BY <1>1 DEF Address4, Address6

\* A request that passes the gates names a host, which a glob denotes and which, out of
\* brackets, is in no documented network, and what is configured can fetch the secret it asks for.
LEMMA GatesHold ==
  ASSUME NEW req \in Request, Refusal(req) = None
  PROVE  /\ \E p \in Allowlist : Denotes(p, req.host)
         /\ AllowPrivate \/ InBrackets(req.host) \/ ~SpellsListed(req.host)
         /\ Bearer(req) = None => req.auth = None
<1>1. /\ req.host # None
      /\ IsGrantedBy(Allowlist, req.host)
      /\ AllowPrivate \/ ~IsDisallowedIp(req.host)
      /\ req.auth = None \/ Fetched(req.auth) # None
  BY HttpAssumption DEF Refusal
<1>2. PICK host \in Target : host = req.host
  BY <1>1 DEF Request
<1>3. PICK p \in Allowlist : GlobMatch(p, host)
  BY <1>1, <1>2 DEF IsGrantedBy
<1>4. Denotes(p, host)
  <2>1. p \in Seq(Range(p)) /\ host \in Seq(Range(host))
    BY HttpAssumption, WasmAssumption
  <2>2. PICK C : C = Range(p) \cup Range(host)
    OBVIOUS
  <2>3. p \in Seq(C)
    BY <2>1, <2>2
  <2>4. host \in Seq(C)
    BY <2>1, <2>2
  <2> QED
    BY <1>3, <2>3, <2>4, GlobMatchSound
<1>5. AllowPrivate \/ InBrackets(host) \/ ~SpellsListed(host)
  <2>1. PICK ip : ip = AddressOf[host]
    OBVIOUS
  <2>2. ip = None \/ ip \in Address4 \/ ip \in Address6
    <3>1. ip \in {None} \cup V4 \cup V6
      BY <2>1, WasmAssumption
    <3>2. V4 = Address4
      BY DEF V4, Address4
    <3>3. 256 * 256 - 1 = Pow(16) - 1
      BY PowerValues
    <3>4. V6 = Address6
      BY <3>3 DEF V6, Address6
    <3> QED
      BY <3>1, <3>2, <3>4
  <2>3. (ip \in Address4 => Len(ip) = 4) /\ (ip \in Address6 => Len(ip) = 8)
    BY AddressLength
  <2>4. ip \in Address4 \cup Address6 =>
          ((IF Len(ip) = 4 THEN IsDisallowedV4(ip) ELSE IsDisallowedV6(ip)) <=> Listed(ip))
    BY <2>3, TableOfV4, TableOfV6 DEF Listed
  <2>5. ASSUME ~AllowPrivate, ~InBrackets(host), ip # None
        PROVE  ~(IF Len(ip) = 4 THEN IsDisallowedV4(ip) ELSE IsDisallowedV6(ip))
    BY <1>1, <1>2, <2>1, <2>5 DEF IsDisallowedIp, ParsedIp
  <2> QED
    BY <2>1, <2>2, <2>4, <2>5 DEF SpellsListed
<1>6. Bearer(req) = None => req.auth = None
  BY <1>1 DEF Bearer
<1> QED
  BY <1>2, <1>4, <1>5, <1>6

\* Whatever a guest asks for, and whatever the allowlist grants, nothing is sent to a host
\* that no glob denotes or, unless its host is written in brackets, to an address in a
\* documented network, IPv4 or IPv6, and no request that asks for a secret goes out
\* without it (HttpFetchTool::call).
THEOREM WireStaysLawful == TSpec => []WireIsLawful
<1>1. TInit => WireInv
  BY DEF TInit, WInit, WireInv
<1>2. CallTypes /\ WireInv => WireIsLawful
  <2> SUFFICES ASSUME CallTypes, WireInv, NEW w \in wire
               PROVE  /\ \E p \in Allowlist : Denotes(p, w.host)
                      /\ AllowPrivate \/ InBrackets(w.host) \/ ~SpellsListed(w.host)
                      /\ w.bearer = None =>
                           \E i \in DOMAIN fetches[w.call] :
                             fetches[w.call][i] = [host |-> w.host, auth |-> None]
    BY DEF WireIsLawful
  <2>1. PICK i \in DOMAIN fetches[w.call] : Sent(w, fetches[w.call][i])
    BY DEF WireInv
  <2>2. PICK req \in Request : req = fetches[w.call][i]
    <3>1. fetches[w.call] \in Seq(Request)
      BY DEF WireInv, CallTypes, TTypeOK
    <3> QED
      BY <2>1, <3>1
  <2>3. Refusal(req) = None /\ w.host = req.host /\ w.bearer = Bearer(req)
    BY <2>1, <2>2 DEF Sent
  <2>4. ASSUME w.bearer = None
        PROVE  req = [host |-> w.host, auth |-> None]
    <3>1. req.auth = None
      BY <2>3, <2>4, GatesHold
    <3> QED
      BY <2>3, <3>1 DEF Request
  <2> QED
    BY <2>1, <2>2, <2>3, <2>4, GatesHold
<1>3. TSpec => []WireInv
  BY <1>1, WireStep, CallTypesHold, PTL DEF TSpec
<1> QED
  BY <1>2, <1>3, CallTypesHold, PTL

-----------------------------------------------------------------------------
(* What one rule makes of a text.  A rule writes its replacement where its *)
(* word stood, and copies the rest; the marks at both ends of a            *)
(* replacement keep any word from appearing across its edge.               *)

\* The word stands at this place.
At(w, s, p) == p + Len(w) - 1 <= Len(s) /\ \A j \in 1 .. Len(w) : s[p + j - 1] = w[j]

LEMMA FoundIsAt ==
  ASSUME NEW C, NEW s \in Seq(C), NEW rule, rule.find \in Seq(C), rule.find # << >>,
         NEW i \in 1 .. Len(s)
  PROVE  FoundAt(rule, s, i) <=> At(rule.find, s, i)
<1>1. PICK w \in Seq(C) : w = rule.find
  OBVIOUS
<1>2. PICK n \in Nat \ {0} : n = Len(w)
  BY <1>1
<1>3. PICK e \in Nat : e = i + n - 1
  <2>1. i \in Nat /\ i + n - 1 \in Nat
    OBVIOUS
  <2> QED
    BY <2>1
<1>4. CASE e > Len(s)
  BY <1>1, <1>2, <1>3, <1>4 DEF FoundAt, At
<1>5. CASE e <= Len(s)
  <2>1. PICK t : t = SubSeq(s, i, e)
    OBVIOUS
  <2>2. t \in Seq(C) /\ Len(t) = n /\ \A j \in 1 .. n : t[j] = s[i + j - 1]
    BY <1>2, <1>3, <1>5, <2>1
  <2>3. FoundAt(rule, s, i) <=> t = w
    BY <1>1, <1>2, <1>3, <1>5, <2>1 DEF FoundAt
  <2>4. (\A j \in 1 .. n : t[j] = w[j]) => t = w
    BY <1>2, <2>2, SameSequence
  <2> QED
    BY <1>1, <1>2, <1>3, <1>5, <2>2, <2>3, <2>4 DEF At
<1> QED
  BY <1>2, <1>3, <1>4, <1>5

\* What a rule is made of.
RuleFits(rule, C, M) ==
  /\ rule.find \in Seq(C \ M) /\ rule.find # << >>
  /\ rule.put \in Seq(C) /\ rule.put # << >>
  /\ rule.put[1] \in M /\ rule.put[Len(rule.put)] \in M

Acc(C) == [out : Seq(C), rest : Nat, count : Nat]

Skips(a, b) == a.rest > 0 /\ b.out = a.out /\ b.rest = a.rest - 1 /\ b.count = a.count
Hits(rule, text, a, b, n) ==
  /\ a.rest = 0
  /\ At(rule.find, text, n)
  /\ b.out = a.out \o rule.put /\ b.rest = Len(rule.find) - 1 /\ b.count = a.count + 1
Copies(rule, text, a, b, n) ==
  /\ a.rest = 0
  /\ ~At(rule.find, text, n)
  /\ b.out = Append(a.out, text[n]) /\ b.rest = 0 /\ b.count = a.count

LEMMA ReplaceMoves ==
  ASSUME NEW C, NEW M, NEW rule, RuleFits(rule, C, M), NEW text \in Seq(C), NEW n \in 1 .. Len(text),
         NEW a \in Acc(C), NEW b, b = ReplaceNext(rule, text, a, n)
  PROVE  /\ b \in Acc(C)
         /\ Skips(a, b) \/ Hits(rule, text, a, b, n) \/ Copies(rule, text, a, b, n)
<1>1. /\ a.out \in Seq(C) /\ a.rest \in Nat /\ a.count \in Nat
      /\ a = [out |-> a.out, rest |-> a.rest, count |-> a.count]
  BY DEF Acc
<1>2. rule.find \in Seq(C) /\ rule.find # << >> /\ rule.put \in Seq(C)
  <2>1. rule.find \in Seq(C \ M) /\ rule.find # << >> /\ rule.put \in Seq(C)
    BY DEF RuleFits
  <2>2. \A s \in Seq(C \ M) : s \in Seq(C)
    OBVIOUS
  <2> QED
    BY <2>1, <2>2
<1>3. FoundAt(rule, text, n) <=> At(rule.find, text, n)
  BY <1>2, FoundIsAt
<1>4. CASE a.rest > 0
  <2>1. b = [a EXCEPT !.rest = a.rest - 1]
    BY <1>4 DEF ReplaceNext
  <2>2. a.rest - 1 \in Nat
    BY <1>1, <1>4
  <2> QED
    BY <1>1, <1>4, <2>1, <2>2 DEF Acc, Skips
<1>5. CASE a.rest = 0 /\ FoundAt(rule, text, n)
  <2>1. b = [out |-> a.out \o rule.put, rest |-> Len(rule.find) - 1, count |-> a.count + 1]
    BY <1>5 DEF ReplaceNext
  <2>2. Len(rule.find) - 1 \in Nat /\ a.count + 1 \in Nat /\ a.out \o rule.put \in Seq(C)
    BY <1>1, <1>2
  <2> QED
    BY <1>3, <1>5, <2>1, <2>2 DEF Acc, Hits
<1>6. CASE a.rest = 0 /\ ~FoundAt(rule, text, n)
  <2>1. b = [a EXCEPT !.out = Append(a.out, text[n])]
    BY <1>6 DEF ReplaceNext
  <2>2. text[n] \in C
    OBVIOUS
  <2>3. Append(a.out, text[n]) \in Seq(C)
    BY <1>1, <2>2
  <2> QED
    BY <1>1, <1>3, <1>6, <2>1, <2>3 DEF Acc, Copies
<1> QED
  BY <1>1, <1>4, <1>5, <1>6

Begun == [out |-> << >>, rest |-> 0, count |-> 0]

\* The accumulators that replace_all goes through.
LEMMA ReplaceFold ==
  ASSUME NEW C, NEW M, NEW rule, RuleFits(rule, C, M), NEW text \in Seq(C), NEW N \in Nat, N = Len(text)
  PROVE  \E h : /\ h \in [0 .. N -> Acc(C)]
                /\ h[0] = Begun
                /\ \A n \in 1 .. N : h[n] = ReplaceNext(rule, text, h[n - 1], n)
                /\ Replaced(rule, text) = h[N]
<1>1. PICK order : order = [i \in 1 .. N |-> i]
  OBVIOUS
<1>2. Begun \in Acc(C)
  BY DEF Begun, Acc
<1>3. PICK step : step = [n \in 1 .. N |-> [a \in Acc(C) |-> ReplaceNext(rule, text, a, n)]]
  OBVIOUS
<1>4. Steps(step, 1 .. N, Acc(C))
  <2>1. \A n \in 1 .. N, a \in Acc(C) : ReplaceNext(rule, text, a, n) \in Acc(C)
    BY ReplaceMoves
  <2> QED
    BY <1>3, <2>1 DEF Steps
<1>5. PICK g \in [SUBSET (1 .. N) -> Acc(C)] :
        /\ g[{}] = Begun
        /\ \A s \in (SUBSET (1 .. N)) \ {{}} :
             /\ Max(s) \in 1 .. N
             /\ g[s \ {Max(s)}] \in Acc(C)
             /\ g[s] = step[Max(s)][g[s \ {Max(s)}]]
  <2>1. FoldsLeft(N, Acc(C), Begun, step)
    BY <1>2, <1>4, LeftFold
  <2> QED
    BY <2>1 DEF FoldsLeft
<1> DEFINE Eq(f) == f = [s \in SUBSET (1 .. N) |->
              IF s = {} THEN Begun ELSE ReplaceNext(rule, text, f[s \ {Max(s)}], order[Max(s)])]
<1>6. Eq(g)
  <2>1. ASSUME NEW s \in (SUBSET (1 .. N)) \ {{}}
        PROVE  g[s] = ReplaceNext(rule, text, g[s \ {Max(s)}], order[Max(s)])
    BY <1>1, <1>3, <1>5
  <2> QED
    BY <1>5, <2>1
<1>7. PICK iter : iter = CHOOSE f : Eq(f)
  OBVIOUS
<1>8. DOMAIN order = 1 .. N
  BY <1>1
<1>9. Replaced(rule, text) = iter[1 .. N]
  <2>1. Replaced(rule, text) = FoldLeft(LAMBDA acc, i : ReplaceNext(rule, text, acc, i), Begun, order)
    BY <1>1 DEF Replaced, Begun
  <2> QED
    BY <1>7, <1>8, <2>1 DEF FoldLeft, MapThenFoldSet
<1>10. Eq(iter)
  <2> HIDE DEF Eq
  <2> QED
    BY <1>6, <1>7
<1>11. PICK h : h = [n \in 0 .. N |-> iter[1 .. n]]
  OBVIOUS
<1>12. h[0] = Begun
  <2>1. 1 .. 0 = {} /\ 0 \in 0 .. N
    OBVIOUS
  <2> QED
    BY <1>10, <1>11, <2>1
<1>13. ASSUME NEW n \in 1 .. N PROVE h[n] = ReplaceNext(rule, text, h[n - 1], n)
  <2>1. /\ (1 .. n) \in (SUBSET (1 .. N)) \ {{}}
        /\ Max(1 .. n) = n
        /\ (1 .. n) \ {n} = 1 .. (n - 1)
        /\ n \in 0 .. N /\ n - 1 \in 0 .. N
    BY MaxOfPrefix
  <2>2. iter[1 .. n] = ReplaceNext(rule, text, iter[(1 .. n) \ {n}], n)
    BY <1>1, <1>10, <2>1
  <2> QED
    BY <1>11, <2>1, <2>2
<1>14. h \in [0 .. N -> Acc(C)]
  <2>1. \A n \in 1 .. N : h[n - 1] \in Acc(C) => h[n] = step[n][h[n - 1]]
    BY <1>3, <1>13
  <2>2. DOMAIN h = 0 .. N /\ h = [n \in 0 .. N |-> h[n]]
    BY <1>11
  <2> QED
    BY <1>2, <1>4, <1>12, <2>1, <2>2, LeftTypes
<1>15. h[N] = iter[1 .. N]
  BY <1>11
<1> QED
  BY <1>9, <1>12, <1>13, <1>14, <1>15

\* What is left of a match is text without marks.
Ahead(text, M, a, n) ==
  a.rest <= Len(text) - n /\ \A j \in 1 .. a.rest : text[n + j] \notin M

\* What was written without a mark since the last replacement is what was read.
TailKept(rule, text, M, a, n) ==
  \A k \in 1 .. Len(a.out) :
    (\A j \in 0 .. k - 1 : a.out[Len(a.out) - j] \notin M) =>
      /\ a.rest = 0
      /\ k <= n
      /\ \A j \in 0 .. k - 1 : a.out[Len(a.out) - j] = text[n - j] /\ ~At(rule.find, text, n - j)

\* A word that was written was read, at a place where the rule does not match.
WordsKept(rule, text, words, a) ==
  \A w \in words, p \in 1 .. Len(a.out) :
    At(w, a.out, p) => \E q \in 1 .. Len(text) : At(w, text, q) /\ ~At(rule.find, text, q)

\* As long as the rule does not match, what is read is written.
SameYet(text, a, n) ==
  a.count = 0 => a.rest = 0 /\ Len(a.out) = n /\ \A j \in 1 .. n : a.out[j] = text[j]

Moves(rule, text, C, M, a, b, n) ==
  /\ RuleFits(rule, C, M)
  /\ text \in Seq(C)
  /\ n \in 1 .. Len(text)
  /\ a \in Acc(C) /\ b \in Acc(C)
  /\ Skips(a, b) \/ Hits(rule, text, a, b, n) \/ Copies(rule, text, a, b, n)

LEMMA AheadNext ==
  ASSUME NEW rule, NEW text, NEW C, NEW M, NEW a, NEW b, NEW n, Moves(rule, text, C, M, a, b, n),
         Ahead(text, M, a, n - 1)
  PROVE  Ahead(text, M, b, n)
<1>1. /\ a.rest \in Nat /\ b.rest \in Nat /\ n \in Nat /\ Len(text) \in Nat /\ n >= 1 /\ n <= Len(text)
  BY DEF Moves, Acc
<1>2. CASE Skips(a, b)
  <2>1. b.rest = a.rest - 1 /\ a.rest <= Len(text) - (n - 1)
    BY <1>2 DEF Skips, Ahead
  <2>2. ASSUME NEW j \in 1 .. b.rest PROVE text[n + j] \notin M
    <3>1. j + 1 \in 1 .. a.rest /\ (n - 1) + (j + 1) = n + j
      BY <1>1, <2>1
    <3> QED
      BY <3>1 DEF Ahead
  <2> QED
    BY <1>1, <2>1, <2>2 DEF Ahead
<1>3. CASE Hits(rule, text, a, b, n)
  <2>1. PICK f : f = rule.find
    OBVIOUS
  <2>2. f \in Seq(C \ M) /\ f # << >>
    BY <2>1 DEF Moves, RuleFits
  <2>3. Len(f) \in Nat /\ Len(f) >= 1
    BY <2>2
  <2>4. b.rest = Len(f) - 1 /\ n + Len(f) - 1 <= Len(text) /\ \A j \in 1 .. Len(f) : text[n + j - 1] = f[j]
    BY <1>3, <2>1 DEF Hits, At
  <2>5. ASSUME NEW j \in 1 .. b.rest PROVE text[n + j] \notin M
    <3>1. j + 1 \in 1 .. Len(f) /\ n + (j + 1) - 1 = n + j
      BY <1>1, <2>3, <2>4
    <3>2. f[j + 1] \in C \ M
      BY <2>2, <3>1
    <3> QED
      BY <2>4, <3>1, <3>2
  <2> QED
    BY <1>1, <2>3, <2>4, <2>5 DEF Ahead
<1>4. CASE Copies(rule, text, a, b, n)
  <2>1. b.rest = 0
    BY <1>4 DEF Copies
  <2> QED
    BY <1>1, <2>1 DEF Ahead
<1> QED
  BY <1>2, <1>3, <1>4 DEF Moves

LEMMA TailNext ==
  ASSUME NEW rule, NEW text, NEW C, NEW M, NEW a, NEW b, NEW n, Moves(rule, text, C, M, a, b, n),
         TailKept(rule, text, M, a, n - 1)
  PROVE  TailKept(rule, text, M, b, n)
<1>1. /\ a.rest \in Nat /\ b.rest \in Nat /\ n \in Nat /\ n >= 1
      /\ a.out \in Seq(C) /\ Len(a.out) \in Nat /\ b.out \in Seq(C) /\ Len(b.out) \in Nat
  BY DEF Moves, Acc
<1> SUFFICES ASSUME NEW k \in 1 .. Len(b.out), \A j \in 0 .. k - 1 : b.out[Len(b.out) - j] \notin M
             PROVE  /\ b.rest = 0
                    /\ k <= n
                    /\ \A j \in 0 .. k - 1 :
                         b.out[Len(b.out) - j] = text[n - j] /\ ~At(rule.find, text, n - j)
  BY DEF TailKept
<1>2. k \in Nat /\ k >= 1 /\ 0 \in 0 .. k - 1
  BY <1>1
<1>3. b.out[Len(b.out)] \notin M
  <2>1. Len(b.out) - 0 = Len(b.out)
    BY <1>1
  <2> QED
    BY <1>2, <2>1
<1>4. CASE Skips(a, b)
  <2>1. a.rest > 0 /\ b.out = a.out
    BY <1>4 DEF Skips
  <2>2. a.rest = 0
    BY <2>1 DEF TailKept
  <2> QED
    BY <1>1, <2>1, <2>2
<1>5. CASE Hits(rule, text, a, b, n)
  <2>1. PICK put \in Seq(C) : put = rule.put /\ put # << >> /\ put[Len(put)] \in M
    BY DEF Moves, RuleFits
  <2>2. b.out = a.out \o put
    BY <1>5, <2>1 DEF Hits
  <2>3. PICK m \in Nat \ {0} : m = Len(put)
    BY <2>1
  <2>4. Len(b.out) = Len(a.out) + m /\ b.out[Len(a.out) + m] = put[m]
    <3>1. PICK out \in Seq(C), i \in Nat : out = a.out /\ i = Len(out)
      BY <1>1
    <3>2. Len(out \o put) = i + m /\ (out \o put)[i + m] = put[m]
      BY <2>3, <3>1
    <3> QED
      BY <2>2, <3>1, <3>2
  <2> QED
    BY <1>3, <2>1, <2>3, <2>4
<1>6. CASE Copies(rule, text, a, b, n)
  <2>1. PICK x \in C : x = text[n]
    BY DEF Moves
  <2>2. b.out = Append(a.out, x) /\ b.rest = 0 /\ ~At(rule.find, text, n)
    BY <1>6, <2>1 DEF Copies
  <2>3. PICK m \in Nat : m = Len(a.out)
    BY <1>1
  <2>4. Len(b.out) = m + 1 /\ b.out[m + 1] = x /\ \A i \in 1 .. m : b.out[i] = a.out[i]
    BY <1>1, <2>2, <2>3
  <2>5. CASE k = 1
    <3>1. \A j \in 0 .. k - 1 : j = 0 /\ m + 1 - j = m + 1 /\ n - j = n
      BY <1>1, <2>3, <2>5
    <3> QED
      BY <1>1, <2>1, <2>2, <2>4, <2>5, <3>1
  <2>6. CASE k > 1
    <3>1. PICK l \in 1 .. m : l = k - 1
      BY <1>2, <2>4, <2>6
    <3>2. ASSUME NEW j \in 0 .. l - 1
          PROVE  a.out[m - j] = b.out[m + 1 - (j + 1)] /\ a.out[m - j] \notin M
      <4>1. m - j \in 1 .. m /\ m + 1 - (j + 1) = m - j /\ j + 1 \in 0 .. k - 1
        BY <3>1
      <4>2. a.out[m - j] = b.out[m - j]
        BY <2>4, <4>1
      <4>3. b.out[m + 1 - (j + 1)] \notin M
        <5>1. PICK i \in 0 .. k - 1 : i = j + 1
          BY <4>1
        <5>2. b.out[Len(b.out) - i] \notin M
          OBVIOUS
        <5>3. Len(b.out) - i = m + 1 - (j + 1)
          BY <2>4, <5>1
        <5> QED
          BY <5>2, <5>3
      <4> QED
        BY <4>1, <4>2, <4>3
    <3>3. /\ l <= n - 1
          /\ \A j \in 0 .. l - 1 : a.out[m - j] = text[n - 1 - j] /\ ~At(rule.find, text, n - 1 - j)
      BY <2>3, <3>1, <3>2 DEF TailKept
    <3>4. ASSUME NEW j \in 0 .. k - 1
          PROVE  b.out[m + 1 - j] = text[n - j] /\ ~At(rule.find, text, n - j)
      <4>1. CASE j = 0
        <5>1. m + 1 - j = m + 1 /\ n - j = n
          BY <1>1, <4>1
        <5> QED
          BY <2>1, <2>2, <2>4, <5>1
      <4>2. CASE j # 0
        <5>1. PICK i \in 0 .. l - 1 : i = j - 1 /\ i + 1 = j
          BY <3>1, <4>2
        <5>2. n - 1 - i = n - j /\ m + 1 - (i + 1) = m + 1 - j
          BY <1>1, <5>1
        <5> QED
          BY <3>2, <3>3, <5>1, <5>2
      <4> QED
        BY <4>1, <4>2
    <3>5. k <= n
      BY <1>1, <3>1, <3>3
    <3> QED
      BY <2>2, <2>4, <3>4, <3>5
  <2> QED
    BY <1>2, <2>5, <2>6
<1> QED
  BY <1>4, <1>5, <1>6 DEF Moves

LEMMA SameNext ==
  ASSUME NEW rule, NEW text, NEW C, NEW M, NEW a, NEW b, NEW n, Moves(rule, text, C, M, a, b, n),
         SameYet(text, a, n - 1)
  PROVE  SameYet(text, b, n)
<1>1. /\ a.count \in Nat /\ a.rest \in Nat /\ n \in Nat /\ n >= 1
      /\ a.out \in Seq(C)
  BY DEF Moves, Acc
<1>2. CASE Skips(a, b)
  BY <1>1, <1>2 DEF Skips, SameYet
<1>3. CASE Hits(rule, text, a, b, n)
  BY <1>1, <1>3 DEF Hits, SameYet
<1>4. CASE Copies(rule, text, a, b, n)
  <2> SUFFICES ASSUME a.count = 0 PROVE Len(b.out) = n /\ \A j \in 1 .. n : b.out[j] = text[j]
    BY <1>4 DEF Copies, SameYet
  <2>1. PICK x \in C : x = text[n]
    BY DEF Moves
  <2>2. b.out = Append(a.out, x) /\ Len(a.out) = n - 1 /\ \A j \in 1 .. n - 1 : a.out[j] = text[j]
    BY <1>4, <2>1 DEF Copies, SameYet
  <2>3. Len(b.out) = n /\ b.out[n] = x /\ \A j \in 1 .. n - 1 : b.out[j] = a.out[j]
    BY <1>1, <2>2
  <2> QED
    BY <1>1, <2>1, <2>2, <2>3
<1> QED
  BY <1>2, <1>3, <1>4 DEF Moves

\* A joined sequence, place by place.
LEMMA JoinedIs ==
  ASSUME NEW C, NEW s \in Seq(C), NEW t \in Seq(C), NEW m, NEW k, m = Len(s), k = Len(t),
         NEW joined, joined = s \o t
  PROVE  /\ Len(joined) = m + k
         /\ \A i \in 1 .. m : joined[i] = s[i]
         /\ \A i \in 1 .. k : joined[m + i] = t[i]
<1>1. Len(s \o t) = m + k
  OBVIOUS
<1>2. ASSUME NEW i \in 1 .. m PROVE (s \o t)[i] = s[i]
  OBVIOUS
<1>3. ASSUME NEW i \in 1 .. k PROVE (s \o t)[m + i] = t[i]
  OBVIOUS
<1> QED
  BY <1>1, <1>2, <1>3

\* Words without marks that no replacement holds.
Plain(words, put, C, M) ==
  \A w \in words : /\ w \in Seq(C \ M) /\ w # << >>
                   /\ \A p \in 1 .. Len(put) : ~At(w, put, p)

LEMMA WordsNext ==
  ASSUME NEW rule, NEW text, NEW C, NEW M, NEW a, NEW b, NEW n, Moves(rule, text, C, M, a, b, n),
         NEW words, Plain(words, rule.put, C, M),
         WordsKept(rule, text, words, a), TailKept(rule, text, M, b, n)
  PROVE  WordsKept(rule, text, words, b)
<1>1. /\ n \in Nat /\ n >= 1 /\ n <= Len(text) /\ Len(text) \in Nat
      /\ a.out \in Seq(C) /\ b.out \in Seq(C)
  BY DEF Moves, Acc
<1> SUFFICES ASSUME NEW w \in words, NEW p \in 1 .. Len(b.out), At(w, b.out, p)
             PROVE  \E q \in 1 .. Len(text) : At(w, text, q) /\ ~At(rule.find, text, q)
  BY DEF WordsKept
<1>2. PICK out \in Seq(C), m \in Nat : out = a.out /\ m = Len(out)
  BY <1>1
<1>3. PICK l \in Nat \ {0} : l = Len(w)
  BY DEF Plain
<1>4. \A j \in 1 .. l : w[j] \in C /\ w[j] \notin M
  BY <1>3 DEF Plain
<1>5. p \in Nat /\ p >= 1 /\ p + l - 1 <= Len(b.out) /\ \A j \in 1 .. l : b.out[p + j - 1] = w[j]
  BY <1>1, <1>3 DEF At
<1>6. CASE b.out = out
  BY <1>2, <1>6 DEF WordsKept
<1>7. ASSUME p + l - 1 <= m, \A i \in 1 .. m : b.out[i] = out[i]
      PROVE  \E q \in 1 .. Len(text) : At(w, text, q) /\ ~At(rule.find, text, q)
  <2>1. \A j \in 1 .. l : p + j - 1 \in 1 .. m
    BY <1>5, <1>7
  <2>2. \A j \in 1 .. l : out[p + j - 1] = w[j]
    BY <1>5, <1>7, <2>1
  <2>3. At(w, out, p) /\ p \in 1 .. m
    BY <1>2, <1>3, <1>5, <1>7, <2>2 DEF At
  <2> QED
    BY <1>2, <2>3 DEF WordsKept
<1>8. CASE Skips(a, b)
  BY <1>2, <1>6, <1>8 DEF Skips
<1>9. CASE Hits(rule, text, a, b, n)
  <2>1. PICK put \in Seq(C), k \in Nat \ {0} : put = rule.put /\ k = Len(put) /\ put[1] \in M
    BY DEF Moves, RuleFits
  <2>2. b.out = out \o put
    BY <1>2, <1>9, <2>1 DEF Hits
  <2>3. /\ Len(b.out) = m + k
        /\ \A i \in 1 .. m : b.out[i] = out[i]
        /\ \A i \in 1 .. k : b.out[m + i] = put[i]
    <3>1. PICK joined : joined = b.out
      OBVIOUS
    <3>2. joined = out \o put /\ m = Len(out) /\ k = Len(put)
      BY <1>2, <2>1, <2>2, <3>1
    <3>3. /\ Len(joined) = m + k
          /\ \A i \in 1 .. m : joined[i] = out[i]
          /\ \A i \in 1 .. k : joined[m + i] = put[i]
      BY <3>2, JoinedIs
    <3> QED
      BY <3>1, <3>3
  <2>4. CASE p + l - 1 <= m
    BY <1>7, <2>3, <2>4
  <2>5. CASE p + l - 1 > m /\ p <= m + 1
    <3>1. PICK j \in 1 .. l : j = m + 2 - p
      BY <1>5, <2>5
    <3>2. b.out[p + j - 1] = w[j] /\ p + j - 1 = m + 1
      BY <1>5, <3>1
    <3>3. b.out[m + 1] = put[1]
      BY <2>1, <2>3
    <3> QED
      BY <1>4, <2>1, <3>2, <3>3
  <2>6. CASE p > m + 1
    <3>1. PICK i \in 1 .. k : i = p - m
      BY <1>5, <2>3, <2>6
    <3>2. i + l - 1 <= k
      BY <1>5, <2>3, <3>1
    <3>3. ASSUME NEW j \in 1 .. l PROVE put[i + j - 1] = w[j]
      <4>1. i + j - 1 \in 1 .. k /\ m + (i + j - 1) = p + j - 1
        BY <1>5, <3>1, <3>2
      <4>2. b.out[m + (i + j - 1)] = put[i + j - 1]
        BY <2>3, <4>1
      <4> QED
        BY <1>5, <4>1, <4>2
    <3>4. At(w, put, i)
      BY <1>3, <2>1, <3>2, <3>3 DEF At
    <3> QED
      BY <2>1, <3>4 DEF Plain
  <2> QED
    BY <1>5, <2>4, <2>5, <2>6
<1>10. CASE Copies(rule, text, a, b, n)
  <2>1. PICK x \in C : x = text[n]
    BY DEF Moves
  <2>2. b.out = Append(out, x)
    BY <1>2, <1>10, <2>1 DEF Copies
  <2>3. Len(b.out) = m + 1 /\ \A i \in 1 .. m : b.out[i] = out[i]
    BY <1>2, <2>2
  <2>4. CASE p + l - 1 <= m
    BY <1>7, <2>3, <2>4
  <2>5. CASE p + l - 1 = m + 1
    <3>1. l \in 1 .. Len(b.out)
      BY <1>5, <2>3, <2>5
    <3>2. ASSUME NEW j \in 0 .. l - 1
          PROVE  b.out[m + 1 - j] = w[l - j] /\ l - j \in 1 .. l
      <4>1. l - j \in 1 .. l /\ p + (l - j) - 1 = m + 1 - j
        BY <1>5, <2>5
      <4>2. b.out[p + (l - j) - 1] = w[l - j]
        BY <1>5, <4>1
      <4> QED
        BY <4>1, <4>2
    <3>3. ASSUME NEW j \in 0 .. l - 1 PROVE b.out[Len(b.out) - j] \notin M
      <4>1. b.out[m + 1 - j] = w[l - j] /\ l - j \in 1 .. l
        BY <3>2
      <4>2. w[l - j] \notin M
        BY <1>4, <4>1
      <4>3. Len(b.out) - j = m + 1 - j
        BY <2>3
      <4> QED
        BY <4>1, <4>2, <4>3
    <3>10. /\ l <= n
           /\ \A j \in 0 .. l - 1 :
                b.out[Len(b.out) - j] = text[n - j] /\ ~At(rule.find, text, n - j)
      BY <3>1, <3>3 DEF TailKept
    <3>4. /\ l <= n
          /\ \A j \in 0 .. l - 1 : b.out[m + 1 - j] = text[n - j] /\ ~At(rule.find, text, n - j)
      BY <2>3, <3>10
    <3>5. PICK q \in 1 .. n : q = n - (l - 1)
      BY <1>1, <3>4
    <3>6. ~At(rule.find, text, q)
      <4>1. l - 1 \in 0 .. l - 1
        OBVIOUS
      <4> QED
        BY <3>4, <3>5, <4>1
    <3>7. ASSUME NEW j \in 1 .. l PROVE text[q + j - 1] = w[j]
      <4>1. PICK i \in 0 .. l - 1 : i = l - j
        OBVIOUS
      <4>2. l - i = j /\ n - i = q + j - 1
        BY <1>1, <3>5, <4>1
      <4> QED
        BY <3>2, <3>4, <4>2
    <3>8. q \in 1 .. Len(text) /\ q + l - 1 = n
      BY <1>1, <3>5
    <3>9. At(w, text, q)
      BY <1>1, <1>3, <3>7, <3>8 DEF At
    <3> QED
      BY <3>6, <3>8, <3>9
  <2> QED
    BY <1>5, <2>3, <2>4, <2>5
<1> QED
  BY <1>8, <1>9, <1>10 DEF Moves

Marked(s, n, M) == {j \in 1 .. n : s[j] \in M}
Marks(s, M) == Cardinality(Marked(s, Len(s), M))

\* Replacements add marks, and nothing takes any away.
MarksKept(text, M, a, n) ==
  Marks(a.out, M) >= Cardinality(Marked(text, n, M)) + (IF a.count > 0 THEN 1 ELSE 0)

LEMMA MarkedFinite ==
  ASSUME NEW s, NEW n \in Nat, NEW M
  PROVE  IsFiniteSet(Marked(s, n, M)) /\ Cardinality(Marked(s, n, M)) \in Nat
<1>1. IsFiniteSet(1 .. n)
  BY FS_Interval
<1>2. IsFiniteSet(Marked(s, n, M))
  BY <1>1, FS_Subset DEF Marked
<1> QED
  BY <1>2, FS_CardinalityType

\* One character more.
LEMMA MarkedNext ==
  ASSUME NEW s, NEW n \in Nat, n >= 1, NEW M
  PROVE  Cardinality(Marked(s, n, M)) = Cardinality(Marked(s, n - 1, M)) + (IF s[n] \in M THEN 1 ELSE 0)
<1>1. PICK m \in Nat : m = n - 1
  OBVIOUS
<1>2. PICK old : old = Marked(s, m, M)
  OBVIOUS
<1>3. IsFiniteSet(old) /\ Cardinality(old) \in Nat
  BY <1>2, MarkedFinite
<1>4. CASE s[n] \in M
  <2>1. Marked(s, n, M) = old \cup {n} /\ n \notin old
    BY <1>1, <1>2, <1>4 DEF Marked
  <2>2. Cardinality(old \cup {n}) = Cardinality(old) + 1
    BY <1>3, <2>1, FS_AddElement
  <2> QED
    BY <1>1, <1>2, <1>4, <2>1, <2>2
<1>5. CASE s[n] \notin M
  <2>1. Marked(s, n, M) = old
    BY <1>1, <1>2, <1>5 DEF Marked
  <2> QED
    BY <1>1, <1>2, <1>3, <1>5, <2>1
<1> QED
  BY <1>4, <1>5

LEMMA MarksNext ==
  ASSUME NEW rule, NEW text, NEW C, NEW M, NEW a, NEW b, NEW n, Moves(rule, text, C, M, a, b, n),
         Ahead(text, M, a, n - 1), MarksKept(text, M, a, n - 1)
  PROVE  MarksKept(text, M, b, n)
<1>1. /\ n \in Nat /\ n >= 1 /\ n - 1 \in Nat
      /\ a.out \in Seq(C) /\ b.out \in Seq(C) /\ a.count \in Nat /\ b.count \in Nat /\ a.rest \in Nat
  BY DEF Moves, Acc
<1>2. PICK out \in Seq(C), m \in Nat : out = a.out /\ m = Len(out)
  BY <1>1
<1>3. PICK o \in Nat : o = Cardinality(Marked(out, m, M))
  BY MarkedFinite
<1>4. PICK t \in Nat : t = Cardinality(Marked(text, n - 1, M))
  BY <1>1, MarkedFinite
<1>5. Cardinality(Marked(text, n, M)) = t + (IF text[n] \in M THEN 1 ELSE 0)
  BY <1>1, <1>4, MarkedNext
<1>6. o >= t + (IF a.count > 0 THEN 1 ELSE 0)
  BY <1>2, <1>3, <1>4 DEF MarksKept, Marks
<1>7. CASE Skips(a, b)
  <2>1. 1 \in 1 .. a.rest /\ (n - 1) + 1 = n
    BY <1>1, <1>7 DEF Skips
  <2>2. text[n] \notin M
    BY <2>1 DEF Ahead
  <2>3. b.out = out /\ b.count = a.count
    BY <1>2, <1>7 DEF Skips
  <2> QED
    BY <1>2, <1>3, <1>5, <1>6, <2>2, <2>3 DEF MarksKept, Marks
<1>8. CASE Hits(rule, text, a, b, n)
  <2>1. PICK f \in Seq(C \ M) : f = rule.find /\ f # << >>
    BY DEF Moves, RuleFits
  <2>2. 1 \in 1 .. Len(f) /\ f[1] \in C \ M /\ n + 1 - 1 = n
    BY <1>1, <2>1
  <2>3. text[n] = f[1]
    BY <1>8, <2>1, <2>2 DEF Hits, At
  <2>4. PICK put \in Seq(C), k \in Nat \ {0} : put = rule.put /\ k = Len(put) /\ put[1] \in M
    BY DEF Moves, RuleFits
  <2>5. b.out = out \o put /\ b.count = a.count + 1
    BY <1>2, <1>8, <2>4 DEF Hits
  <2>6. /\ Len(b.out) = m + k
        /\ \A i \in 1 .. m : b.out[i] = out[i]
        /\ b.out[m + 1] = put[1]
    <3>1. PICK joined : joined = b.out
      OBVIOUS
    <3>2. joined = out \o put /\ m = Len(out) /\ k = Len(put)
      BY <1>2, <2>4, <2>5, <3>1
    <3>3. /\ Len(joined) = m + k
          /\ \A i \in 1 .. m : joined[i] = out[i]
          /\ \A i \in 1 .. k : joined[m + i] = put[i]
      BY <3>2, JoinedIs
    <3>4. 1 \in 1 .. k
      BY <2>4
    <3> QED
      BY <3>1, <3>3, <3>4
  <2>7. PICK all : all = Marked(b.out, m + k, M)
    OBVIOUS
  <2>8. IsFiniteSet(all) /\ Cardinality(all) \in Nat
    BY <2>7, MarkedFinite
  <2>9. Marked(out, m, M) \cup {m + 1} \subseteq all /\ m + 1 \notin Marked(out, m, M)
    BY <2>4, <2>6, <2>7 DEF Marked
  <2>10. Cardinality(Marked(out, m, M) \cup {m + 1}) = o + 1
    BY <1>3, <2>9, MarkedFinite, FS_AddElement
  <2>11. Cardinality(Marked(out, m, M) \cup {m + 1}) <= Cardinality(all)
    BY <2>8, <2>9, FS_Subset
  <2>12. Marks(b.out, M) = Cardinality(all)
    BY <2>6, <2>7 DEF Marks
  <2>13. Cardinality(Marked(text, n, M)) = t
    BY <1>5, <2>2, <2>3
  <2>14. Marks(b.out, M) >= t + 1
    BY <1>6, <2>8, <2>10, <2>11, <2>12
  <2>15. b.count > 0
    BY <1>1, <2>5
  <2> QED
    BY <2>13, <2>14, <2>15 DEF MarksKept
<1>9. CASE Copies(rule, text, a, b, n)
  <2>1. PICK x \in C : x = text[n]
    BY DEF Moves
  <2>2. b.out = Append(out, x) /\ b.count = a.count
    BY <1>2, <1>9, <2>1 DEF Copies
  <2>3. Len(b.out) = m + 1 /\ b.out[m + 1] = x /\ \A i \in 1 .. m : b.out[i] = out[i]
    BY <1>2, <2>2
  <2>4. Marked(b.out, m, M) = Marked(out, m, M)
    BY <2>3 DEF Marked
  <2>5. Cardinality(Marked(b.out, m + 1, M)) = o + (IF x \in M THEN 1 ELSE 0)
    <3>1. m + 1 \in Nat /\ m + 1 >= 1 /\ (m + 1) - 1 = m
      OBVIOUS
    <3>2. Cardinality(Marked(b.out, m + 1, M)) =
            Cardinality(Marked(b.out, m, M)) + (IF b.out[m + 1] \in M THEN 1 ELSE 0)
      BY <3>1, MarkedNext
    <3> QED
      BY <1>3, <2>3, <2>4, <3>2
  <2>6. Marks(b.out, M) = o + (IF x \in M THEN 1 ELSE 0)
    BY <2>3, <2>5 DEF Marks
  <2> QED
    BY <1>5, <1>6, <2>1, <2>2, <2>6 DEF MarksKept
<1> QED
  BY <1>7, <1>8, <1>9 DEF Moves

\* What holds of the accumulators that replace_all goes through.
ReplaceKept(rule, text, words, M, a, n) ==
  /\ Ahead(text, M, a, n)
  /\ TailKept(rule, text, M, a, n)
  /\ WordsKept(rule, text, words, a)
  /\ SameYet(text, a, n)
  /\ MarksKept(text, M, a, n)

LEMMA KeptBegun ==
  ASSUME NEW rule, NEW C, NEW text \in Seq(C), NEW words, NEW M
  PROVE  ReplaceKept(rule, text, words, M, Begun, 0)
<1>1. PICK a : a = Begun
  OBVIOUS
<1>2. a.out = << >> /\ a.rest = 0 /\ a.count = 0 /\ Len(a.out) = 0
  BY <1>1 DEF Begun
<1>3. Ahead(text, M, a, 0)
  BY <1>2 DEF Ahead
<1>4. TailKept(rule, text, M, a, 0) /\ WordsKept(rule, text, words, a)
  BY <1>2 DEF TailKept, WordsKept
<1>5. SameYet(text, a, 0)
  BY <1>2 DEF SameYet
<1>6. MarksKept(text, M, a, 0)
  <2>1. \A s : Marked(s, 0, M) = {}
    BY DEF Marked
  <2>2. Marks(a.out, M) = Cardinality({}) /\ Cardinality(Marked(text, 0, M)) = Cardinality({})
    BY <1>2, <2>1 DEF Marks
  <2>3. Cardinality({}) = 0
    BY FS_EmptySet
  <2> QED
    BY <1>2, <2>2, <2>3 DEF MarksKept
<1> QED
  BY <1>1, <1>3, <1>4, <1>5, <1>6 DEF ReplaceKept

LEMMA KeptNext ==
  ASSUME NEW rule, NEW text, NEW C, NEW M, NEW a, NEW b, NEW n, Moves(rule, text, C, M, a, b, n),
         NEW words, Plain(words, rule.put, C, M), ReplaceKept(rule, text, words, M, a, n - 1)
  PROVE  ReplaceKept(rule, text, words, M, b, n)
<1>1. Ahead(text, M, b, n)
  BY AheadNext DEF ReplaceKept
<1>2. TailKept(rule, text, M, b, n)
  BY TailNext DEF ReplaceKept
<1>3. WordsKept(rule, text, words, b)
  BY <1>2, WordsNext DEF ReplaceKept
<1>4. SameYet(text, b, n)
  BY SameNext DEF ReplaceKept
<1>5. MarksKept(text, M, b, n)
  BY MarksNext DEF ReplaceKept
<1> QED
  BY <1>1, <1>2, <1>3, <1>4, <1>5 DEF ReplaceKept

Absent(w, s) == \A p \in 1 .. Len(s) : ~At(w, s, p)

\* What a step of a redaction makes of a text: no word appears that was not there,
\* and a text that is touched gains a mark.
Redacts(words, M, s, t, touched) ==
  /\ \A w \in words : Absent(w, s) => Absent(w, t)
  /\ ~touched => t = s
  /\ touched => Marks(t, M) > Marks(s, M)

\* One rule: what it looks for is gone.
LEMMA ReplacedRedacts ==
  ASSUME NEW C, NEW M, NEW rule, RuleFits(rule, C, M), NEW text \in Seq(C),
         NEW words, Plain(words, rule.put, C, M), rule.find \in words,
         NEW r, r = Replaced(rule, text)
  PROVE  /\ r \in Acc(C)
         /\ Absent(rule.find, r.out)
         /\ Redacts(words, M, text, r.out, r.count # 0)
<1>1. PICK N \in Nat : N = Len(text)
  OBVIOUS
<1>2. PICK h : /\ h \in [0 .. N -> Acc(C)]
               /\ h[0] = Begun
               /\ \A n \in 1 .. N : h[n] = ReplaceNext(rule, text, h[n - 1], n)
               /\ Replaced(rule, text) = h[N]
  BY <1>1, ReplaceFold
<1>3. ASSUME NEW n \in Nat, n <= N, n >= 1, ReplaceKept(rule, text, words, M, h[n - 1], n - 1)
      PROVE  ReplaceKept(rule, text, words, M, h[n], n)
  <2>1. PICK a \in Acc(C), b \in Acc(C) : a = h[n - 1] /\ b = h[n]
    <3>1. n - 1 \in 0 .. N /\ n \in 0 .. N
      BY <1>3
    <3> QED
      BY <1>2, <3>1
  <2>2. b = ReplaceNext(rule, text, a, n) /\ n \in 1 .. Len(text)
    BY <1>1, <1>2, <1>3, <2>1
  <2>3. Skips(a, b) \/ Hits(rule, text, a, b, n) \/ Copies(rule, text, a, b, n)
    BY <2>2, ReplaceMoves
  <2>4. Moves(rule, text, C, M, a, b, n)
    BY <2>2, <2>3 DEF Moves
  <2>5. ReplaceKept(rule, text, words, M, a, n - 1)
    BY <1>3, <2>1
  <2>6. ReplaceKept(rule, text, words, M, b, n)
    BY <2>4, <2>5, KeptNext
  <2> QED
    BY <2>1, <2>6
<1>4. ReplaceKept(rule, text, words, M, h[N], N)
  <2> DEFINE Good == {n \in Nat : n <= N => ReplaceKept(rule, text, words, M, h[n], n)}
  <2>1. 0 \in Good
    BY <1>2, KeptBegun
  <2>2. ASSUME NEW n \in Good PROVE n + 1 \in Good
    <3> SUFFICES ASSUME n + 1 <= N PROVE ReplaceKept(rule, text, words, M, h[n + 1], n + 1)
      OBVIOUS
    <3>1. PICK m \in Nat : m = n + 1
      OBVIOUS
    <3>2. m <= N /\ m >= 1 /\ m - 1 = n
      BY <3>1
    <3>3. ReplaceKept(rule, text, words, M, h[m - 1], m - 1)
      BY <3>1, <3>2
    <3>4. ReplaceKept(rule, text, words, M, h[m], m)
      BY <1>3, <3>2, <3>3
    <3> QED
      BY <3>1, <3>4
  <2>3. Good = Nat
    <3> HIDE DEF Good
    <3>1. Good \subseteq Nat
      BY DEF Good
    <3> QED
      BY <2>1, <2>2, <3>1, NumberInduction
  <2>4. N \in Good
    BY <2>3
  <2> QED
    BY <2>4
<1>5. r = h[N] /\ r \in Acc(C)
  BY <1>2
<1>6. r.out \in Seq(C) /\ r.count \in Nat
  BY <1>5 DEF Acc
<1>7. ReplaceKept(rule, text, words, M, r, N)
  BY <1>4, <1>5
<1>8. WordsKept(rule, text, words, r)
  BY <1>7 DEF ReplaceKept
<1>9. Absent(rule.find, r.out)
  BY <1>8 DEF WordsKept, Absent
<1>10. ASSUME NEW w \in words, Absent(w, text) PROVE Absent(w, r.out)
  BY <1>8, <1>10 DEF WordsKept, Absent
<1>11. ASSUME r.count = 0 PROVE r.out = text
  <2>1. Len(r.out) = N /\ \A j \in 1 .. N : r.out[j] = text[j]
    BY <1>7, <1>11 DEF ReplaceKept, SameYet
  <2>2. PICK out \in Seq(C) : out = r.out
    BY <1>6
  <2>3. out = text
    BY <1>1, <2>1, <2>2, SameSequence
  <2> QED
    BY <2>2, <2>3
<1>12. ASSUME r.count # 0 PROVE Marks(r.out, M) > Marks(text, M)
  <2>1. r.count > 0
    BY <1>6, <1>12
  <2>2. Marks(r.out, M) >= Marks(text, M) + 1
    BY <1>1, <1>7, <2>1 DEF ReplaceKept, MarksKept, Marks
  <2>3. Marks(text, M) \in Nat /\ Marks(r.out, M) \in Nat
    <3>1. Len(text) \in Nat /\ Len(r.out) \in Nat
      BY <1>6
    <3> QED
      BY <3>1, MarkedFinite DEF Marks
  <2> QED
    BY <2>2, <2>3
<1> QED
  BY <1>5, <1>9, <1>10, <1>11, <1>12 DEF Redacts

-----------------------------------------------------------------------------
(* The rules of a redactor one after another, and the redactors of a stack. *)

LEMMA MarksType ==
  ASSUME NEW C, NEW s \in Seq(C), NEW M
  PROVE  Marks(s, M) \in Nat
BY MarkedFinite DEF Marks

LEMMA RedactsTwice ==
  ASSUME NEW C, NEW M, NEW words, NEW s \in Seq(C), NEW t \in Seq(C), NEW u \in Seq(C),
         NEW x \in BOOLEAN, NEW y \in BOOLEAN,
         Redacts(words, M, s, t, x), Redacts(words, M, t, u, y)
  PROVE  Redacts(words, M, s, u, x \/ y)
<1>1. PICK p \in Nat, q \in Nat, r \in Nat : p = Marks(s, M) /\ q = Marks(t, M) /\ r = Marks(u, M)
  BY MarksType
<1>2. \A w \in words : Absent(w, s) => Absent(w, u)
  BY DEF Redacts
<1>3. (x => q > p) /\ (~x => p = q) /\ (y => r > q) /\ (~y => q = r)
  BY <1>1 DEF Redacts
<1>4. x \/ y => r > p
  BY <1>1, <1>3
<1>5. ~(x \/ y) => u = s
  BY DEF Redacts
<1> QED
  BY <1>1, <1>2, <1>4, <1>5 DEF Redacts

RulesFit(rules, words, C, M) ==
  \A rule \in rules : RuleFits(rule, C, M) /\ rule.find \in words /\ Plain(words, rule.put, C, M)

Notes(C, D) == [text : Seq(C), matches : Seq(D)]
Named(redactor, rules, D) ==
  \A rule \in rules, n \in Nat : [rule |-> <<redactor.id, rule.id>>, count |-> n] \in D

LEMMA AppliedRedacts ==
  ASSUME NEW C, NEW M, NEW words, NEW redactor, NEW rules, NEW rule \in rules,
         RulesFit(rules, words, C, M), NEW D, Named(redactor, rules, D),
         NEW a \in Notes(C, D), NEW b, b = ApplyRule(redactor, a, rule)
  PROVE  /\ b \in Notes(C, D)
         /\ Absent(rule.find, b.text)
         /\ \E x \in BOOLEAN : /\ Redacts(words, M, a.text, b.text, x)
                               /\ b.matches # << >> <=> (a.matches # << >> \/ x)
<1>1. PICK text \in Seq(C), matches \in Seq(D) : text = a.text /\ matches = a.matches
  BY DEF Notes
<1>2. PICK r : r = Replaced(rule, text)
  OBVIOUS
<1>3. RuleFits(rule, C, M) /\ rule.find \in words /\ Plain(words, rule.put, C, M)
  BY DEF RulesFit
<1>4. r \in Acc(C) /\ Absent(rule.find, r.out) /\ Redacts(words, M, text, r.out, r.count # 0)
  BY <1>2, <1>3, ReplacedRedacts
<1>5. r.out \in Seq(C) /\ r.count \in Nat
  BY <1>4 DEF Acc
<1>6. PICK m \in D : m = [rule |-> <<redactor.id, rule.id>>, count |-> r.count]
  BY <1>5 DEF Named
<1>7. b = [text |-> r.out, matches |-> IF r.count = 0 THEN matches ELSE Append(matches, m)]
  BY <1>1, <1>2, <1>6 DEF ApplyRule
<1>8. Append(matches, m) \in Seq(D) /\ Append(matches, m) # << >>
  OBVIOUS
<1>9. b.text = r.out /\ b.matches = IF r.count = 0 THEN matches ELSE Append(matches, m)
  BY <1>7
<1>10. b \in Notes(C, D)
  BY <1>5, <1>7, <1>8 DEF Notes
<1>11. PICK x \in BOOLEAN : x = (r.count # 0)
  OBVIOUS
<1>12. b.matches # << >> <=> (a.matches # << >> \/ x)
  BY <1>1, <1>8, <1>9, <1>11
<1> QED
  BY <1>1, <1>4, <1>9, <1>10, <1>11, <1>12

Start(s) == [text |-> s, matches |-> << >>]

PatternRuns(h, redactor, bytes, N, S) ==
  /\ h \in [0 .. N -> S]
  /\ h[0] = Start(Lossy(bytes))
  /\ \A n \in 1 .. N : h[n] = ApplyRule(redactor, h[n - 1], redactor.rules[n])
  /\ PatternRedact(redactor, bytes) = h[N]

\* What the rules of a redactor make of a text, one after another.
LEMMA PatternFold ==
  ASSUME NEW C, NEW M, NEW words, NEW redactor, NEW N \in Nat, N = Len(redactor.rules),
         redactor.rules \in Seq(Range(redactor.rules)),
         RulesFit(Range(redactor.rules), words, C, M),
         NEW D, Named(redactor, Range(redactor.rules), D), NEW bytes, Lossy(bytes) \in Seq(C)
  PROVE  \E h : PatternRuns(h, redactor, bytes, N, Notes(C, D))
<1>1. PICK rules \in Seq(Range(redactor.rules)) : rules = redactor.rules
  OBVIOUS
<1>2. PICK base : base = Start(Lossy(bytes))
  OBVIOUS
<1>3. base \in Notes(C, D)
  BY <1>2 DEF Start, Notes
<1>4. PICK step : step = [n \in 1 .. N |-> [a \in Notes(C, D) |-> ApplyRule(redactor, a, rules[n])]]
  OBVIOUS
<1>5. DOMAIN rules = 1 .. N /\ \A n \in 1 .. N : rules[n] \in Range(redactor.rules)
  BY <1>1
<1>6. Steps(step, 1 .. N, Notes(C, D))
  <2>1. \A n \in 1 .. N, a \in Notes(C, D) : ApplyRule(redactor, a, rules[n]) \in Notes(C, D)
    BY <1>5, AppliedRedacts
  <2> QED
    BY <1>4, <2>1 DEF Steps
<1>7. PICK g \in [SUBSET (1 .. N) -> Notes(C, D)] :
        /\ g[{}] = base
        /\ \A s \in (SUBSET (1 .. N)) \ {{}} :
             /\ Max(s) \in 1 .. N
             /\ g[s \ {Max(s)}] \in Notes(C, D)
             /\ g[s] = step[Max(s)][g[s \ {Max(s)}]]
  <2>1. FoldsLeft(N, Notes(C, D), base, step)
    BY <1>3, <1>6, LeftFold
  <2> QED
    BY <2>1 DEF FoldsLeft
<1> DEFINE Eq(f) == f = [s \in SUBSET (1 .. N) |->
              IF s = {} THEN base ELSE ApplyRule(redactor, f[s \ {Max(s)}], rules[Max(s)])]
<1>8. Eq(g)
  <2>1. ASSUME NEW s \in (SUBSET (1 .. N)) \ {{}}
        PROVE  g[s] = ApplyRule(redactor, g[s \ {Max(s)}], rules[Max(s)])
    BY <1>4, <1>7
  <2> QED
    BY <1>7, <2>1
<1>9. PICK iter : iter = CHOOSE f : Eq(f)
  OBVIOUS
<1>10. PatternRedact(redactor, bytes) = iter[1 .. N]
  <2>1. PatternRedact(redactor, bytes) =
          FoldLeft(LAMBDA acc, rule : ApplyRule(redactor, acc, rule), base, rules)
    BY <1>1, <1>2 DEF PatternRedact, Start
  <2> QED
    BY <1>5, <1>9, <2>1 DEF FoldLeft, MapThenFoldSet
<1>11. Eq(iter)
  <2> HIDE DEF Eq
  <2> QED
    BY <1>8, <1>9
<1>12. PICK h : h = [n \in 0 .. N |-> iter[1 .. n]]
  OBVIOUS
<1>13. h[0] = base
  <2>1. 1 .. 0 = {} /\ 0 \in 0 .. N
    OBVIOUS
  <2> QED
    BY <1>11, <1>12, <2>1
<1>14. ASSUME NEW n \in 1 .. N PROVE h[n] = ApplyRule(redactor, h[n - 1], rules[n])
  <2>1. /\ (1 .. n) \in (SUBSET (1 .. N)) \ {{}}
        /\ Max(1 .. n) = n
        /\ (1 .. n) \ {n} = 1 .. (n - 1)
        /\ n \in 0 .. N /\ n - 1 \in 0 .. N
    BY MaxOfPrefix
  <2>2. iter[1 .. n] = ApplyRule(redactor, iter[(1 .. n) \ {n}], rules[n])
    BY <1>11, <2>1
  <2> QED
    BY <1>12, <2>1, <2>2
<1>15. h \in [0 .. N -> Notes(C, D)]
  <2>1. \A n \in 1 .. N : h[n - 1] \in Notes(C, D) => h[n] = step[n][h[n - 1]]
    BY <1>4, <1>14
  <2>2. DOMAIN h = 0 .. N /\ h = [n \in 0 .. N |-> h[n]]
    BY <1>12
  <2> QED
    BY <1>3, <1>6, <1>13, <2>1, <2>2, LeftTypes
<1>16. h[N] = iter[1 .. N]
  BY <1>12
<1> QED
  BY <1>1, <1>2, <1>10, <1>13, <1>14, <1>15, <1>16 DEF PatternRuns

PatternKept(rules, words, M, s, a, n) ==
  /\ \A i \in 1 .. n : Absent(rules[i].find, a.text)
  /\ \E x \in BOOLEAN : Redacts(words, M, s, a.text, x) /\ (a.matches # << >> <=> x)

LEMMA PatternNext ==
  ASSUME NEW C, NEW M, NEW words, NEW redactor, NEW N \in Nat, N = Len(redactor.rules),
         redactor.rules \in Seq(Range(redactor.rules)),
         RulesFit(Range(redactor.rules), words, C, M),
         NEW D, Named(redactor, Range(redactor.rules), D), NEW s \in Seq(C),
         NEW n \in 1 .. N, NEW a \in Notes(C, D), NEW b, b = ApplyRule(redactor, a, redactor.rules[n]),
         PatternKept(redactor.rules, words, M, s, a, n - 1)
  PROVE  PatternKept(redactor.rules, words, M, s, b, n)
<1>1. PICK rules \in Seq(Range(redactor.rules)) : rules = redactor.rules
  OBVIOUS
<1>2. \A i \in 1 .. N : rules[i] \in Range(redactor.rules)
  BY <1>1
<1>3. PICK x \in BOOLEAN : Redacts(words, M, s, a.text, x) /\ (a.matches # << >> <=> x)
  BY DEF PatternKept
<1>4. PICK y \in BOOLEAN : /\ b \in Notes(C, D)
                           /\ Absent(rules[n].find, b.text)
                           /\ Redacts(words, M, a.text, b.text, y)
                           /\ b.matches # << >> <=> (a.matches # << >> \/ y)
  <2>1. PICK rule \in Range(redactor.rules) : rule = rules[n]
    BY <1>2
  <2>2. b = ApplyRule(redactor, a, rule)
    BY <1>1, <2>1
  <2>3. /\ b \in Notes(C, D)
        /\ Absent(rule.find, b.text)
        /\ \E z \in BOOLEAN : /\ Redacts(words, M, a.text, b.text, z)
                              /\ b.matches # << >> <=> (a.matches # << >> \/ z)
    BY <2>2, AppliedRedacts
  <2> QED
    BY <2>1, <2>3
<1>5. PICK t \in Seq(C), u \in Seq(C) : t = a.text /\ u = b.text
  BY <1>4 DEF Notes
<1>6. Redacts(words, M, s, u, x \/ y)
  BY <1>3, <1>4, <1>5, RedactsTwice
<1>7. ASSUME NEW i \in 1 .. n PROVE Absent(rules[i].find, b.text)
  <2>1. CASE i = n
    BY <1>4, <2>1
  <2>2. CASE i # n
    <3>1. i \in 1 .. n - 1 /\ i \in 1 .. N
      BY <2>2
    <3>2. Absent(rules[i].find, a.text)
      BY <1>1, <3>1 DEF PatternKept
    <3>3. rules[i].find \in words
      BY <1>2, <3>1 DEF RulesFit
    <3> QED
      BY <1>4, <3>2, <3>3 DEF Redacts
  <2> QED
    BY <2>1, <2>2
<1>8. PICK z \in BOOLEAN : z = (x \/ y)
  OBVIOUS
<1>9. Redacts(words, M, s, b.text, z)
  BY <1>5, <1>6, <1>8
<1>10. b.matches # << >> <=> z
  BY <1>3, <1>4, <1>8
<1> QED
  BY <1>1, <1>7, <1>9, <1>10 DEF PatternKept

PatternDone(redactor, words, C, M, D, bytes, r) ==
  /\ r \in Notes(C, D)
  /\ \A rule \in Range(redactor.rules) : Absent(rule.find, r.text)
  /\ \E x \in BOOLEAN : /\ Redacts(words, M, Lossy(bytes), r.text, x)
                        /\ r.matches # << >> <=> x

\* One redactor: what its rules look for is gone.
LEMMA PatternRedacts ==
  ASSUME NEW C, NEW M, NEW words, NEW redactor,
         redactor.rules \in Seq(Range(redactor.rules)),
         RulesFit(Range(redactor.rules), words, C, M),
         NEW D, Named(redactor, Range(redactor.rules), D), NEW bytes, Lossy(bytes) \in Seq(C),
         NEW r, r = PatternRedact(redactor, bytes)
  PROVE  PatternDone(redactor, words, C, M, D, bytes, r)
<1>1. PICK rules \in Seq(Range(redactor.rules)) : rules = redactor.rules
  OBVIOUS
<1>2. PICK N \in Nat : N = Len(rules)
  OBVIOUS
<1>3. PICK s \in Seq(C) : s = Lossy(bytes)
  OBVIOUS
<1>4. PICK h : /\ h \in [0 .. N -> Notes(C, D)]
               /\ h[0] = Start(Lossy(bytes))
               /\ \A n \in 1 .. N : h[n] = ApplyRule(redactor, h[n - 1], redactor.rules[n])
               /\ PatternRedact(redactor, bytes) = h[N]
  <2>1. N = Len(redactor.rules)
    BY <1>1, <1>2
  <2>2. \E h : PatternRuns(h, redactor, bytes, N, Notes(C, D))
    BY <2>1, PatternFold
  <2> QED
    BY <2>2 DEF PatternRuns
<1>5. PatternKept(rules, words, M, s, h[0], 0)
  <2>1. h[0].text = s /\ h[0].matches = << >>
    BY <1>3, <1>4 DEF Start
  <2>2. Redacts(words, M, s, s, FALSE)
    BY DEF Redacts
  <2>3. \A i \in 1 .. 0 : Absent(rules[i].find, h[0].text)
    OBVIOUS
  <2> QED
    BY <2>1, <2>2, <2>3 DEF PatternKept
<1>6. ASSUME NEW n \in 1 .. N, PatternKept(rules, words, M, s, h[n - 1], n - 1)
      PROVE  PatternKept(rules, words, M, s, h[n], n)
  <2>1. PICK a \in Notes(C, D) : a = h[n - 1]
    <3>1. n - 1 \in 0 .. N
      OBVIOUS
    <3> QED
      BY <1>4, <3>1
  <2>2. PICK b : b = ApplyRule(redactor, a, redactor.rules[n])
    OBVIOUS
  <2>3. PatternKept(redactor.rules, words, M, s, a, n - 1)
    BY <1>1, <1>6, <2>1
  <2>4. PatternKept(redactor.rules, words, M, s, b, n)
    BY <1>1, <1>2, <2>2, <2>3, PatternNext
  <2> QED
    BY <1>1, <1>4, <2>1, <2>2, <2>4
<1>7. PatternKept(rules, words, M, s, h[N], N)
  <2> DEFINE Good == {n \in Nat : n <= N => PatternKept(rules, words, M, s, h[n], n)}
  <2>1. 0 \in Good
    BY <1>5
  <2>2. ASSUME NEW n \in Good PROVE n + 1 \in Good
    <3> SUFFICES ASSUME n + 1 <= N PROVE PatternKept(rules, words, M, s, h[n + 1], n + 1)
      OBVIOUS
    <3>1. PICK m \in 1 .. N : m = n + 1 /\ m - 1 = n
      OBVIOUS
    <3>2. PatternKept(rules, words, M, s, h[m - 1], m - 1)
      BY <3>1
    <3>3. PatternKept(rules, words, M, s, h[m], m)
      BY <1>6, <3>2
    <3> QED
      BY <3>1, <3>3
  <2>3. Good = Nat
    <3> HIDE DEF Good
    <3>1. Good \subseteq Nat
      BY DEF Good
    <3> QED
      BY <2>1, <2>2, <3>1, NumberInduction
  <2>4. N \in Good
    BY <2>3
  <2> QED
    BY <2>4
<1>8. r = h[N] /\ r \in Notes(C, D)
  BY <1>4
<1>9. PatternKept(rules, words, M, s, r, N)
  BY <1>7, <1>8
<1>10. ASSUME NEW rule \in Range(redactor.rules) PROVE Absent(rule.find, r.text)
  <2>1. PICK i \in 1 .. N : rule = rules[i]
    BY <1>1, <1>2 DEF Range
  <2> QED
    BY <1>9, <2>1 DEF PatternKept
<1> QED
  BY <1>3, <1>8, <1>9, <1>10 DEF PatternKept, PatternDone

LEMMA LossyType ==
  ASSUME NEW C, Replacement \in C, NEW bytes \in Seq(C \cup {Invalid})
  PROVE  Lossy(bytes) \in Seq(C)
<1>1. PICK n \in Nat : n = Len(bytes)
  OBVIOUS
<1>2. DOMAIN bytes = 1 .. n /\ \A i \in 1 .. n : bytes[i] \in C \cup {Invalid}
  BY <1>1
<1>3. Lossy(bytes) \in [1 .. n -> C]
  BY <1>2 DEF Lossy
<1> QED
  BY <1>3

LEMMA LossyKeeps ==
  ASSUME NEW C, Invalid \notin C, NEW text \in Seq(C)
  PROVE  Lossy(text) = text
<1>1. PICK n \in Nat : n = Len(text)
  OBVIOUS
<1>2. DOMAIN text = 1 .. n /\ \A i \in 1 .. n : text[i] \in C
  BY <1>1
<1>3. Lossy(text) = [i \in 1 .. n |-> text[i]]
  BY <1>2 DEF Lossy
<1>4. text = [i \in 1 .. n |-> text[i]]
  BY <1>2
<1> QED
  BY <1>3, <1>4

StackFits(stack, words, C, M, D) ==
  /\ Replacement \in C /\ Invalid \notin C
  /\ stack.redactors \in Seq(Range(stack.redactors))
  /\ \A r \in Range(stack.redactors) :
       /\ r.rules \in Seq(Range(r.rules))
       /\ RulesFit(Range(r.rules), words, C, M)
       /\ Named(r, Range(r.rules), D)

StackNotes(C, D, hash) == [text : Seq(C \cup {Invalid}), matches : Seq(D), stack : {hash}]

LEMMA AppliedStack ==
  ASSUME NEW C, NEW M, NEW D, NEW words, NEW stack, StackFits(stack, words, C, M, D), NEW hash,
         NEW redactor \in Range(stack.redactors),
         NEW a \in StackNotes(C, D, hash), NEW b, b = ApplyRedactor(a, redactor)
  PROVE  /\ b \in StackNotes(C, D, hash)
         /\ b.text \in Seq(C)
         /\ \A rule \in Range(redactor.rules) : Absent(rule.find, b.text)
         /\ \E x \in BOOLEAN : /\ Redacts(words, M, Lossy(a.text), b.text, x)
                               /\ b.matches # << >> <=> (a.matches # << >> \/ x)
<1>1. PICK text \in Seq(C \cup {Invalid}), matches \in Seq(D) :
        text = a.text /\ matches = a.matches /\ a = [text |-> text, matches |-> matches, stack |-> hash]
  BY DEF StackNotes
<1>2. PICK r : r = PatternRedact(redactor, text)
  OBVIOUS
<1>3. Lossy(text) \in Seq(C)
  BY LossyType DEF StackFits
<1>4. /\ redactor.rules \in Seq(Range(redactor.rules))
      /\ RulesFit(Range(redactor.rules), words, C, M)
      /\ Named(redactor, Range(redactor.rules), D)
  BY DEF StackFits
<1>5. /\ r \in Notes(C, D)
      /\ \A rule \in Range(redactor.rules) : Absent(rule.find, r.text)
      /\ \E x \in BOOLEAN : /\ Redacts(words, M, Lossy(text), r.text, x)
                            /\ r.matches # << >> <=> x
  <2>1. PatternDone(redactor, words, C, M, D, text, r)
    BY <1>2, <1>3, <1>4, PatternRedacts
  <2> QED
    BY <2>1 DEF PatternDone
<1>6. PICK new \in Seq(C), more \in Seq(D) : new = r.text /\ more = r.matches
  BY <1>5 DEF Notes
<1>7. b = [text |-> new, matches |-> matches \o more, stack |-> hash]
  <2>1. b = [text |-> r.text, matches |-> a.matches \o r.matches, stack |-> a.stack]
    BY <1>1, <1>2 DEF ApplyRedactor
  <2>2. a.stack = hash
    BY <1>1
  <2> QED
    BY <1>1, <1>6, <2>1, <2>2
<1>8. matches \o more \in Seq(D) /\ (matches \o more # << >> <=> (matches # << >> \/ more # << >>))
  OBVIOUS
<1>9. new \in Seq(C \cup {Invalid})
  OBVIOUS
<1>10. b \in StackNotes(C, D, hash)
  BY <1>7, <1>8, <1>9 DEF StackNotes
<1>11. b.text = new /\ b.matches = matches \o more
  BY <1>7
<1> QED
  BY <1>1, <1>5, <1>6, <1>8, <1>10, <1>11

StackRuns(h, stack, bytes, N, S) ==
  /\ h \in [0 .. N -> S]
  /\ h[0] = [text |-> bytes, matches |-> << >>, stack |-> StackHash(stack)]
  /\ \A n \in 1 .. N : h[n] = ApplyRedactor(h[n - 1], stack.redactors[n])
  /\ StackRedact(stack, bytes) = h[N]

\* What the redactors of a stack make of the bytes, one after another.
LEMMA StackFold ==
  ASSUME NEW C, NEW M, NEW D, NEW words, NEW stack, StackFits(stack, words, C, M, D),
         NEW bytes \in Seq(C \cup {Invalid}), NEW N \in Nat, N = Len(stack.redactors)
  PROVE  \E h : StackRuns(h, stack, bytes, N, StackNotes(C, D, StackHash(stack)))
<1>1. PICK redactors \in Seq(Range(stack.redactors)) : redactors = stack.redactors
  BY DEF StackFits
<1>2. PICK hash : hash = StackHash(stack)
  OBVIOUS
<1>3. PICK base : base = [text |-> bytes, matches |-> << >>, stack |-> hash]
  OBVIOUS
<1>4. PICK S : S = StackNotes(C, D, hash)
  OBVIOUS
<1>5. base \in S
  BY <1>3, <1>4 DEF StackNotes
<1>6. PICK step : step = [n \in 1 .. N |-> [a \in S |-> ApplyRedactor(a, redactors[n])]]
  OBVIOUS
<1>7. DOMAIN redactors = 1 .. N /\ \A n \in 1 .. N : redactors[n] \in Range(stack.redactors)
  BY <1>1
<1>8. Steps(step, 1 .. N, S)
  <2>1. \A n \in 1 .. N, a \in S : ApplyRedactor(a, redactors[n]) \in S
    BY <1>4, <1>7, AppliedStack
  <2> QED
    BY <1>6, <2>1 DEF Steps
<1>9. PICK g \in [SUBSET (1 .. N) -> S] :
        /\ g[{}] = base
        /\ \A s \in (SUBSET (1 .. N)) \ {{}} :
             /\ Max(s) \in 1 .. N
             /\ g[s \ {Max(s)}] \in S
             /\ g[s] = step[Max(s)][g[s \ {Max(s)}]]
  <2>1. FoldsLeft(N, S, base, step)
    BY <1>5, <1>8, LeftFold
  <2> QED
    BY <2>1 DEF FoldsLeft
<1> DEFINE Eq(f) == f = [s \in SUBSET (1 .. N) |->
              IF s = {} THEN base ELSE ApplyRedactor(f[s \ {Max(s)}], redactors[Max(s)])]
<1>10. Eq(g)
  <2>1. ASSUME NEW s \in (SUBSET (1 .. N)) \ {{}}
        PROVE  g[s] = ApplyRedactor(g[s \ {Max(s)}], redactors[Max(s)])
    BY <1>6, <1>9
  <2> QED
    BY <1>9, <2>1
<1>11. PICK iter : iter = CHOOSE f : Eq(f)
  OBVIOUS
<1>12. StackRedact(stack, bytes) = iter[1 .. N]
  <2>1. StackRedact(stack, bytes) = FoldLeft(LAMBDA acc, r : ApplyRedactor(acc, r), base, redactors)
    BY <1>1, <1>2, <1>3 DEF StackRedact
  <2> QED
    BY <1>7, <1>11, <2>1 DEF FoldLeft, MapThenFoldSet
<1>13. Eq(iter)
  <2> HIDE DEF Eq
  <2> QED
    BY <1>10, <1>11
<1>14. PICK h : h = [n \in 0 .. N |-> iter[1 .. n]]
  OBVIOUS
<1>15. h[0] = base
  <2>1. 1 .. 0 = {} /\ 0 \in 0 .. N
    OBVIOUS
  <2> QED
    BY <1>13, <1>14, <2>1
<1>16. ASSUME NEW n \in 1 .. N PROVE h[n] = ApplyRedactor(h[n - 1], redactors[n])
  <2>1. /\ (1 .. n) \in (SUBSET (1 .. N)) \ {{}}
        /\ Max(1 .. n) = n
        /\ (1 .. n) \ {n} = 1 .. (n - 1)
        /\ n \in 0 .. N /\ n - 1 \in 0 .. N
    BY MaxOfPrefix
  <2>2. iter[1 .. n] = ApplyRedactor(iter[(1 .. n) \ {n}], redactors[n])
    BY <1>13, <2>1
  <2> QED
    BY <1>14, <2>1, <2>2
<1>17. h \in [0 .. N -> S]
  <2>1. \A n \in 1 .. N : h[n - 1] \in S => h[n] = step[n][h[n - 1]]
    BY <1>6, <1>16
  <2>2. DOMAIN h = 0 .. N /\ h = [n \in 0 .. N |-> h[n]]
    BY <1>14
  <2> QED
    BY <1>5, <1>8, <1>15, <2>1, <2>2, LeftTypes
<1>18. h[N] = iter[1 .. N]
  BY <1>14
<1> QED
  BY <1>1, <1>2, <1>3, <1>4, <1>12, <1>15, <1>16, <1>17, <1>18 DEF StackRuns

StackKept(stack, words, C, M, s, a, n) ==
  /\ n >= 1 => a.text \in Seq(C)
  /\ \A i \in 1 .. n : \A rule \in Range(stack.redactors[i].rules) : Absent(rule.find, Lossy(a.text))
  /\ \E x \in BOOLEAN : Redacts(words, M, s, Lossy(a.text), x) /\ (a.matches # << >> <=> x)

LEMMA StackNext ==
  ASSUME NEW C, NEW M, NEW D, NEW words, NEW stack, StackFits(stack, words, C, M, D), NEW hash,
         NEW N \in Nat, N = Len(stack.redactors), NEW n \in 1 .. N, NEW s \in Seq(C),
         NEW a \in StackNotes(C, D, hash), NEW b, b = ApplyRedactor(a, stack.redactors[n]),
         StackKept(stack, words, C, M, s, a, n - 1)
  PROVE  StackKept(stack, words, C, M, s, b, n)
<1>1. PICK redactors \in Seq(Range(stack.redactors)) : redactors = stack.redactors
  BY DEF StackFits
<1>2. \A i \in 1 .. N : redactors[i] \in Range(stack.redactors)
  BY <1>1
<1>3. PICK x \in BOOLEAN : Redacts(words, M, s, Lossy(a.text), x) /\ (a.matches # << >> <=> x)
  BY DEF StackKept
<1>4. PICK y \in BOOLEAN : /\ b.text \in Seq(C)
                           /\ \A rule \in Range(redactors[n].rules) : Absent(rule.find, b.text)
                           /\ Redacts(words, M, Lossy(a.text), b.text, y)
                           /\ b.matches # << >> <=> (a.matches # << >> \/ y)
  <2>1. PICK redactor \in Range(stack.redactors) : redactor = redactors[n]
    BY <1>2
  <2>2. b = ApplyRedactor(a, redactor)
    BY <1>1, <2>1
  <2>3. /\ b.text \in Seq(C)
        /\ \A rule \in Range(redactor.rules) : Absent(rule.find, b.text)
        /\ \E z \in BOOLEAN : /\ Redacts(words, M, Lossy(a.text), b.text, z)
                              /\ b.matches # << >> <=> (a.matches # << >> \/ z)
    BY <2>2, AppliedStack
  <2> QED
    BY <2>1, <2>3
<1>5. PICK t \in Seq(C) : t = Lossy(a.text)
  BY LossyType DEF StackNotes, StackFits
<1>6. PICK u \in Seq(C) : u = b.text /\ Lossy(b.text) = u
  BY <1>4, LossyKeeps DEF StackFits
<1>7. Redacts(words, M, s, u, x \/ y)
  BY <1>3, <1>4, <1>5, <1>6, RedactsTwice
<1>8. ASSUME NEW i \in 1 .. n, NEW rule \in Range(redactors[i].rules) PROVE Absent(rule.find, u)
  <2>1. CASE i = n
    BY <1>4, <1>6, <2>1
  <2>2. CASE i # n
    <3>1. i \in 1 .. n - 1 /\ i \in 1 .. N
      BY <2>2
    <3>2. Absent(rule.find, t)
      BY <1>1, <1>5, <3>1 DEF StackKept
    <3>3. rule.find \in words
      BY <1>2, <3>1 DEF StackFits, RulesFit
    <3> QED
      BY <1>4, <1>5, <1>6, <3>2, <3>3 DEF Redacts
  <2> QED
    BY <2>1, <2>2
<1>9. PICK z \in BOOLEAN : z = (x \/ y)
  OBVIOUS
<1>10. Redacts(words, M, s, Lossy(b.text), z)
  BY <1>6, <1>7, <1>9
<1>11. b.matches # << >> <=> z
  BY <1>3, <1>4, <1>9
<1> QED
  BY <1>1, <1>4, <1>6, <1>8, <1>10, <1>11 DEF StackKept

StackDone(stack, C, bytes, r) ==
  /\ r.text \in Seq(C)
  /\ \A redactor \in Range(stack.redactors) :
       \A rule \in Range(redactor.rules) : Absent(rule.find, r.text)
  /\ r.matches = << >> <=> r.text = Lossy(bytes)

\* A stack: what any of its rules looks for is gone, and the matches tell whether the
\* text was touched.
LEMMA StackRedacts ==
  ASSUME NEW C, NEW M, NEW D, NEW words, NEW stack, StackFits(stack, words, C, M, D),
         stack.redactors # << >>, NEW bytes \in Seq(C \cup {Invalid}),
         NEW r, r = StackRedact(stack, bytes)
  PROVE  StackDone(stack, C, bytes, r)
<1>1. PICK redactors \in Seq(Range(stack.redactors)) : redactors = stack.redactors
  BY DEF StackFits
<1>2. PICK N \in Nat : N = Len(redactors) /\ N >= 1
  BY <1>1
<1>3. PICK hash : hash = StackHash(stack)
  OBVIOUS
<1>4. PICK h : /\ h \in [0 .. N -> StackNotes(C, D, hash)]
               /\ h[0] = [text |-> bytes, matches |-> << >>, stack |-> hash]
               /\ \A n \in 1 .. N : h[n] = ApplyRedactor(h[n - 1], stack.redactors[n])
               /\ StackRedact(stack, bytes) = h[N]
  <2>1. N = Len(stack.redactors)
    BY <1>1, <1>2
  <2>2. \E h : StackRuns(h, stack, bytes, N, StackNotes(C, D, StackHash(stack)))
    BY <2>1, StackFold
  <2> QED
    BY <1>3, <2>2 DEF StackRuns
<1>5. PICK s \in Seq(C) : s = Lossy(bytes)
  BY LossyType DEF StackFits
<1>6. StackKept(stack, words, C, M, s, h[0], 0)
  <2>1. h[0].text = bytes /\ h[0].matches = << >>
    BY <1>4
  <2>2. Redacts(words, M, s, s, FALSE)
    BY DEF Redacts
  <2>3. PICK a : a = h[0]
    OBVIOUS
  <2>4. Redacts(words, M, s, Lossy(a.text), FALSE) /\ (a.matches # << >> <=> FALSE)
    BY <1>5, <2>1, <2>2, <2>3
  <2>5. ~(0 >= 1) /\ 1 .. 0 = {}
    OBVIOUS
  <2>6. StackKept(stack, words, C, M, s, a, 0)
    BY <2>4, <2>5 DEF StackKept
  <2> QED
    BY <2>3, <2>6
<1>7. ASSUME NEW n \in 1 .. N, StackKept(stack, words, C, M, s, h[n - 1], n - 1)
      PROVE  StackKept(stack, words, C, M, s, h[n], n)
  <2>1. PICK a \in StackNotes(C, D, hash) : a = h[n - 1]
    <3>1. n - 1 \in 0 .. N
      OBVIOUS
    <3> QED
      BY <1>4, <3>1
  <2>2. PICK b : b = ApplyRedactor(a, stack.redactors[n])
    OBVIOUS
  <2>3. StackKept(stack, words, C, M, s, a, n - 1) /\ N = Len(stack.redactors)
    BY <1>1, <1>2, <1>7, <2>1
  <2>4. StackKept(stack, words, C, M, s, b, n)
    BY <2>2, <2>3, StackNext
  <2> QED
    BY <1>4, <2>1, <2>2, <2>4
<1>8. StackKept(stack, words, C, M, s, h[N], N)
  <2> DEFINE Good == {n \in Nat : n <= N => StackKept(stack, words, C, M, s, h[n], n)}
  <2>1. 0 \in Good
    BY <1>6
  <2>2. ASSUME NEW n \in Good PROVE n + 1 \in Good
    <3> SUFFICES ASSUME n + 1 <= N PROVE StackKept(stack, words, C, M, s, h[n + 1], n + 1)
      OBVIOUS
    <3>1. PICK m \in 1 .. N : m = n + 1 /\ m - 1 = n
      OBVIOUS
    <3>2. StackKept(stack, words, C, M, s, h[m - 1], m - 1)
      BY <3>1
    <3>3. StackKept(stack, words, C, M, s, h[m], m)
      BY <1>7, <3>2
    <3> QED
      BY <3>1, <3>3
  <2>3. Good = Nat
    <3> HIDE DEF Good
    <3>1. Good \subseteq Nat
      BY DEF Good
    <3> QED
      BY <2>1, <2>2, <3>1, NumberInduction
  <2>4. N \in Good
    BY <2>3
  <2> QED
    BY <2>4
<1>9. r = h[N]
  BY <1>4
<1>10. StackKept(stack, words, C, M, s, r, N)
  BY <1>8, <1>9
<1>11. PICK t \in Seq(C) : t = r.text
  BY <1>2, <1>10 DEF StackKept
<1>12. Lossy(r.text) = t
  BY <1>11, LossyKeeps DEF StackFits
<1>13. PICK x \in BOOLEAN : Redacts(words, M, s, t, x) /\ (r.matches # << >> <=> x)
  BY <1>10, <1>12 DEF StackKept
<1>14. ASSUME NEW redactor \in Range(stack.redactors), NEW rule \in Range(redactor.rules)
       PROVE  Absent(rule.find, t)
  <2>1. PICK i \in 1 .. N : redactor = redactors[i]
    <3>1. DOMAIN redactors = 1 .. N
      BY <1>2
    <3>2. Range(redactors) = {redactors[i] : i \in DOMAIN redactors}
      BY DEF Range
    <3> QED
      BY <1>1, <3>1, <3>2
  <2> QED
    BY <1>1, <1>10, <1>12, <2>1 DEF StackKept
<1>15. ~x => t = s
  BY <1>13 DEF Redacts
<1>16. x => t # s
  <2>1. PICK p \in Nat : p = Marks(s, M)
    BY MarksType
  <2>2. x => Marks(t, M) > Marks(s, M)
    BY <1>13 DEF Redacts
  <2>3. ~(p > p)
    OBVIOUS
  <2> QED
    BY <2>1, <2>2, <2>3
<1> QED
  BY <1>5, <1>11, <1>13, <1>14, <1>15, <1>16 DEF StackDone

\* The words and the marks in the matches of a stack.
WordsOf(stack) == {rule.find : rule \in RulesOf(stack)}
NotesOf(stack) == {[rule |-> <<r.id, rule.id>>, count |-> n] :
                     r \in Range(stack.redactors), rule \in RulesOf(stack), n \in Nat}

LEMMA BracketedFits ==
  ASSUME NEW stack, NEW C, NEW M, Bracketed(stack, C, M)
  PROVE  /\ StackFits(stack, WordsOf(stack), C, M, NotesOf(stack))
         /\ stack.redactors # << >>
<1>1. /\ Replacement \in C /\ Invalid \notin C /\ M \subseteq C
      /\ stack.redactors \in Seq(Range(stack.redactors)) /\ stack.redactors # << >>
      /\ \A r \in Range(stack.redactors) : r.rules \in Seq(Range(r.rules))
  BY DEF Bracketed
<1>2. ASSUME NEW rule \in RulesOf(stack)
      PROVE  rule.find \in Seq(C \ M) /\ rule.find # << >> /\ rule.find \in Seq(C)
  <2>1. rule.find \in Seq(C \ M) /\ rule.find # << >>
    BY DEF Bracketed
  <2>2. \A s \in Seq(C \ M) : s \in Seq(C)
    OBVIOUS
  <2> QED
    BY <2>1, <2>2
<1>3. ASSUME NEW rule \in RulesOf(stack)
      PROVE  RuleFits(rule, C, M) /\ rule.find \in WordsOf(stack) /\ Plain(WordsOf(stack), rule.put, C, M)
  <2>1. /\ rule.put \in Seq(C) /\ rule.put # << >>
        /\ rule.put[1] \in M /\ rule.put[Len(rule.put)] \in M
        /\ \A other \in RulesOf(stack), i \in 1 .. Len(rule.put) : ~FoundAt(other, rule.put, i)
    BY DEF Bracketed
  <2>2. RuleFits(rule, C, M)
    BY <1>2, <2>1 DEF RuleFits
  <2>3. ASSUME NEW w \in WordsOf(stack)
        PROVE  w \in Seq(C \ M) /\ w # << >> /\ \A p \in 1 .. Len(rule.put) : ~At(w, rule.put, p)
    <3>1. PICK other \in RulesOf(stack) : w = other.find
      BY DEF WordsOf
    <3>2. PICK put \in Seq(C) : put = rule.put
      BY <2>1
    <3>3. ASSUME NEW p \in 1 .. Len(put) PROVE ~At(w, put, p)
      <4>1. other.find \in Seq(C) /\ other.find # << >>
        BY <1>2
      <4>2. FoundAt(other, put, p) <=> At(other.find, put, p)
        BY <4>1, FoundIsAt
      <4> QED
        BY <2>1, <3>1, <3>2, <4>2
    <3> QED
      BY <1>2, <3>1, <3>2, <3>3
  <2> QED
    BY <2>2, <2>3 DEF WordsOf, Plain
<1>4. ASSUME NEW r \in Range(stack.redactors)
      PROVE  RulesFit(Range(r.rules), WordsOf(stack), C, M) /\ Named(r, Range(r.rules), NotesOf(stack))
  <2>1. \A rule \in Range(r.rules) : rule \in RulesOf(stack)
    BY DEF RulesOf
  <2> QED
    BY <1>3, <2>1 DEF RulesFit, Named, NotesOf
<1> QED
  BY <1>1, <1>4 DEF StackFits

-----------------------------------------------------------------------------
(* What the caller hands on.                                               *)

\* What is handed on, and what the record says of it, is what the stack makes of the
\* bytes of the result, which stays as it is.
HandedInv ==
  /\ DOMAIN handed = Call
  /\ \A c \in Call : result[c] # None /\ result[c].kind = "ok" => result[c].bytes \in Output
  /\ \A c \in Call : handed[c] # None =>
       /\ result[c] # None /\ result[c].kind = "ok"
       /\ handed[c] = StackRedact(Stack, result[c].bytes).text
       /\ record[c].output = handed[c]
       /\ record[c].matches = StackRedact(Stack, result[c].bytes).matches

LEMMA HandedInit == TInit => HandedInv
<1> SUFFICES ASSUME TInit PROVE HandedInv
  OBVIOUS
<1>1. handed = [c \in Call |-> None] /\ result = [c \in Call |-> None]
  BY DEF TInit, WInit
<1> QED
  BY <1>1 DEF HandedInv

LEMMA HandedStep == CallTypes /\ HandedInv /\ [TNext]_tvars => HandedInv'
<1> SUFFICES ASSUME CallTypes, HandedInv, [TNext]_tvars PROVE HandedInv'
  OBVIOUS
<1>1. CASE UNCHANGED <<result, handed, record>>
  BY <1>1 DEF HandedInv
<1>2. ASSUME NEW c \in Call, Ends(c), UNCHANGED <<handed, record>>
      PROVE  HandedInv'
  <2>1. PICK r : Outcome(c, r) /\ Finish(c, r)
    BY <1>2 DEF Ends
  <2>2. result' = [result EXCEPT ![c] = r] /\ result[c] = None
    BY <2>1 DEF Finish, CallTypes, TTypeOK
  <2>3. r.kind = "ok" => r.bytes \in Output
    BY <2>1 DEF Outcome, Ok, Err
  <2>4. \A d \in Call \ {c} : result'[d] = result[d]
    BY <2>2
  <2>5. result'[c] = r
    BY <2>2 DEF CallTypes
  <2>6. handed[c] = None
    BY <2>2 DEF HandedInv
  <2> QED
    BY <1>2, <2>3, <2>4, <2>5, <2>6 DEF HandedInv
<1>3. ASSUME NEW c \in Call, RecordExecution(c)
      PROVE  HandedInv'
  <2>1. UNCHANGED result /\ result[c] # None
    BY <1>3 DEF RecordExecution, wvars, CallTypes, TTypeOK
  <2>2. PICK redaction : redaction = StackRedact(Stack, result[c].bytes)
    OBVIOUS
  <2>3. /\ record' = [record EXCEPT ![c] = ExecutionRecord(result[c], redaction)]
        /\ handed' = [handed EXCEPT ![c] = IF result[c].kind = "ok" THEN redaction.text ELSE None]
    BY <1>3, <2>2 DEF RecordExecution
  <2>4. \A d \in Call \ {c} : record'[d] = record[d] /\ handed'[d] = handed[d]
    BY <2>3
  <2>5. handed'[c] = IF result[c].kind = "ok" THEN redaction.text ELSE None
    BY <2>3 DEF HandedInv
  <2>6. record'[c] = ExecutionRecord(result[c], redaction)
    BY <2>3 DEF CallTypes
  <2>7. result[c].kind = "ok" => record'[c].output = redaction.text /\ record'[c].matches = redaction.matches
    BY <2>6 DEF ExecutionRecord
  <2>8. DOMAIN handed' = Call
    BY <2>3 DEF HandedInv
  <2> QED
    BY <2>1, <2>2, <2>4, <2>5, <2>7, <2>8 DEF HandedInv
<1>4. ASSUME NEW c \in Call,
             Begin(c) \/ Grow(c) \/ SecretExists(c) \/ HttpFetch(c) \/ Answer(c) \/ Rests(c)
      PROVE  UNCHANGED result
  BY <1>4 DEF Begin, Grow, SecretExists, HttpFetch, Answer, Rests, TransportFails, Wait, Wake
<1>5. ASSUME Advance \/ TickerWakes \/ UNCHANGED tvars
      PROVE  UNCHANGED result
  BY <1>5 DEF Advance, TickerWakes, tvars, wvars
<1>6. ASSUME UNCHANGED tvars
      PROVE  UNCHANGED <<handed, record>>
  BY <1>6 DEF tvars
<1> QED
  BY <1>1, <1>2, <1>3, <1>4, <1>5, <1>6, GuestActions DEF TNext

\* Whatever the rules look for and in whatever order the redactors stand, if the
\* replacements stand out from other text: nothing a rule looks for is handed on, not
\* even what one replacement leaves for another, the record commits to what was handed
\* on, and it names no rule exactly if the tool's own text was.
THEOREM RedactionIsClean ==
  ASSUME NEW chars, NEW marks, Bracketed(Stack, chars, marks),
         \A bytes \in Output : bytes \in Seq(chars \cup {Invalid})
  PROVE  TSpec => []HandedIsClean
<1>1. HandedInv => HandedIsClean
  <2> SUFFICES ASSUME HandedInv, NEW c \in Call, handed[c] # None
               PROVE  /\ Clean(Stack, handed[c])
                      /\ record[c].output = handed[c]
                      /\ record[c].matches = << >> <=> handed[c] = Lossy(result[c].bytes)
    BY DEF HandedIsClean
  <2>1. PICK bytes \in Seq(chars \cup {Invalid}) : bytes = result[c].bytes
    BY DEF HandedInv
  <2>2. PICK r : r = StackRedact(Stack, bytes)
    OBVIOUS
  <2>3. /\ StackFits(Stack, WordsOf(Stack), chars, marks, NotesOf(Stack))
        /\ Stack.redactors # << >>
    BY BracketedFits
  <2>4. StackDone(Stack, chars, bytes, r)
    BY <2>2, <2>3, StackRedacts
  <2>5. handed[c] = r.text /\ record[c].output = handed[c] /\ record[c].matches = r.matches
    BY <2>1, <2>2 DEF HandedInv
  <2>6. PICK text \in Seq(chars) : text = r.text
    BY <2>4 DEF StackDone
  <2>7. ASSUME NEW rule \in RulesOf(Stack), NEW i \in 1 .. Len(text) PROVE ~FoundAt(rule, text, i)
    <3>1. PICK redactor \in Range(Stack.redactors) : rule \in Range(redactor.rules)
      BY DEF RulesOf
    <3>2. Absent(rule.find, text)
      BY <2>4, <2>6, <3>1 DEF StackDone
    <3>3. rule.find \in Seq(chars) /\ rule.find # << >>
      <4>1. RuleFits(rule, chars, marks)
        BY <2>3, <3>1 DEF StackFits, RulesFit
      <4>2. \A s \in Seq(chars \ marks) : s \in Seq(chars)
        OBVIOUS
      <4> QED
        BY <4>1, <4>2 DEF RuleFits
    <3>4. FoundAt(rule, text, i) <=> At(rule.find, text, i)
      BY <3>3, FoundIsAt
    <3> QED
      BY <3>2, <3>4 DEF Absent
  <2>8. Clean(Stack, text)
    BY <2>7 DEF Clean
  <2> QED
    BY <2>1, <2>4, <2>5, <2>6, <2>8 DEF StackDone
<1>2. TSpec => []HandedInv
  BY HandedInit, HandedStep, CallTypesHold, PTL DEF TSpec
<1> QED
  BY <1>1, <1>2, PTL
=============================================================================
