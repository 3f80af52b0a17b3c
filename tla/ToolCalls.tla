----------------------------- MODULE ToolCalls ------------------------------
(***************************************************************************)
(* What becomes of a tool call: the caller runs the tool, has the output   *)
(* redacted, hands the redacted bytes on, and has the kernel record the    *)
(* execution with what the tool and the redactors report.                  *)
(***************************************************************************)
EXTENDS WasmTool, Redact

CONSTANTS
  Stack  \* the RedactorStack of the caller

VARIABLES
  handed,   \* call |-> the bytes the caller passes on, or None
  record    \* call |-> the execution receipt, or None

tvars == <<wvars, handed, record>>

\* The edges and the output hash of handle_record_tool_execution.
ExecutionRecord(r, redaction) ==
  IF r.kind = "ok"
  THEN [output |-> redaction.text, used |-> Range(r.used),
        matches |-> redaction.matches, stack |-> redaction.stack, error |-> None]
  ELSE [output |-> None, used |-> {}, matches |-> << >>, stack |-> None, error |-> r.kind]

TInit ==
  /\ WInit
  /\ handed = [c \in Call |-> None]
  /\ record = [c \in Call |-> None]

\* The caller redacts and reports.
RecordExecution(c) ==
  /\ status[c] = "done"
  /\ record[c] = None
  /\ LET redaction == StackRedact(Stack, result[c].bytes) IN
       /\ record' = [record EXCEPT ![c] = ExecutionRecord(result[c], redaction)]
       /\ handed' = [handed EXCEPT ![c] = IF result[c].kind = "ok" THEN redaction.text ELSE None]
  /\ UNCHANGED wvars

TNext ==
  \/ \E c \in Call : GuestStep(c) /\ UNCHANGED <<handed, record>>
  \/ (Advance \/ TickerWakes) /\ UNCHANGED <<handed, record>>
  \/ \E c \in Call : RecordExecution(c)

\* The machine's clock and the ticker thread run, and the HTTP client has a timeout
\* of its own.  A guest need not do anything, nor return from a wait.  But its code is
\* finite: one that runs on, or comes back from host calls over and over, passes
\* back-edges and function entries, and is stopped at one if it is due to be.
Fairness ==
  /\ WF_tvars(Advance /\ UNCHANGED <<handed, record>>)
  /\ WF_tvars(TickerWakes /\ UNCHANGED <<handed, record>>)
  /\ \A c \in Call :
       /\ SF_tvars(Interrupt(c) /\ UNCHANGED <<handed, record>>)
       /\ WF_tvars((Answer(c) \/ TransportFails(c)) /\ UNCHANGED <<handed, record>>)

TSpec == TInit /\ [][TNext]_tvars /\ Fairness

-----------------------------------------------------------------------------
(* Properties.                                                             *)

\* Every variable has its type.
TTypeOK ==
  /\ status \in [Call -> {"idle", "guest", "fetching", "waiting", "done"}]
  /\ memory \in [Call -> 0 .. MaxMemory]
  /\ ticks \in [Call -> 0 .. EpochDeadline]
  /\ age \in [Call -> 0 .. Timeout]
  /\ asked \in [Call -> Seq(Secret)]
  /\ fetches \in [Call -> Seq(Request)]
  /\ probed \in [Call -> SUBSET Secret]
  /\ slept \in 0 .. Tick
  /\ \A c \in Call :
       /\ result[c] # None <=> status[c] = "done"
       /\ record[c] # None => result[c] # None
       /\ bodies[c] \subseteq (Nat \X Nat)

SpellsListed(host) == AddressOf[host] # None /\ Listed(AddressOf[host])

\* Whatever is sent goes to a host that a glob of the allowlist denotes and that,
\* unless it is written in brackets, is no address of a documented network, and a
\* request that asks for a secret bears that secret: authentication is never
\* silently dropped.  Of a host in brackets only the allowlist decides.
WireIsLawful ==
  \A w \in wire :
    /\ \E p \in Allowlist : Denotes(p, w.host)
    /\ AllowPrivate \/ InBrackets(w.host) \/ ~SpellsListed(w.host)
    /\ w.bearer = None =>
         \E i \in DOMAIN fetches[w.call] : fetches[w.call][i] = [host |-> w.host, auth |-> None]

\* crates/boardproof-tools-http/src/ssrf.rs:3 "a request whose host parses as a
\* literal IP in any of the ranges below is refused **before** the HTTP client opens a
\* connection" - of IPv6 ranges too, in ssrf.rs:26-34.
LiteralsAreRefused == \A w \in wire : AllowPrivate \/ ~SpellsListed(w.host)

\* The record of a call that succeeded names exactly the secrets its own guest
\* asked to use, not those it only asked the existence of: whatever value went over
\* the wire for it is accounted for, and nothing another call did at the same time is.
SuccessNamesSecrets ==
  \A c \in Call : record[c] # None /\ record[c].error = None =>
    /\ record[c].used = {fetches[c][i].auth : i \in DOMAIN fetches[c]} \ {None}
    /\ \A w \in wire : w.call = c /\ w.bearer # None =>
         w.bearer \in {Fetched(n) : n \in record[c].used}
    /\ Len(result[c].used) = Cardinality(record[c].used)

\* A guest never takes a cut body for a whole one.
BodiesAreWhole == \A c \in Call : \A b \in bodies[c] : b[1] = b[2] /\ b[2] <= MaxBody

\* A call is not interrupted before its timeout, to within one tick, however
\* late the ticker is and whenever the call began.
NotInterruptedEarly ==
  [][\A c \in Call : result[c] = None /\ result'[c] = Err("timeout") =>
       age[c] + Tick >= Timeout]_tvars

\* What the caller hands on shows no rule's pattern any more, the receipt
\* commits to it, and it names the rules that changed it: none if, and only if,
\* the tool's own text was handed on.
HandedIsClean ==
  \A c \in Call : handed[c] # None =>
    /\ Clean(Stack, handed[c])
    /\ record[c].output = handed[c]
    /\ record[c].matches = << >> <=> handed[c] = Lossy(result[c].bytes)

\* Every call that begins comes to an end, even if its guest spins, sleeps again and
\* again past its deadline, or has a server that is silent - unless it comes to wait
\* in one host call for ever.
CallsEnd == \A c \in Call :
  status[c] = "guest" ~> (status[c] = "done" \/ [](status[c] = "waiting"))

\* crates/boardproof-tools-wasm/src/host.rs:160 "Record the secret reference
\* name BEFORE the call - even on failure the guest *attempted* to touch it,
\* and the audit trail should reflect that."
AttemptsAreRecorded ==
  \A c \in Call : record[c] # None =>
    \A i \in DOMAIN fetches[c] : fetches[c][i].auth # None => fetches[c][i].auth \in record[c].used

(* The pure parts, over bounded inputs.  They depend on no state, so they  *)
(* are looked at in the initial one.                                       *)

\* The single pass of glob_match decides what the pattern denotes.
GlobAgrees ==
  TInit =>
    \A pattern \in BoundedSeq({Star, "a", "b"}, 4), candidate \in BoundedSeq({"a", "b"}, 4) :
      GlobMatch(pattern, candidate) <=> Denotes(pattern, candidate)

Octet == {0, 1, 9, 10, 11, 16, 18, 19, 20, 31, 32, 63, 64, 99, 100, 101, 126, 127, 128,
          168, 169, 172, 191, 192, 193, 197, 198, 199, 223, 224, 239, 240, 254, 255}
Segment == {0, 1, 255, 3512, 8193, 32768, 64511, 64512, 65023, 65024, 65151, 65152, 65215,
            65216, 65279, 65280, 65535}

\* The tests on octets and segments refuse exactly the documented networks.
TableAgrees == TInit =>
  /\ \A a, b \in Octet, c \in {0, 1, 255}, d \in {0, 1, 255} :
       IsDisallowedV4(<<a, b, c, d>>) <=> Listed4(<<a, b, c, d>>)
  /\ \A first, second, last \in Segment :
       IsDisallowedV6(Segments(first, second, last)) <=> Listed6(Segments(first, second, last))
  /\ \A s, t \in Segment :
       IsDisallowedV6(<<0, 0, 0, 0, 0, 65535, s, t>>) <=> Listed6(<<0, 0, 0, 0, 0, 65535, s, t>>)

\* Inputs, some too long for the signed length that the ABI has.
Inputs == {<< >>} \cup Output \cup {a \o b : a, b \in Output}

\* Whatever range a core guest packs, that range of its memory is copied out if
\* it lies inside, however large the pointer.  So a guest that returns the range of
\* its input gives the caller its input back, or an error if the input found no room;
\* a pointer in the upper half of the address space is none, for an input.
CoreOutputExact ==
  TInit =>
    /\ \A at, length \in 0 .. Word - 1, size \in 0 .. 2 * Word :
         OutputRange(Packed(at, length), size) =
           IF at + length <= size THEN <<at, length>> ELSE None
    /\ \A input \in Inputs, at \in -(Word \div 2) .. Word \div 2 - 1, size \in 0 .. 2 * Word :
         CoreCall(input, [i \in 1 .. size |-> Invalid], at, Packed(at, Len(input))) =
           IF 2 * Len(input) < Word /\ at \in 0 .. size - Len(input)
           THEN Ok(input, << >>) ELSE Err("failed")
=============================================================================
