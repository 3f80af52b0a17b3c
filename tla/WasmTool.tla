------------------------------ MODULE WasmTool ------------------------------
(***************************************************************************)
(* WasmTool: calls of sandboxed guests.  Each call has its own store:      *)
(* memory, an epoch deadline and what the host collects for it; all        *)
(* calls of a tool share the engine, whose epoch a ticker thread advances. *)
(* A guest that imports the host fetches through one HttpFetchTool.        *)
(*                                                                         *)
(* Time passes in steps of Advance.  The ticker sleeps for at least Tick   *)
(* of them and may be late.  What a guest computes between its host calls  *)
(* is not modelled: its fuel may run out at any point of it.  It checks    *)
(* the epoch at loop back-edges and function entries only, so one that is  *)
(* past its deadline may still reach its next host call or its end.  The   *)
(* linker also gives it WASI, whose clocks need no permission: a guest may *)
(* wait in a host call for as long as it likes, and checks nothing there.  *)
(***************************************************************************)
EXTENDS HttpFetch

CONSTANTS
  Word,       \* how many numbers a pointer or a length has, 2 ^ 32 in the code
  Call,       \* calls of the tool, also at the same time
  Target,     \* hosts a guest may name
  Secret,     \* reference names of secrets a guest may name
  Output,     \* results a guest may return
  MaxMemory,  \* WasmConfig::max_memory_bytes
  Timeout,    \* WasmConfig::timeout
  Tick,       \* WasmConfig::epoch_tick
  MaxHostCalls  \* bound on the calls of host functions in one call

VARIABLES
  status,   \* call |-> "idle", "guest", "fetching", "waiting" or "done"
  memory,   \* call |-> size of the linear memory
  ticks,    \* call |-> ticks left until its deadline
  age,      \* call |-> steps of time it has been running, up to Timeout
  asked,    \* call |-> HostState::secrets_used
  fetches,  \* call |-> its requests, in order, with the host of those that were sent
  probed,   \* history: call |-> the secrets it asked the existence of
  bodies,   \* call |-> the answers it got: length sent, length delivered
  result,   \* call |-> what WasmTool::call returned, or None
  wire,     \* history: the requests that were sent
  slept     \* how long the ticker has been sleeping

limits == <<memory, ticks, age>>
collected == <<asked, fetches, bodies>>
wvars == <<status, limits, collected, probed, result, wire, slept>>

-----------------------------------------------------------------------------
(* WasmConfig::epoch_deadline                                              *)

\* Faulty EpochDeadline: the tick that is under way is counted as a whole one.
EpochDeadlineEager == IF Timeout \div Tick > 1 THEN Timeout \div Tick - 1 ELSE 1

EpochDeadline == IF Timeout \div Tick > 0 THEN Timeout \div Tick ELSE 1

(* The ABI of core modules: the result packs a pointer and a length of     *)
(* Word values each into one signed number.                                *)

AsUnsigned(packed) == packed % (Word * Word)

\* Faulty OutputRange: the pointer is the signed upper half.
OutputRangeSigned(packed, size) ==
  LET at == packed \div Word
      length == packed % Word
  IN IF at + length <= size THEN <<at, length>> ELSE None

\* The range of guest memory that is copied out, or None if it is not inside.
OutputRange(packed, size) ==
  LET at == AsUnsigned(packed) \div Word
      length == AsUnsigned(packed) % Word
  IN IF at + length <= size THEN <<at, length>> ELSE None

\* The i64 a guest returns for this range.
Packed(at, length) ==
  LET u == at * Word + length IN
    IF u >= (Word * Word) \div 2 THEN u - Word * Word ELSE u

-----------------------------------------------------------------------------
Ok(bytes, used) == [kind |-> "ok", bytes |-> bytes, used |-> used]
Err(kind) == [kind |-> kind, bytes |-> << >>, used |-> << >>]

\* HostState::secrets_used: in the order of first use, each name once.
FirstUses(names) ==
  FoldLeft(LAMBDA seen, n : IF Contains(seen, n) THEN seen ELSE Append(seen, n),
           << >>, names)

ASSUME WasmAssumption ==
  /\ Word \in Nat \ {0}
  /\ Timeout \in Nat
  /\ Tick \in Nat \ {0}
  /\ MaxMemory \in Nat
  /\ \A host \in Target : host \in Seq(Range(host))
  /\ \A bytes \in Output : bytes \in Seq(Range(bytes))
  /\ AddressOf \in [Target -> {None} \cup V4 \cup V6]
  /\ None \notin {"failed", "timeout"}
  /\ None \notin [kind : {"failed", "timeout"}, bytes : {<< >>}, used : {<< >>}]
  /\ None \notin [kind : {"ok"}, bytes : Output, used : Seq(Secret)]
  /\ None \notin Nat \X Nat

\* Memory::write, of octets that fit.
Written(mem, at, octets) ==
  [i \in DOMAIN mem |-> IF at < i /\ i <= at + Len(octets) THEN octets[i - at] ELSE mem[i]]

\* call_core, of a guest whose alloc returns the signed number at, with a memory mem
\* by then, and whose call leaves the memory as it finds it and returns packed.
CoreCall(input, mem, at, packed) ==
  LET range == OutputRange(packed, Len(mem)) IN
    IF \/ 2 * Len(input) >= Word      \* no i32
       \/ at < 0
       \/ at + Len(input) > Len(mem)
       \/ range = None
    THEN Err("failed")
    ELSE Ok(SubSeq(Written(mem, at, input), range[1] + 1, range[1] + range[2]), << >>)

WInit ==
  /\ status = [c \in Call |-> "idle"]
  /\ memory = [c \in Call |-> 0]
  /\ ticks = [c \in Call |-> 0]
  /\ age = [c \in Call |-> 0]
  /\ asked = [c \in Call |-> << >>]
  /\ fetches = [c \in Call |-> << >>]
  /\ probed = [c \in Call |-> {}]
  /\ bodies = [c \in Call |-> {}]
  /\ result = [c \in Call |-> None]
  /\ wire = {}
  /\ slept = 0

\* fresh_store_with: a store of its own for the call, and a memory as large as the
\* guest's module declares.
Begin(c) ==
  /\ status[c] = "idle"
  /\ status' = [status EXCEPT ![c] = "guest"]
  /\ \E size \in 0 .. MaxMemory : memory' = [memory EXCEPT ![c] = size]
  /\ ticks' = [ticks EXCEPT ![c] = EpochDeadline]
  /\ UNCHANGED <<age, collected, probed, result, wire, slept>>

\* Faulty Grow: the bound is compared with the size before the growth.
GrowBeyond(c) ==
  /\ status[c] = "guest"
  /\ memory[c] <= MaxMemory
  /\ memory' = [memory EXCEPT ![c] = @ + 1]
  /\ UNCHANGED <<status, ticks, age, collected, probed, result, wire, slept>>

\* memory.grow: refused beyond the bound, and the guest goes on.
Grow(c) ==
  /\ status[c] = "guest"
  /\ memory[c] + 1 <= MaxMemory
  /\ memory' = [memory EXCEPT ![c] = @ + 1]
  /\ UNCHANGED <<status, ticks, age, collected, probed, result, wire, slept>>

CallsHost(c) ==
  status[c] = "guest" /\ Len(fetches[c]) + Cardinality(probed[c]) < MaxHostCalls

\* check_secret_exists: the broker is asked, and nothing is noted.
SecretExists(c) ==
  /\ CallsHost(c)
  /\ \E name \in Secret : probed' = [probed EXCEPT ![c] = @ \cup {name}]
  /\ UNCHANGED <<status, limits, collected, result, wire, slept>>

Request == [host : Target \cup {None}, auth : Secret \cup {None}]

Fetch(req) == [req EXCEPT !.host = IF Refusal(req) = None THEN @ ELSE None]

\* Faulty HttpFetch: what an earlier call collected is kept.
HttpFetchShared(c) ==
  /\ CallsHost(c)
  /\ \E req \in Request :
       /\ fetches' = [fetches EXCEPT ![c] = Append(@, Fetch(req))]
       /\ asked' = [d \in Call |-> IF req.auth = None THEN asked[d] ELSE Append(asked[d], req.auth)]
       /\ IF Refusal(req) = None
          THEN /\ wire' = wire \cup {[call |-> c, host |-> req.host, bearer |-> Bearer(req)]}
               /\ status' = [status EXCEPT ![c] = "fetching"]
          ELSE UNCHANGED <<wire, status>>
  /\ UNCHANGED <<limits, bodies, probed, result, slept>>

\* run_http_fetch: the name of the secret is noted, then the request passes the
\* gates and is sent, or the guest gets an error.
HttpFetch(c) ==
  /\ CallsHost(c)
  /\ \E req \in Request :
       /\ fetches' = [fetches EXCEPT ![c] = Append(@, Fetch(req))]
       /\ asked' = [asked EXCEPT ![c] = IF req.auth = None THEN @ ELSE Append(@, req.auth)]
       /\ IF Refusal(req) = None
          THEN /\ wire' = wire \cup {[call |-> c, host |-> req.host, bearer |-> Bearer(req)]}
               /\ status' = [status EXCEPT ![c] = "fetching"]
          ELSE UNCHANGED <<wire, status>>
  /\ UNCHANGED <<limits, bodies, probed, result, slept>>

LastFetch(c) == fetches[c][Len(fetches[c])]

\* The server answers, whatever the status, with a body whose length is about the
\* bound; on success the names that the tool reports are noted once more.
Answer(c) ==
  /\ status[c] = "fetching"
  /\ \E length \in MaxBody .. MaxBody + 2 :
       IF BodyRead(length) = None
       THEN UNCHANGED <<asked, bodies>>
       ELSE /\ bodies' = [bodies EXCEPT ![c] = @ \cup {<<length, BodyRead(length)>>}]
            /\ asked' = [asked EXCEPT ![c] =
                 IF LastFetch(c).auth = None THEN @ ELSE Append(@, LastFetch(c).auth)]
  /\ status' = [status EXCEPT ![c] = "guest"]
  /\ UNCHANGED <<limits, fetches, probed, result, wire, slept>>

\* No connection, a broken one, or the timeout of the HTTP client.
TransportFails(c) ==
  /\ status[c] = "fetching"
  /\ status' = [status EXCEPT ![c] = "guest"]
  /\ UNCHANGED <<limits, collected, probed, result, wire, slept>>

\* WASI: the guest sleeps, or polls a clock ...
Wait(c) ==
  /\ status[c] = "guest"
  /\ status' = [status EXCEPT ![c] = "waiting"]
  /\ UNCHANGED <<limits, collected, probed, result, wire, slept>>

\* ... until the time it named, which may never come.
Wake(c) ==
  /\ status[c] = "waiting"
  /\ status' = [status EXCEPT ![c] = "guest"]
  /\ UNCHANGED <<limits, collected, probed, result, wire, slept>>

\* The store is dropped.
Finish(c, r) ==
  /\ status[c] = "guest"
  /\ status' = [status EXCEPT ![c] = "done"]
  /\ result' = [result EXCEPT ![c] = r]
  /\ memory' = [memory EXCEPT ![c] = 0]
  /\ ticks' = [ticks EXCEPT ![c] = 0]
  /\ age' = [age EXCEPT ![c] = 0]
  /\ UNCHANGED <<collected, probed, wire, slept>>

\* call_component_with_host returns what the guest returns ...
Return(c) == \E bytes \in Output : Finish(c, Ok(bytes, FirstUses(asked[c])))

\* ... or the guest reports an error, runs out of fuel, traps, or cannot be
\* instantiated: map_wasm_error tells them apart by the message only.
Fail(c) == Finish(c, Err("failed"))

\* Trap::Interrupt, of a guest that runs: no epoch is checked in a host call.
Interrupt(c) == ticks[c] = 0 /\ Finish(c, Err("timeout"))

-----------------------------------------------------------------------------
(* Time, and the thread of EpochTicker.                                    *)

Running(c) == status[c] \in {"guest", "fetching", "waiting"}

Advance ==
  /\ age' = [c \in Call |-> IF Running(c) /\ age[c] < Timeout THEN age[c] + 1 ELSE age[c]]
  /\ slept' = IF slept < Tick THEN slept + 1 ELSE slept
  /\ UNCHANGED <<status, memory, ticks, collected, probed, result, wire>>

\* Faulty TickerWakes: the ticker counts up an engine of its own.
TickerWakesElsewhere ==
  /\ slept = Tick
  /\ slept' = 0
  /\ UNCHANGED <<status, limits, collected, probed, result, wire>>

\* increment_epoch
TickerWakes ==
  /\ slept = Tick
  /\ slept' = 0
  /\ ticks' = [c \in Call |-> IF Running(c) /\ ticks[c] > 0 THEN ticks[c] - 1 ELSE ticks[c]]
  /\ UNCHANGED <<status, memory, age, collected, probed, result, wire>>

GuestStep(c) ==
  \/ Begin(c) \/ Grow(c) \/ SecretExists(c) \/ HttpFetch(c) \/ Answer(c)
  \/ TransportFails(c) \/ Wait(c) \/ Wake(c)
  \/ Return(c) \/ Fail(c) \/ Interrupt(c)
=============================================================================
