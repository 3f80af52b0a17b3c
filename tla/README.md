# A TLA+ verification of BoardProof

BoardProof is a small-kernel runtime for AI agents.  An agent proposes actions;
a kernel decides on each by a constitution and a budget, signs a receipt for
every decision, and chains the receipts by hashes, so that whoever holds the log
can check that nothing was altered or left out.  This directory holds TLA+
models of that core, their TLC runs, and theorems about them whose proofs TLAPS
checks.  Paths below are relative to `crates/` unless they say otherwise.

## The system

| Part | State it keeps | Operations | What makes it correct |
|---|---|---|---|
| `boardproof-receipt` | none | sign, verify, content id, canonical encodings | an id names one body; a signature covers all of it |
| `boardproof-kernel` | the next position and the last leaf hash | `handle` for five events: proposal, approval, tool execution, light and deep sleep | every receipt links to the one signed before it; gates admit only what this kernel signed; only granted actions are charged |
| `boardproof-constitution` | a rule list, fixed after loading | `evaluate` | deny beats approval beats the caller's decision, for every action |
| `boardproof-budget` | a lease: budget, consumption, revoked flag | `try_charge`, `delegate`, `revoke` | a delegation tree never spends more than its root was granted |
| `boardproof-approval`, `boardproof-router` | none; the prompt | `route`, `evaluate_with_routing` | the operator's answer reaches the kernel for the receipt it was given |
| `boardproof-store` | receipts of one issuer, indexed by id | `append`, look-ups, `verify_chain` | takes exactly the receipts that extend the chain |
| `boardproof-store-sqlite` | the same in a database, with a cached length and leaf | the same, `open`, `peek_issuer` | the same through process ends and reopening |
| `boardproof-host` (API) | the kernel behind a mutex, the log behind an async `RwLock` | `POST /v1/proposals`, `/v1/approvals/{id}/resolve`, `/v1/tool-executions` | what it answers with 200 is in the log; the log follows the kernel |
| `boardproof-host` (read-only) | none of its own | `GET /receipts/{hash}`, `/healthz`, pages | serves what the log holds |
| `boardproof-host` (binary) | the process | load or open the log, resume the kernel, serve | restart continues the persisted chain |
| `boardproof-sleep` | none | run cleaners or walkers, report | a pass accounts for every cleaner; the walker finds what `verify_chain` finds |
| `boardproof-tools`, `-http`, `-wasm`, `boardproof-secrets` | registry; per-call stores; tickers | `call` behind capability, address and secret gates; fuel, epoch and memory limits | nothing runs that no capability grants; each secret used is named |
| `boardproof-redact` | compiled rules | redact a tool's output, report | the report describes what was replaced |
| `boardproof-verify`, `boardproof-explain`, `packages/*` | none | check and render receipts; HTTP clients | agree with the kernel on ids and signatures |

**How they interact.**  An HTTP handler builds an event, takes the kernel mutex,
gets a signed receipt, releases the mutex, waits for the write lock of the log,
appends, and answers.  A resolve or tool request first looks a receipt up under
the read lock.  As a library, the kernel is called by an agent that keeps the
log, the lease and the pending receipts itself; `evaluate_with_routing` makes two
such calls with an operator's answer between them.  Several host processes may
share one database: they meet only in its SQL statements.  A tool call runs in a
sandbox whose host imports fetch over HTTP with secrets from a broker; its caller
redacts the output and has the kernel record the execution.  Clients post, fetch
the receipt that the answer names, and verify it offline.

**What is hard.**  Signing and appending are two critical sections, so positions
are given out in one order and offered to the log in another; a handler can be
dropped between them by its client, a failing INSERT, or the end of the process;
restart continues from what the log kept, not from what was signed; under
`synchronous=NORMAL` a power cut shortens the log; the kernel is stateless about
approvals, so answers repeat and contradict; the lease is the caller's value.
Processes on one database each act on a cached length and leaf, and race to pin
it; reads fail, files are edited.  Tool calls share an engine whose ticks come
late, fail after they used a secret, and talk to servers that may be silent.
Three languages encode, verify and post on their own.  `PROJECT.json` lists these
hazards with their lines and the properties about each.

## The modules

| Module | Models | Extends |
|---|---|---|
| `Receipts` | receipts, `KernelState`, `Kernel::mint`, `ReceiptLog::append` and `verify_chain`, `build_kernel_from_log` | |
| `Constitution` | `MatchClause::matches`, `InMemoryConstitution::evaluate` and the kernel's use of the verdict | `Receipts` |
| `AuditLog` | abstract: what clients are promised | `Receipts` |
| `Clock` | the calendar of `SystemClock` | |
| `Host` | the proposal API, its two locks, both log backends, faults and restarts | `Constitution`, `Clock` |
| `Lease` | `ResourceUse`, `remaining`, `try_charge` | |
| `Budget` | a tree of delegated leases | `Lease` |
| `Kernel` | all five kernel events for an agent that threads a lease, and `evaluate_with_routing` | `Constitution`, `Lease` |
| `Store` | `SqliteReceiptLog` used by several processes, each SQL statement a step; edits of the file, failing statements | `Receipts` |
| `Sleep` | passes of cleaners and walkers, and `verify_chain`, beside that log | `Store` |
| `ReadApi` | `GET /receipts/{hash}`, `/healthz`, `load_receipts_dir`, as operators on the state of `Store` | `Store` |
| `Hex` | hexadecimal text, as Rust, Python and TypeScript read and write it | |
| `WriteApi` | what the three POST handlers answer, refusals and their order included, as operators | `ReadApi`, `Hex` |
| `Client` | the Python and the TypeScript client, the three verifiers of one receipt | `WriteApi` |
| `Auth` | bearer tokens: configuration, header, middleware | `Client` |
| `Canonical` | the canonical encoders of Rust, TypeScript and Python | |
| `Wire` | what host and verifiers must agree on: canonical bytes and hexadecimal text | `Auth`, `Canonical` |
| `Explain` | `boardproof-explain` | `Kernel` |
| `Glob` | capability globs | |
| `HttpFetch` | `HttpFetchTool`, its address tables, `EnvSecretBroker` | `Glob` |
| `WasmTool` | sandboxed guests with host imports; fuel, epochs, memory | `HttpFetch` |
| `Redact` | pattern redactors and their stack | |
| `ToolCalls` | a tool call through redaction to its record | `WasmTool`, `Redact` |
| `MCHost`, `MCBudget`, `MCKernel`, `MCStore`, `MCTools` | small instances for TLC | |
| `RecordLemmas`, `FoldLemmas` | lemmas shared by the proofs | |
| `HostProofs`, `KernelProofs`, `BudgetProofs`, `StoreProofs`, `ToolProofs`, `CanonicalProofs` | the theorems | |

Operators named *Faulty ...* in their comment are not part of any specification:
each is a version of the definition after it with a plausible defect, used to
confirm that the properties notice.

### Receipts

A leaf hash is the sequence of everything hashed into it (position, time, action,
decision, previous leaf), so BLAKE3 is collision-free by construction; as in
`leaf.rs`, rules and provenance are not part of it.  Two receipts for one position
with equal fields have equal leaves: the model does not make receipts distinct by
fiat, and `Time` is a set so small that timestamps collide.  Of the provenance only
the edge to another receipt is kept (`cites`).  Signature, version and issuer
checks are left out of `append`, for a log that is only offered its own kernel's
receipts.

### Host

| Model | Code (`boardproof-host/src/api.rs` unless named) |
|---|---|
| `kernel` | `ApiState.kernel` |
| `log`, `synced` | `ApiState.log`; the part of the database a power cut cannot take |
| `phase`, `event`, `held` | where a handler stands, and what it carries across the locks |
| `minted`, `acked`, `requests` | history: signed receipts, receipts sent with a 200, a bound |
| `PostProposal`, `PostResolve`, `PostToolExecution` | the handlers up to the kernel mutex, look-up and 409 checks included |
| `Mint` | `handle_event`, step 1, with the gates and `mint` of `kernel.rs` |
| `AppendReceipt`, `AppendRefused`, `InsertFails` | `handle_event`, step 2: the outcomes of `append` |
| `Reply`, `Disconnect` | the answer; hyper dropping the handler's future |
| `Crash`, `Checkpoint`, `PowerLoss`, `Restart` | the process or the machine stops; SQLite syncs its WAL; `serve_proposal_mode` |

Handlers interleave between any two phases.  A look-up is one step with the
building of the event, because nothing before it is visible to others.  A request
that is rejected (400, 401, 404, 409) changes nothing and is no step.  The host
proposes `Allowed` and no lease, so budgets do not occur here.

### Kernel

State: `kernel` (the chain end), the agent's `lease`, the pending receipts with
their proposals (`waiting`), its `log`, and two histories, `signed` and `spent`.
`Propose`, `ResolveWaiting`, `RecordToolExecution` and `RecordSleep` are the
kernel's events; `RouteProposal` is `evaluate_with_routing` for a proposal that
becomes pending, answered (`Route`) or not (`RouteFails`); what the router makes
of the operator's lines, retries and errors of the terminal included, is
`RouterOutcome`.  The agent is as careless as the API allows in what it presents
(forged receipts, the wrong proposal for an action, an answer given twice, rules
of its own under whatever id) but threads its lease, as
`boardproof-kernel/tests/chain.rs` does: it puts the lease it was last returned
into its next event.  A caller that presents an old copy is charged against that
copy; the kernel cannot see it, and no property claims otherwise.  Proposals
without a lease are left to `Host`.

The rules a proposer brings along matter where the constitution matches none:
`merge_constitution_rules` then records them as they are (`MergeRules`).  A rule is
one entry of a receipt, its id with its `matched` flag; `Explain` sorts the ids by
their prefixes.  The order of the entries is left out, so of several matched budget
or constitution rules the model does not say which one a verdict names, only
which it may (`Named`).  A proposer's provenance edges are copied into the receipt
(kernel.rs:117); nothing in the kernel reads them, so only the edge the kernel adds
is kept (`cites`).  That no rule of a constitution has an id that begins with `$` is
an assumption (`ExplainAssumption`); `boardproof-explain` makes the same
(`explain/src/lib.rs:97`), and nothing enforces it.

### Lease and Budget

The five counters are a constant set of counters, each with its own largest value;
arithmetic saturates as in the code.  `Budget` keeps a map of the leases in
existence; the only coupling between a parent and a child is what `delegate`
debits.  A refused operation changes nothing and is no step.

### Store, Sleep and ReadApi

| Model | Code (`boardproof-store-sqlite/src/lib.rs` unless named) |
|---|---|
| `meta`, `rows` | the two tables; a row is its content id and its `body_json` |
| `step` | how far a process is in `main`, `open_inner` and `serve_proposal_mode` |
| `key`, `build`, `mode` | the issuer it opens the log for, its format version, with or without `--constitution` |
| `len`, `leaf` | `cached_len`, `cached_last_leaf_hash` |
| `kernel`, `held` | what `build_kernel_from_log` resumed; the receipt about to be appended |
| `signed`, `acked`, `edits`, `errors` | histories and counts of faults |
| `Peek`, `PeekRefused` | `peek_issuer` and the refusal of a foreign database |
| `PinAgrees`, `PinDiffers`, `PinMissing`, `InsertPin`, `InsertPinFails` | `check_or_set_meta_u32` and the issuer pin: SELECT and INSERT are two steps |
| `Count`, `ReadHead`, `ReadHeadFails`, `Resume`, `ResumeUnread` | the caches; `build_kernel_from_log`, where a failing read is an empty log |
| `SignAction`, `Offer`, `AppendRow`, `AppendFails`, `InsertFails` | a receipt is minted, or comes from elsewhere; `append`, which may also fail for a full disk or a busy database |
| `AlterBody`, `AlterVersion`, `DeleteRow`, `SwapBodies`, `Garble`, `Reissue`, `InsertRow` | the file is edited by something else |
| `pass`, `BeginPass`, `Clean`, `Walk`, `WalkUnread`, `ReportPass` | `run_light_sleep`, `run_deep_sleep`, `ReceiptLogWalker`, the receipt of the pass |

Here receipts carry version, issuer and signature.  The two version pins are
settled alike, one after the other, and one pin stands for both.  The validation
of `append` reads only the memory of its own process, so it is one step with the
INSERT.  The answers of a host are operators (`Stored`, `GetReceipt`, `Healthz`);
whether the SELECT of a look-up succeeds is an argument, since a failing one is
answered like a receipt that is not there.  A signature covers the body and not the
version beside it, so edits may change a version unnoticed; and the rows that an
edit puts in may be receipts that the same key signed for another log.

### Client, WriteApi, Auth, Hex, Canonical, Clock, Explain

No state of their own: operators on answers, tokens, bodies and receipts.  An
answer is lost, a status with a body, a body that lacks a field or is no JSON or no
object, or a decision that is not that of the receipt it names.  An error is told by
its code or the name of the exception; Python's `TimeoutError`, which a timeout while
the body is read raises past both `except` clauses of `_post`, is one with the lost
answer.  `WriteApi` has the checks of a handler and of the kernel in their order, each
with the code it answers; a request is what those checks look at, and `End` says how
far `handle_event` gets: a poisoned mutex, a receipt the log does not take, or the log.  A token is a sequence of
octets and, on its way there, a text: `Hex` decodes it digit by digit, and
`CtEq` compares octets by their bits.  `Canonical` works on code points and knows
objects, arrays, text and numbers, nested up to a `Depth`; an object is the
sequence of its members as they were parsed, and a sort is the one order of them
that ascends.  Where the sources of the three encoders differ (the order of keys,
the form of an escape, what `JSON.parse` makes of a number) each is written after
its own, so that their agreement says something.  `Clock` is the arithmetic of
`days_to_ymd`; its reference is a calendar that knows only which years are leap
years and what day follows a day.

### Tool calls

| Model | Code (`boardproof-tools-wasm/src/` unless named) |
|---|---|
| `status`, `memory`, `ticks` | a call; its `StoreData`; its epoch deadline |
| `asked`, `fetches`, `bodies`, `probed` | `HostState`: secret names, requests, answers; history of `secret-exists` |
| `Begin`, `Grow` | `fresh_store_with`, `memory_growing` |
| `HttpFetch`, `Answer`, `TransportFails` | `run_http_fetch`, and with it `HttpFetchTool::call`: its gates (`Refusal`), token (`Bearer`), bound (`BodyRead`) |
| `SecretExists` | `check_secret_exists` |
| `Wait`, `Wake` | a WASI call that blocks: `add_to_linker_sync` gives every component clocks and polling (`tool.rs:462`, `508`) |
| `Return`, `Fail`, `Interrupt` | how `call_component_with_host` ends; a guest out of fuel is one of those that fail |
| `Advance`, `TickerWakes` | time, and the `EpochTicker` thread |
| `RecordExecution` | the caller: redaction, then `handle_record_tool_execution` (`boardproof-host/examples/end-to-end-demo.rs`) |

What a guest computes is not modelled: it may do any of these things at any time.
It looks at the epoch at back-edges and function entries only, so a guest past
its deadline may still finish, and one that waits in a host call is not interrupted
there.  A host is written as the URL parser returns it, an IPv6 address in brackets
(`InBrackets`); `ParsedIp` is what `parse::<IpAddr>` makes of it.

## The properties

*Host.*  `ChainSound`: the log verifies at every moment.  `OnlyOrderIsRefused`: a
receipt that reaches the log at its position always links, so `ChainBroken`
cannot occur, also after a restart.  `CitationsGrounded`: an answer or a tool
record stands behind the receipt it names, which entitles it.  `PolicyHolds`: no
sequence of requests puts a denied action on record as granted, nor one that
needs approval without a pending receipt.  `AckedPositionsUnique`: clients are
never sent two receipts for one position.  `WedgeIsPermanent`: once a signed
receipt is lost, nothing is appended until the process ends; the property states
what the code does, so that a reader knows what a lost receipt costs.
`ImplementsAuditLog`: refinement of `AuditLog`.  `EveryRequestEnds`: liveness.
`CalendarAgrees`: the timestamps of receipts follow the calendar.
`PolicyInv` is the inductive invariant, proved and no longer run.

*Budget.*  `SpentWithinGrant`: the holders of a lease and of all leases below it
together spend no more than its budget.  `ConsumedIsAccountedFor`: consumption is
what was spent plus what was reserved, exactly.  `RevokedIsFinal`.

*Kernel.*  `SpentIsCharged`: the lease has lost exactly what the granted actions
cost (with types, this bounds spending by the lease: `BudgetIsKept`).
`CitationsAuthentic`: whatever is presented, the kernel cites only what it signed
and what entitles the receipt.  `VerdictNamesCause`: whose word denied an action,
as read off one receipt by `explain`, is whose word it was, or a rule that the
proposer brought along where the constitution passed the decision to it; what the
constitution denies is always put down to it.

*Store.*  `OneChain`: whatever processes do with stale caches, the database holds
one sound chain.  `OneIssuer`: no race of pins lets two issuers or versions in.
`RowsAreForever`: rows and pins never change.  `VerifiedRowsAreSigned`: in a file
that `verify_chain` accepts after edits, the body of every row of the pinned issuer
is one that this key signed, for a receipt appended here or one of another log; that
is all that the walk guarantees, since it can tell neither the two apart nor a
changed version.  `NoFalseAlarm`: a deep sleep beside a busy writer, or behind
one, reports no damage.  `AckedIsServed`: an acknowledged receipt is served and
verifies for both clients, from any process; `/healthz` never counts what cannot
be fetched.  `MirrorAgrees`: the fetched receipts of a log load into a mirror of
it, in whatever order the directory lists them; and whatever signed receipts lie
beside them or in their place, what loads at all is one issuer's chain with no
file left out.

*Clients.*  `ClientsAgree`: a decision returned after verification comes with the
content id of a receipt whose signature holds; it is that receipt's decision if the
answer is one a host gives; and both clients return the same.  The checks of handlers
and kernel let through exactly the requests that are in order, and what a client is
told is what happened: a returned decision is logged, an error below 500 signed
nothing; from a 500 a client cannot tell whether a receipt was signed and lost.
The command-line verifier and the offline ones accept the same receipts of a version
that the former knows.  `TokenAdmits`: a
host that was given a token lets in exactly those who were given the same, in
capitals or not and with spaces around it, tells the others, and starts open only
if told so.
`EncodersAgree`: the encoders of the three languages write the same bytes in
whatever order the members of an object arrive, no two bodies share an encoding,
and what Rust reads of hexadecimal text the verifiers read alike.

*Tools.*  `WireIsLawful`: no request leaves that the allowlist, the networks or the
secret forbid, and none is stripped of its secret; hosts in brackets are excepted
from the networks, which is finding 4.  `SuccessNamesSecrets`: the record of a
success names exactly the secrets its own guest asked to use.  `BodiesAreWhole`.
`NotInterruptedEarly`: an interruption is not early, to within one tick.  `CallsEnd`:
every call ends, unless its guest waits in one host call for ever.
`HandedIsClean`: what is handed on shows no pattern, the receipt commits to it and
says truly whether it was changed.  `GlobAgrees`, `TableAgrees`,
`CoreOutputExact`: pure parts against reference definitions; the last says that
what a core guest points to is copied out exactly or refused, and that a guest
that returns its input returns it.

## The runs

| Run | Instance | Shows |
|---|---|---|
| `HostConcurrent` | 2 clients, 4 requests, SQLite; disconnects, failing INSERTs, crashes | the safety properties and the refinement under every interleaving |
| `HostPower` | 2 clients, 3 requests, SQLite; disconnects, power cuts, checkpoints; 400 years and more of days | what survives a power cut is still an audit log; the calendar of its timestamps |
| `HostLiveness` | 2 clients, 3 requests, in memory; disconnects, crashes | every request ends |
| `HostInterleaved` | 2 clients, 2 requests, no faults | violated: `EveryMintIsAppended` |
| `HostPowerLoss` | 2 clients, 2 requests, power cuts | violated: `LossIsCaught` |
| `BudgetTree` | 4 leases, 2 counters of widths 3 and 2, root filled to the width | delegation |
| `KernelAgent` | 3 actions, each for 1 of a lease of 2, 3 sets of rules that proposers bring along, 4 events, 3 forged receipts | accounting, citations and verdicts |
| `StoreProcesses` | 2 processes, 2 keys, 2 signed receipts, 2 receipts from elsewhere for each key, 1 fault, 1 sleep pass; requests, answers, tokens and bodies as below | the store, sleep, mirrors, handlers' answers, clients, tokens and encoders |
| `ToolCalls` | 2 calls at once with 1 host call each, 3 hosts, 2 secret names, a timeout of 2 ticks | the tools |
| `ToolAudit` | the same | violated: `AttemptsAreRecorded` |
| `ToolAddress` | 2 calls, a tool that may connect anywhere, a name and the loopback address of each family | violated: `LiteralsAreRefused` |
| `KernelRouting` | as `KernelAgent`, 2 events | violated: `StoryIsLogged` |

*Bounds.*  `MaxRequests`, `MaxEvents`, `MaxSigned`, `MaxFaults`, `MaxPasses`,
`MaxCleaned`, `MaxHostCalls`, `MaxMemory`, `Depth`, `LeaseId` and `Charges` are the
only ones.
Two clients suffice for every race of the host: it has two locks, and each
property relates at most two receipts.  Four requests let a handler lose its
receipt, the process restart, a position be signed twice, and the citations of
the second life be checked; three let a pending receipt be answered after a power
cut.  Four kernel events allow a pending receipt, two other actions that use the
lease up and an answer, or a repeated answer; the rules brought along are none, the
kernel's own word for an operator's denial, and one that reads like the budget's.  Four leases give chains of three and
siblings.  `Time = {0}`: all timestamps are equal, the worst case for telling
receipts apart.  Clients and child leases are symmetric; symmetry is not used
where liveness is checked.  In `StoreProcesses` two keys make the race of pins,
two receipts make one process fall behind and be refused, one fault is an edit, a
failing read or a failing INSERT (the theorems cover any number), and processes may
leave and reopen at any time.  Its receipts from elsewhere are, for each key, one that
names the key and bears the stranger's signature, and one that the key signed for
another log; a caller may offer the former, an editor put in either (offering the
latter to an empty log of its key starts that log with it, which is no fault).  An
envelope has one of two versions, neither beyond what the builds know; its actions are
one that a tool may run and one that none may.
Tokens have two octets of four values, two of which differ in one bit; bodies
have texts of two characters, all that need an escape among them, objects of two
members in both orders, and an array and an object in an object; the theorems
cover every depth and length.  In `ToolCalls` one secret exists and one does not,
one host is granted, one is not, and one is granted and private; a body is as
long as the bound or one or two longer; rules overlap and feed on one another; a
memory has no page or one, and the words of core guests hold 16 values.
Globs and candidates have up to four characters: two stars with parts that
overlap.  `HostPower` goes through every day of 400 years and the seconds around
the ends of minutes, hours and days (`MCDay`, `MCSecond`).  `BudgetTree`,
`StoreProcesses` and the kernel runs do not check for deadlock: every lease may be
revoked and the bounds be reached.  The host is checked for deadlock except in
`HostInterleaved`, which has no fault that could follow the last request.

*Fairness.*  `FairSpec` has weak fairness of `Handle(c)` per client, and nothing
else.  Both locks queue their waiters and are held for a bounded time (no `await`
inside), and the runtime polls a woken task, so a handler in a phase moves on.
Nothing is assumed of clients, faults or whoever restarts the process.  `TSpec`
has weak fairness of the clock, of the ticker thread (an endless loop of sleep and
`increment_epoch`) and of the end of a request (the HTTP client has a timeout of its
own), and strong fairness of the interruption of a guest past its deadline: a guest
that runs on, or comes back from host calls over and over, runs finite code between
them, so it passes a back-edge or a function entry again and again, and is stopped
there.  Nothing is assumed of a guest that waits in a host call: WASI's clocks and
`poll` are linked and need no permission, no epoch is checked there, and a guest may
wait for a time that is years away.  So `CallsEnd` excepts a call that waits for
ever, and the wall-clock bound of `tools-wasm/src/config.rs:40` does not hold for
one.  A guest that is not past its deadline need not do anything.

## What disagrees with the documentation

1. `HostInterleaved`: two handlers sign positions 0 and 1; the second takes the
   write lock first, is refused (`OutOfOrder`, answered 500), and its receipt is in
   no log.  `api.rs:524` says the minted receipt "is immediately appended to the
   log".  By `WedgeIsPermanent` the host then serves no request until it is
   restarted.
2. `HostPowerLoss`: `store-sqlite/src/lib.rs:176` says a loss of the last
   milliseconds "is what the chain check catches anyway".  A shortened chain
   verifies; nothing in it shows that an acknowledged receipt is gone.
3. `KernelRouting`: `evaluate_with_routing` returns the final receipt only.  Its
   caller cannot log the pending one, so the log refuses the final one too, and
   the link `docs/steps/05-approval-engine.md:52` speaks of leads nowhere.
4. `ToolAddress`: `tools-http/src/ssrf.rs:3` says that a request whose host parses as
   an address of a listed network is refused before a connection is opened.  For IPv6
   it is not: `Url::host_str` (`lib.rs:231`) returns the address in brackets, not
   without them as `ssrf.rs:52` has it, and `parse::<IpAddr>` reads none in brackets,
   so the host counts as a name, which only the allowlist restricts.
5. `budget/src/lease.rs:107` says a parent cannot reuse a reservation "until the
   child returns, expires, or is revoked".  There is no such return:
   `RevokedIsFinal` holds with consumption that never shrinks (and
   `budget/tests/composition.rs` expects it so).
6. `ToolAudit`: `tools-wasm/src/host.rs:160` records a secret's name before the
   call, so that the audit trail reflects attempts "even on failure".  The names
   leave the sandbox only with a success; the receipt of a guest that failed after
   it used a secret names none.

Observed while modelling, without a run:

- *Kernel.*  `event.rs:34` and `kernel.rs:93` say that a pending receipt never charges
  the lease; it does if the caller proposed `Pending` (`kernel.rs:97` looks at the
  constitution only), and its approval charges again.  `SpentIsCharged` is checked and
  proved for callers that do not.
- *Explain.*  A proposer's own rules are recorded where the constitution matches none,
  so a denial that the proposer proposed may be explained as the budget's or an
  operator's, though `explain/src/lib.rs:153` calls that verdict "an operator denied a
  previously-pending action".  And where a constitution asks for approval of one rule
  and denies by another, the verdict names the first that matched, which may be the
  former.
- *Edited files.*  A version lowered in `body_json` verifies (`receipt/src/lib.rs:512`),
  and so does a row of another log of the same key that fits the links.
- *Clients.*  Both compare content ids only: a decision, an issuer or a sequence in an
  answer that differs from those of the receipt it names is returned as it is, though
  `packages/client-ts/src/client.ts:16` says that the client "never trusts the server's
  claim about what was signed".  A timeout while Python reads a body raises
  `TimeoutError`, no `BoardProofError`; a body that is no JSON raises
  `JSONDecodeError`.
- *Host.*  A look-up whose SELECT fails is answered 404, as if there were no such
  receipt (`store-sqlite/src/lib.rs:484`).  A poisoned mutex of the kernel is answered
  500 with the code of a lost receipt, so a client cannot tell whether one was signed.
- *Tools.*  `secret-exists` touches a secret without recording its name, though
  `tool.rs:526` speaks of every name that host calls touched.  The demo redacts the
  body it decoded from the output (`end-to-end-demo.rs:526`), the model the output.

Also: `verify_chain` accepts a chain cut off at
its end and checks neither the pinned issuer nor the leaf hash of a row; the deep
sleep walker reports the cached length as walked, which in a process that fell
behind is less than it walked; `get_receipt` answers 304 for receipts that do not
exist; `PatternRedactor` decodes lossily, so output with octets that are not UTF-8
changes though no rule matched; `env_var_name` maps several names to one variable;
an interruption may come up to one tick before the configured timeout (two if the
tick does not divide it, since the deadline is a quotient rounded down; in the run it
divides, so the rounding is not exercised); Python
orders keys by code points, not UTF-16 units, and JavaScript rounds numbers beyond
2^53 (`EncodersAgree` leaves such bodies out on those sides; the keys of
receipts are ASCII); the Python client asks for fields the TypeScript client does
without; a row that `verify_chain` passes after edits may be at another position than the one its
receipt names (swap two bodies, delete the first row: `VerifiedRowsAreSigned`
speaks of receipts, not of positions); the verifiers' decoders of hexadecimal text
accept more than Rust's (Python's skips white space, though the comment in
`_hex.py` says that any other character raises; TypeScript's `parseInt` takes
"1g", " 1" and "-1"); the command-line verifier looks at a receipt's version, the
others do not.

## What is proved

All theorems hold for every value of the constants: any number of clients,
requests, actions, rules, counters, leases, processes, keys, versions, calls,
forged receipts, any set of faults, any length of a token or a pattern, any
depth of a body.
They assume the named `ASSUME`s of the modules, which TLC evaluates in every run.
Most of those only say that the constants have their types and that the values
standing for "none" are no data (`ReadAssumption`: nor a decoder's own state; they
are model values); the others are that the kernel's own rule ids
(`DeniedByOperator`, `BudgetRule`) differ from one another and from the rules of
the constitution, which keeps off the `$`, and that finitely many receipts from
elsewhere are at hand (`Outside`, a file system's worth of them).

**HostProofs.**  `ChainSound` is not inductive: nothing in it says where the
receipts in flight belong.  `ChainInv` adds it.  Since a leaf spells out all that
was hashed, `kernel.prev_hash` is the whole history of this process; `LogOnChain`
says the log is a prefix of it, `HeldOnChain` that every receipt in flight sits at
its own position on it, `HeldPositionsUnique` that no two share one, and
`HandlersReady` that a handler has what its phase needs.  From `ChainInv` follow

- `TypeCorrect`, `ChainIsSound`, `LinksNeverRefused`;
- `WedgePersists`: while a process runs, the position the log waits for is behind
  the kernel and nobody holds it, so nobody ever will;
- `HostImplementsAuditLog`: with the auxiliary fact that what is about to be
  answered is in the log, every step is an `Extend`, `Acknowledge` or `LoseTail`
  of `AuditLog`, or a stutter;
- `AckedReceiptsAgree`, for SQLite without power cuts: acknowledged receipts are
  log entries, and the log only grows.

`PolicyInv` adds that what the kernel is asked about is in the log until it
answers (`EventsGrounded`) and that what it signed is lawful; from it follow
`CitationsAreGrounded` and `PolicyIsKept`.  `CalendarIsKept` is arithmetic, for
every day and every second: TLC sees the 400 years after which the calendar
repeats, the theorem that it does.

**KernelProofs.**  Types need that the lease never consumes more than its budget
(otherwise a charge could leave a counter's width); with that, `SpentIsCharged`
and `CitationsAuthentic` are inductive, one lemma per action.
`ChargesMatchGrants` and `BudgetIsKept` assume `NoneProposedPending`; above is what
happens without it.  `VerdictsNameTheirCause` needs three facts beside the
types (`CauseInv`): no leaf of a signed receipt is the zero hash, nothing precedes
position 0 and only that, and the property itself for every receipt signed so far;
a receipt that blames the budget stays right because a lease that could not pay a
cost never can again (`ChargeableShrinks`).  Proposers may bring any rules: `Said` is
what a receipt of theirs may hold of them, which is nothing where the constitution
decided.

**BudgetProofs.**  `TypeCorrect` includes that every lease of the tree stays within
its budget; `RevocationIsFinal` is the action property.  `SpentWithinGrant` is not
inductive: nothing in it says what a holder can still spend or hand out.
`Conserved` is: what was granted to a lease is all there below it, spent by
somebody or still to be had from somebody, for each counter *exactly* its budget.
A charge moves an amount from one to the other within a holder, a delegation from
a parent to its child, and both leave the sum over every subtree alone
(`ChargeConserves`, `DelegateConserves`).  `DelegationSpendsWithinGrant` and
`ConsumptionIsAccountedFor` follow.

**StoreProofs.**  A process acts on a cache that may be stale, so `OneChain` says
too little about it.  `StoreInv` adds `Extent(n)`: the rows are 0 to n - 1, each
sound, every cached length is at most n, and a process whose length *is* n knows
the last leaf.  The primary key refuses whoever is behind, so only a process that
knows the last leaf can append.  `SessionInv` says what the pins have settled at
each step: a pin that is set never moves, so whoever passed it agrees with it for
good.  Every step of `SNext` is first summed up by what it does to the log
(`StepsSummarized`), then shown to preserve `StoreInv`.  `ChainIsOne`,
`IssuerIsOne` and `RowsStay` follow; edits of the file are allowed throughout.

- `AlarmsAreReal`: without edits every walk that can read the log succeeds, from
  however old a cache (`WalkSucceeds`), so each failure a running deep sleep has
  counted is a read that failed (`AlarmInv`).  It assumes that no client proposes
  what looks like a sleep (`Work \cap SleepAction = {}`); the kernel would sign
  such a proposal, and the log would then hold a report of failures that no walker
  had.
- `StoreTypesHold`: the bound on what a walker counts is the bound on how many
  positions were ever filled, which survives deletions (`FilledUpTo`).
- `VerifiedIsSigned`: after any number of edits a row with a signature of ours has
  that of a receipt that was appended or is one from elsewhere (`SignatureInv`), and a
  signature covers the whole body; so the body of what verifies under this key is one
  the key signed.
- `AppendedIsServed`: until an edit, rows and acknowledged receipts are the same
  (`ServedInv`), and no two positions share a content id.
- `MirrorHoldsChain`: loading is a fold, and what it returns is the files in the
  order they were taken, each linked to the one before, or nothing (`LoadIs`).
  Files in the order of their positions with no gap are in *one* order
  (`OneOrder`), so the directory's own order cannot matter; any other set of files
  loads as a chain of all of them or not at all.
- `ClientsDecideAlike`: both clients' code, read off case by case, for every answer,
  also one that contradicts the receipt it names (`DecisionsAlike`), every request (`HostIsUnderstood`: the checks of handler and
  kernel together let through exactly what is in order, and the client is told what
  happened), and every receipt (`CliAgrees`).
- `TokenIsAsked`: decoding two texts gives the same octets exactly if they are
  equal but for capitals (`SameOctets`), and the difference that `ct_eq`
  accumulates is empty exactly if the octets are equal (`CtEqTells`).
- `DecodersTell`: both of Rust's decoders, Python's and TypeScript's are folded or
  mapped over the text, and on texts of digits each yields 16 times the first of a
  pair and the second (`DecodeHexIs`, `PyHexToBytesIs`, `TsHexToBytesIs`); what is
  read is written again as it was, but for capitals (`WrittenAgain`), and what is
  written is read again (`ReadAgain`).  Python skips white space before a pair, so its
  lemma is about texts without any; that is the exception the property names.
- `EncodersAlwaysAgree` puts `DecodersTell` and `EncodersTell` together, and shows
  that the bodies of the run are values (`BodiesAreValues`).

**CanonicalProofs.**  `EncodersTell` is about every set of values, however deep,
with texts and keys of any length.

- That the encoders agree (`SameBytes`): UTF-16 and code points order texts of the
  BMP alike, the hexadecimal digits of an escape are the same however they are
  padded, and two sorts that ascend by the same order are one (`InKeyOrder`).  It
  holds for TypeScript on integers up to `MaxSafe`, whatever JavaScript prints for
  larger ones (`Inexact`), and for Python on keys of the BMP, which is what
  `EncodersAgree` says too.
- That no two values share an encoding is not inductive as it stands: that two arrays
  of values differ does not follow from their items having different bytes, since
  what is joined by commas could be cut elsewhere.  The inductive claim (`BytesTell`)
  is that the bytes of a value are *delimited*: if one encoding followed by something
  that may follow a value (nothing, a comma, a closing bracket) equals another
  followed likewise, the two encodings are equal, and so are the values.  A text is
  delimited since its escapes are, one character after the other, and a bare quote
  ends it; a number by its digits; an array or object by its items, from left to
  right.  Two objects with their members in another order are one value, and the
  order in which they are written is determined by the keys.

**ToolProofs.**  `BodiesStayWhole` is the argument for reading one octet past the
bound.  `NotInterruptedEarly` compares an age with a deadline, which no single
step relates.  `ClockInv` does (`Matured`): a call's first tick may end a period
that was nearly over when the call began, but each later one took a whole `Tick`,
so its age is at least (ticks lived through - 1) * `Tick`, and the part of the
period under way.  `InterruptedInTime` assumes that `Timeout` is at most
`EpochDeadline * Tick`, that is, that the tick divides it or is larger: the code
rounds the quotient down, and where that drops a remainder an interruption may
come up to two ticks early.

- `ToolTypesHold`: with `CallTypes`, that a call which waits has made a request.
- `WireStaysLawful`: everything on the wire passed `Refusal` and bears its own
  token (`WireInv`); what passed is granted by a glob that denotes it, and if it is an
  address without brackets, `TableIsExact` says that no network holds it.
- `SecretsAreNamed`: what the host noted is what the guest's requests asked for,
  and a result takes the names from the notes (`SecretsInv`); `FirstUses`, a fold,
  names each exactly once (`FirstUsesNames`, `DistinctLength`).
- `GlobIsExact`: `Denotes` asks for places in the candidate where the prefixes of
  the pattern end; the matcher cuts the pattern at its stars and keeps a cursor.
  Soundness: what the cursor passed stands in the candidate, part after part, with
  the stars between (`CursorPlaces`, `PlacedFits`).  Completeness: the
  cursor is never behind the earliest end any other placement can reach
  (`CursorReaches`), so taking the first occurrence loses nothing.
- `TableIsExact`: an address is in a network exactly if the two agree on the bits
  of the prefix (`SamePrefix`), cut into octets or segments (`PartPrefix`); for all
  2^32 and all 2^128 addresses.
- `RedactionIsClean`: that what is handed on matches no rule does not hold of every
  stack, since a replacement may make a match of an earlier rule.  It holds of those
  that are `Bracketed`: each replacement begins and ends with a mark that no rule
  looks for, and holds nothing a rule looks for, as the default `[REDACTED:...]` does
  with the default rules (an assumption of `MCTools` says so of the stack of the
  run).  Then a word in the output cannot touch a replacement, so it was in the input,
  at a place where no match was replaced (`TailKept`, `WordsKept`), and no later rule
  brings back what an earlier one removed (`Redacts`, through the rules of a redactor
  and the redactors of the stack).  Every replacement adds a mark and no match holds
  one, so a text that was touched has more marks than the tool's (`MarksKept`): it is
  another text, and the matches in the record tell truly.  A rule looks for a fixed
  text here; what a regular expression demands of the text around a match (`\b`) is
  not modelled.
- `OutputRangeIsExact`: a signed word gives back what was packed into it
  (`PackedRestored`), and a range that lies in the memory is copied whole.

**Induction.**  The library's principles take an operator, which the provers cannot
instantiate.  `FoldLemmas` has principles that take a *set* instead, of the numbers
or subsets for which the claim holds (`NumberInduction`, `SubsetInduction`), both
from the least element of a set of numbers, and from them what the folds of the
community modules compute: existence and uniqueness of a fold over a finite set
(`FoldExists`, `LatestFold` for sequences) and the laws of sums (`SumAdd`,
`SumMono`, `SumChanged`).

**Only model-checked.**

- `EveryRequestEnds`, `CallsEnd`: liveness under fairness is out of the provers'
  reach.
- What the violated runs show is a trace, and needs no proof.

## What is not modelled, and the plan

Left out for good: cryptography (taken to be injective and unforgeable),
parsing of command lines, rendering, HTML, TOML, URL and HTTP parsing, compiling of
guests, zeroing of memory, metrics and logging: they keep no state that the
properties are about.  Sequence numbers do not saturate: `u64::MAX` receipts are
out of reach.  Totals of a sleep report are sums in Nat.
`ToolHost` is a map from names to tools.

Order of the work, most important behaviour first; what is done is checked, and
proved as far as the section above says:

1. `Receipts`, `Constitution`, `Host`, `AuditLog`, `HostProofs`: done.
2. `Lease`, `Budget`, `Kernel` and their proofs: done.
3. `Store`, `Sleep`, `ReadApi` and `StoreProofs`: done.
4. `Glob`, `HttpFetch`, `WasmTool`, `Redact`, `ToolCalls` and `ToolProofs`: done.
5. `Client`, `Auth`, `Canonical`, `Explain`: done.
6. `Clock`, `Hex`, `WriteApi`, `Wire`, and the theorems about all of the above that
   the section on proofs lists: done.
7. `EncodersTell` and `DecodersTell`, with the encoders as recursive functions: done.
   Every safety property and action property that a run checks is now stated by a
   theorem; the two liveness properties stay with TLC.
