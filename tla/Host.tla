-------------------------------- MODULE Host --------------------------------
(***************************************************************************)
(* boardproof-host in proposal mode: HTTP handlers that share one Kernel   *)
(* behind a mutex and one ReceiptLog behind an asynchronous RwLock.        *)
(*                                                                         *)
(* A write request passes through these phases; another handler may run    *)
(* between any two of them, and the handler is dropped if its client goes  *)
(* away while it waits for a lock of the log.                              *)
(*                                                                         *)
(*   "idle"    no request in progress (rejected requests return here)      *)
(*   "kernel"  the event is built, the kernel mutex not yet taken          *)
(*   "append"  a receipt is signed, the write lock of the log not taken    *)
(*   "reply"   the receipt is appended, the 200 response not yet sent      *)
(*                                                                         *)
(* Taking the read lock and looking a receipt up is one step: nothing the  *)
(* handler did before it is visible to others.  So is the whole critical   *)
(* section of each lock.  Requests that change nothing (GET, a malformed   *)
(* body, 401) are left out.                                                *)
(***************************************************************************)
EXTENDS Constitution, Clock

CONSTANTS
  Client,        \* concurrent connections
  Proposable,    \* actions that clients propose
  ToolAction,    \* actions whose kind starts with "tool."
  ToolExecuted,  \* the kernel's own action "$kernel/tool/executed"
  DeniedByOperator, \* the rule id "$kernel/approval/denied_by_operator"
  Sqlite,        \* TRUE: SqliteReceiptLog; FALSE: InMemoryReceiptLog
  Faults,        \* which of the faults below may happen
  MaxRequests,   \* bound on the write requests that get to the kernel
  None           \* no event, no receipt

ASSUME HostAssumption ==
  /\ Proposable \subseteq Action
  /\ ToolAction \subseteq Action
  /\ ToolExecuted \in Action \ ToolAction
  /\ DeniedByOperator \in Rule \ ConstitutionRule
  /\ Sqlite \in BOOLEAN
  /\ Faults \subseteq {"disconnect", "insert", "crash", "power"}
  /\ MaxRequests \in Nat
  /\ None \notin Receipt

VARIABLES
  up,        \* is the process running?
  kernel,    \* ApiState.kernel: KernelState of the running process
  log,       \* ApiState.log: the receipts the log answers for
  synced,    \* how many of them a power cut cannot take any more
  phase,     \* client |-> phase of its handler
  event,     \* client |-> the KernelEvent its handler will submit
  held,      \* client |-> the receipt its handler holds
  requests,  \* write requests that got as far as an event
  minted,    \* history: every receipt ever signed
  acked      \* history: every receipt sent to a client in a 200 response

handlers == <<phase, event, held>>
history  == <<requests, minted, acked>>
vars == <<up, kernel, log, synced, handlers, history>>

Phase == {"idle", "kernel", "append", "reply"}

ProposalEvent(a) == [kind |-> "proposal", action |-> a]
ResolveEvent(r, response) ==
  [kind |-> "resolve", pending |-> r, response |-> response]
ToolEvent(r) == [kind |-> "tool", allowed |-> r]

Event ==
  [kind : {"proposal"}, action : Proposable]
    \cup [kind : {"resolve"}, pending : Receipt, response : {"Approved", "Denied"}]
    \cup [kind : {"tool"}, allowed : Receipt]

-----------------------------------------------------------------------------
(* The kernel.                                                             *)

\* The gates of handle_resolve_approval and handle_record_tool_execution;
\* a proposal is never rejected.
Admits(e) ==
  \/ e.kind = "proposal"
  \/ e.kind = "resolve" /\ e.pending.decision = "Pending"
  \/ /\ e.kind = "tool"
     /\ e.allowed.decision = "Allowed"
     /\ e.allowed.action \in ToolAction

\* handle_proposal.  The host proposes "Allowed" and no lease.
EvaluatedReceipt(k, at, e) ==
  Minted(k, at, e.action, ConstitutionalDecision(e.action, "Allowed"),
         MatchedRules(e.action), ZeroDigest)

\* handle_resolve_approval, without a lease.
ResolvedReceipt(k, at, e) ==
  Minted(k, at, e.pending.action, e.response,
         IF e.response = "Denied" THEN {DeniedByOperator} ELSE {},
         e.pending.leaf)

\* handle_record_tool_execution.
ExecutedReceipt(k, at, e) ==
  Minted(k, at, ToolExecuted, "Allowed", {}, e.allowed.leaf)

KernelReceipt(k, at, e) ==
  CASE e.kind = "proposal" -> EvaluatedReceipt(k, at, e)
    [] e.kind = "resolve"  -> ResolvedReceipt(k, at, e)
    [] e.kind = "tool"     -> ExecutedReceipt(k, at, e)

-----------------------------------------------------------------------------
Init ==
  /\ up = TRUE
  /\ kernel = Genesis
  /\ log = << >>
  /\ synced = 0
  /\ phase = [c \in Client |-> "idle"]
  /\ event = [c \in Client |-> None]
  /\ held = [c \in Client |-> None]
  /\ requests = 0
  /\ minted = {}
  /\ acked = {}

(* Requests.                                                               *)

Submit(c, e) ==
  /\ up
  /\ phase[c] = "idle"
  /\ requests < MaxRequests
  /\ phase' = [phase EXCEPT ![c] = "kernel"]
  /\ event' = [event EXCEPT ![c] = e]
  /\ requests' = requests + 1
  /\ UNCHANGED <<up, kernel, log, synced, held, minted, acked>>

\* POST /v1/proposals
PostProposal(c) == \E a \in Proposable : Submit(c, ProposalEvent(a))

\* Faulty Found: the receipt is not looked up.
FoundAnywhere(r) == r \in minted

\* get_by_id under the read lock: a client may name any receipt it has seen
\* or guessed, and the log answers only for those it contains.
Found(r) == r \in ToSet(log)

\* The up-front checks that answer 409.
ResolvableReceipt(r) == r.decision = "Pending"
ExecutableReceipt(r) == r.decision = "Allowed" /\ r.action \in ToolAction

\* POST /v1/approvals/{id}/resolve: 404 and 409 leave no trace.
PostResolve(c) ==
  \E r \in minted, d \in {"Approved", "Denied"} :
    /\ Found(r)
    /\ ResolvableReceipt(r)
    /\ Submit(c, ResolveEvent(r, d))

\* POST /v1/tool-executions: 404 and 409 leave no trace.
PostToolExecution(c) ==
  \E r \in minted :
    /\ Found(r)
    /\ ExecutableReceipt(r)
    /\ Submit(c, ToolEvent(r))

(* handle_event.                                                           *)

\* Step 1, under the kernel mutex: sign and advance.
Mint(c) ==
  /\ phase[c] = "kernel"
  /\ Admits(event[c])
  /\ \E at \in Time :
       LET r == KernelReceipt(kernel, at, event[c]) IN
         /\ kernel' = Advance(kernel, r.leaf)
         /\ held' = [held EXCEPT ![c] = r]
         /\ minted' = minted \cup {r}
  /\ phase' = [phase EXCEPT ![c] = "append"]
  /\ event' = [event EXCEPT ![c] = None]
  /\ UNCHANGED <<up, log, synced, requests, acked>>

\* The handler ends without a 200: the receipt it holds is dropped.
Abandon(c) ==
  /\ phase' = [phase EXCEPT ![c] = "idle"]
  /\ held' = [held EXCEPT ![c] = None]
  /\ UNCHANGED <<up, kernel, log, synced, event, history>>

\* Step 2, under the write lock: append succeeds ...
AppendReceipt(c) ==
  /\ phase[c] = "append"
  /\ Appendable(log, held[c])
  /\ log' = Append(log, held[c])
  /\ phase' = [phase EXCEPT ![c] = "reply"]
  /\ UNCHANGED <<up, kernel, synced, event, held, history>>

\* Faulty AppendRefused: the error of append is dropped, the client gets a 200.
RefusalAnswered(c) ==
  /\ phase[c] = "append"
  /\ ~Appendable(log, held[c])
  /\ phase' = [phase EXCEPT ![c] = "reply"]
  /\ UNCHANGED <<up, kernel, log, synced, event, held, history>>

\* Faulty AppendRefused: the handler tries again until the log takes it.
RefusalRetried(c) ==
  /\ phase[c] = "append"
  /\ ~Appendable(log, held[c])
  /\ UNCHANGED vars

\* ... or the log refuses the receipt (OutOfOrder, ChainBroken): 500 ...
AppendRefused(c) ==
  /\ phase[c] = "append"
  /\ ~Appendable(log, held[c])
  /\ Abandon(c)

\* ... or the INSERT fails (disk full, busy database): 500.
InsertFails(c) ==
  /\ Sqlite
  /\ "insert" \in Faults
  /\ phase[c] = "append"
  /\ Appendable(log, held[c])
  /\ Abandon(c)

\* The 200 response reaches the client.
Reply(c) ==
  /\ phase[c] = "reply"
  /\ acked' = acked \cup {held[c]}
  /\ phase' = [phase EXCEPT ![c] = "idle"]
  /\ held' = [held EXCEPT ![c] = None]
  /\ UNCHANGED <<up, kernel, log, synced, event, requests, minted>>

(* Faults.                                                                 *)

\* The client goes away: its handler is dropped while it waits for the write
\* lock, or its response has no reader.
Disconnect(c) ==
  /\ "disconnect" \in Faults
  /\ phase[c] \in {"append", "reply"}
  /\ Abandon(c)

\* SQLite checkpoints its write-ahead log, which syncs it.
Checkpoint ==
  /\ up
  /\ Sqlite
  /\ "power" \in Faults
  /\ synced' = Len(log)
  /\ UNCHANGED <<up, kernel, log, handlers, history>>

\* The process ends and n receipts of its log survive.
Down(n) ==
  /\ up' = FALSE
  /\ kernel' = Genesis
  /\ log' = SubSeq(log, 1, n)
  /\ phase' = [c \in Client |-> "idle"]
  /\ event' = [c \in Client |-> None]
  /\ held' = [c \in Client |-> None]
  /\ UNCHANGED <<requests, minted, acked>>

\* The process is killed or stopped: what SQLite committed is in the page
\* cache (and no safer than before), what InMemoryReceiptLog held is gone.
Crash ==
  /\ "crash" \in Faults
  /\ up
  /\ Down(IF Sqlite THEN Len(log) ELSE 0)
  /\ synced' = IF Sqlite THEN synced ELSE 0

\* Faulty PowerLoss: a checkpoint saves nothing.
PowerLossOfSynced ==
  /\ "power" \in Faults
  /\ Sqlite
  /\ \E n \in 0 .. Len(log) : Down(n) /\ UNCHANGED synced

\* The machine loses power: synchronous=NORMAL keeps only what was synced,
\* and perhaps some more of the write-ahead log.
PowerLoss ==
  /\ "power" \in Faults
  /\ Sqlite
  /\ \E n \in synced .. Len(log) : Down(n) /\ synced' = n

\* serve_proposal_mode: open the log, build the kernel from its head.
Restart ==
  /\ ~up
  /\ up' = TRUE
  /\ kernel' = ResumeFrom(log)
  /\ UNCHANGED <<log, synced, handlers, history>>

-----------------------------------------------------------------------------
Request(c) == PostProposal(c) \/ PostResolve(c) \/ PostToolExecution(c)
Handle(c)  == Mint(c) \/ AppendReceipt(c) \/ AppendRefused(c) \/ Reply(c)

Next ==
  \/ \E c \in Client : Request(c) \/ Handle(c) \/ InsertFails(c) \/ Disconnect(c)
  \/ Checkpoint
  \/ Crash
  \/ PowerLoss
  \/ Restart

Spec == Init /\ [][Next]_vars

\* Both locks are fair and the runtime polls every woken task, so a handler
\* never stops for good between two phases.  Clients, faults and the
\* supervisor that restarts the process owe nothing.
FairSpec == Spec /\ \A c \in Client : WF_vars(Handle(c))

-----------------------------------------------------------------------------
(* Properties.                                                             *)

\* Every variable has its type.
TypeOK ==
  /\ up \in BOOLEAN
  /\ kernel \in KernelState
  /\ log \in Seq(Receipt)
  /\ synced \in 0 .. Len(log)
  /\ phase \in [Client -> Phase]
  /\ event \in [Client -> Event \cup {None}]
  /\ held \in [Client -> Receipt \cup {None}]
  /\ requests \in 0 .. MaxRequests
  /\ minted \subseteq Receipt
  /\ acked \subseteq Receipt

\* Whatever handlers, crashes and restarts do to it, the log is a sound chain:
\* verify_chain of either backend would return Ok at any moment.
ChainSound == VerifyChain(log)

\* A receipt that arrives at its position always links to the head of the
\* log: of the two errors append can give the host, OutOfOrder and
\* ChainBroken, the second never happens, also after a restart.
OnlyOrderIsRefused ==
  \A c \in Client :
    phase[c] = "append" /\ InOrder(log, held[c]) => Linked(log, held[c])

\* p is a receipt that entitles the kernel to sign r.
Authorizes(p, r) ==
  \/ /\ p.decision = "Pending"
     /\ r.decision \in {"Approved", "Denied"}
     /\ r.action = p.action
  \/ /\ p.decision = "Allowed"
     /\ p.action \in ToolAction
     /\ r.decision = "Allowed"
     /\ r.action = ToolExecuted

\* The dates that receipts carry: days_to_ymd and format_iso8601_seconds count on
\* as the calendar does, over the ends of minutes, hours, days, months, leap years
\* and centuries.
CalendarAgrees == Init => CalendarKept

\* An answer to an approval and the record of a tool run stand in the log
\* behind the receipt they name, and that receipt entitles them.  An auditor
\* who follows the edges of a receipt never meets a missing receipt.
CitationsGrounded ==
  \A i \in 1 .. Len(log) :
    log[i].cites # ZeroDigest =>
      \E j \in 1 .. i - 1 :
        log[j].leaf = log[i].cites /\ Authorizes(log[j], log[i])

\* No sequence of requests gets an action past the constitution: an action
\* that a deny rule matches is only ever on record as denied, and one that an
\* approval rule matches is granted only as the answer to a pending receipt.
WithinPolicy(r) ==
  r.decision \in {"Allowed", "Approved"} =>
    \/ r.action = ToolExecuted /\ r.cites # ZeroDigest
    \/ /\ MatchedRules(r.action) \cap DenyRule = {}
       /\ MatchedRules(r.action) # {} =>
            r.decision = "Approved" /\ r.cites # ZeroDigest

PolicyHolds == \A i \in 1 .. Len(log) : WithinPolicy(log[i])

\* Where SQLite keeps what it committed: crashes may make the kernel sign twice
\* for one position, but no two clients are ever sent different receipts for it.
AckedPositionsUnique ==
  \A r, s \in acked : r.seq = s.seq => r = s

\* Nobody holds the receipt the log waits for, and the kernel is past it: every
\* request will be answered 500.
Wedged ==
  /\ up
  /\ Len(log) < kernel.sequence
  /\ \A c \in Client : phase[c] = "append" => ~InOrder(log, held[c])

\* Once one signed receipt is dropped, no request is served until the process
\* is restarted: the log cannot grow and the state cannot heal.
WedgeIsPermanent ==
  [][Wedged /\ up' => Wedged' /\ log' = log]_vars

\* The host keeps the promise of AuditLog.
Audit == INSTANCE AuditLog WITH
           chain <- log, acked <- acked,
           TailLoss <- ~Sqlite \/ "power" \in Faults
ImplementsAuditLog == Audit!ASpec

\* api.rs:524 "The minted receipt is immediately appended to the log and
\* fetchable": every signed receipt is in the log, or a handler is about to
\* append it.
EveryMintIsAppended ==
  \A r \in minted :
    r \in ToSet(log) \/ \E c \in Client : phase[c] = "append" /\ held[c] = r

\* store-sqlite/lib.rs:176 "you lose at most the last few milliseconds on a
\* power loss, and *that* is what the chain check catches anyway": where a
\* receipt that was acknowledged is gone, the chain does not verify.
LossIsCaught == acked \subseteq ToSet(log) \/ ~VerifyChain(log)

\* Every request that reaches the kernel is answered or given up.
EveryRequestEnds == \A c \in Client : phase[c] # "idle" ~> phase[c] = "idle"

-----------------------------------------------------------------------------
(* The inductive invariant behind ChainSound and OnlyOrderIsRefused.  The  *)
(* hashes behind the kernel, kernel.prev_hash, spell out every receipt it  *)
(* signed since genesis: the log and all receipts in flight lie on them.   *)

HashesUpTo(n) == SubSeq(kernel.prev_hash, 1, n)

\* A stopped process has no handlers, and a handler has what its phase needs.
HandlersReady ==
  \A c \in Client :
    /\ ~up => phase[c] = "idle"
    /\ phase[c] = "kernel" => event[c] \in Event /\ Admits(event[c])
    /\ phase[c] \in {"append", "reply"} => held[c] \in Receipt

LogOnChain ==
  /\ \A i \in 1 .. Len(log) : Len(log[i].leaf) = i
  /\ up => /\ Len(kernel.prev_hash) = kernel.sequence
           /\ Len(log) <= kernel.sequence
           /\ HeadLeaf(log) = HashesUpTo(Len(log))

HeldOnChain ==
  \A c \in Client : phase[c] = "append" =>
    /\ Len(log) <= held[c].seq
    /\ held[c].seq < kernel.sequence
    /\ held[c].prev = HashesUpTo(held[c].seq)
    /\ held[c].leaf = HashesUpTo(held[c].seq + 1)

\* Within one run of the process no position is signed twice.
HeldPositionsUnique ==
  \A c, d \in Client :
    phase[c] = "append" /\ phase[d] = "append" /\ c # d =>
      held[c].seq # held[d].seq

ChainInv ==
  /\ TypeOK
  /\ ChainSound
  /\ HandlersReady
  /\ LogOnChain
  /\ HeldOnChain
  /\ HeldPositionsUnique

(* And behind CitationsGrounded and PolicyHolds: what the kernel is asked    *)
(* about is in the log until it answers, and what it signs is lawful.        *)

\* While a handler waits for the kernel, the receipt it looked up stays.
EventsGrounded ==
  \A c \in Client : phase[c] = "kernel" =>
    /\ event[c].kind = "resolve" => event[c].pending \in ToSet(log)
    /\ event[c].kind = "tool" => event[c].allowed \in ToSet(log)

Grounded(r) ==
  r.cites # ZeroDigest => \E p \in ToSet(log) : p.leaf = r.cites /\ Authorizes(p, r)

\* Nothing a deny rule matches is ever put before an operator, either.
Lawful(r) ==
  /\ WithinPolicy(r)
  /\ r.decision = "Pending" => MatchedRules(r.action) \cap DenyRule = {}

PolicyInv ==
  /\ ChainInv
  /\ CitationsGrounded
  /\ EventsGrounded
  /\ \A c \in Client : phase[c] = "append" => Grounded(held[c]) /\ Lawful(held[c])
  /\ \A i \in 1 .. Len(log) : Lawful(log[i])
=============================================================================
