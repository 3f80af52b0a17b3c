------------------------------- MODULE Sleep -------------------------------
(***************************************************************************)
(* Light and deep sleep of a process that keeps its log in Store.  A pass  *)
(* runs its cleaners or walkers one after another and goes on when one of  *)
(* them fails; then the kernel signs one receipt that sums the pass up.    *)
(* Each walker is a ReceiptLogWalker over the log of the process.          *)
(*                                                                         *)
(* While a pass runs, the process does nothing else with its log (the      *)
(* walkers borrow it), but other processes go on.  What a cleaner does is  *)
(* its own business: its outcome is any.                                   *)
(***************************************************************************)
EXTENDS Store

CONSTANTS
  Members,    \* how many cleaners or walkers are registered
  MaxCleaned, \* bound on the rows a cleaner reports
  MaxPasses   \* bound on the passes

VARIABLES
  pass,   \* process |-> the pass under way, or None
  passes  \* passes begun so far

svars == <<vars, pass, passes>>

Succeeded(n) == [ok |-> TRUE, items |-> n]
Failed == [ok |-> FALSE, items |-> 0]

\* SqliteReceiptLog::verify_chain by a build of version v: the rows in order
\* of their positions carry the positions 0, 1, ..., link, and verify.
RowsBelow(i) == {j \in Positions : j < i}
LeafBelow(i) ==
  IF RowsBelow(i) = {}
  THEN ZeroDigest
  ELSE rows[CHOOSE j \in RowsBelow(i) : \A h \in RowsBelow(i) : h <= j].blob.body.leaf

RowVerifies(i, v) ==
  LET r == rows[i].blob IN
    /\ r # None
    /\ r.body.seq = Cardinality(RowsBelow(i))
    /\ r.body.prev = LeafBelow(i)
    /\ Verifies(r, v)

AllRowsVerify(v) ==
  /\ \A i \in Positions : rows[i].blob # None
  /\ \A i \in Positions : RowVerifies(i, v)

\* Faulty WalkOutcome: the walker also compares the cached length.
CountingWalk(p) ==
  IF AllRowsVerify(build[p]) /\ len[p] = Cardinality(Positions)
  THEN Succeeded(len[p]) ELSE Failed

\* ReceiptLogWalker::walk.  What it reports as walked is the cached length.
WalkOutcome(p) == IF AllRowsVerify(build[p]) THEN Succeeded(len[p]) ELSE Failed

FailedCount(done) == Cardinality({n \in 1 .. Len(done) : ~done[n].ok})
Items(done) == [n \in 1 .. Len(done) |-> IF done[n].ok THEN done[n].items ELSE 0]
ItemsTotal(done) == SumFunctionOnSet(Items(done), 1 .. Len(done))

\* The target of the receipt: cleaners= / walkers=, rows= / items=, failed=.
Summary(kind, done) ==
  [sleep |-> kind, members |-> Len(done), failed |-> FailedCount(done),
   items |-> ItemsTotal(done)]

\* At most this many rows are cleaned or walked by one member.
MaxItems == MaxCleaned + MaxSigned + MaxFaults + Cardinality(Outside)

SleepAction ==
  [sleep : {"light", "deep"}, members : {Members}, failed : 0 .. Members,
   items : 0 .. Members * MaxItems]

-----------------------------------------------------------------------------
ASSUME SleepAssumption ==
  /\ Members \in Nat
  /\ MaxCleaned \in Nat
  /\ SleepAction \subseteq Action

SInit == Init /\ pass = [p \in Process |-> None] /\ passes = 0

BeginPass(p) ==
  /\ Writer(p)
  /\ held[p] = None
  /\ pass[p] = None
  /\ passes < MaxPasses
  /\ passes' = passes + 1
  /\ \E kind \in {"light", "deep"} :
       pass' = [pass EXCEPT ![p] = [kind |-> kind, done |-> << >>]]
  /\ UNCHANGED vars

\* Faulty MemberRuns: nobody notices that all members have run.
MemberRunsAgain(p, kind, outcome) ==
  /\ pass[p] # None
  /\ pass[p].kind = kind
  /\ pass' = [pass EXCEPT ![p].done = Append(@, outcome)]
  /\ UNCHANGED passes

\* The next member of a pass of this kind runs, with this outcome.
MemberRuns(p, kind, outcome) ==
  /\ pass[p] # None
  /\ pass[p].kind = kind
  /\ Len(pass[p].done) < Members
  /\ pass' = [pass EXCEPT ![p].done = Append(@, outcome)]
  /\ UNCHANGED passes

\* run_light_sleep: a cleaner runs; a failure is recorded, not propagated.
Clean(p) ==
  /\ \E o \in {Failed} \cup {Succeeded(n) : n \in 0 .. MaxCleaned} :
       MemberRuns(p, "light", o)
  /\ UNCHANGED vars

\* run_deep_sleep: a walker runs.
Walk(p) == MemberRuns(p, "deep", WalkOutcome(p)) /\ UNCHANGED vars

\* The SELECT of verify_chain fails, which counts as a bad signature.
WalkUnread(p) ==
  /\ edits + errors < MaxFaults
  /\ MemberRuns(p, "deep", Failed)
  /\ errors' = errors + 1
  /\ UNCHANGED <<database, step, session, cache, kernel, held, signed, acked, edits>>

\* handle_light_sleep, handle_deep_sleep: one receipt for the whole pass.
ReportPass(p) ==
  /\ pass[p] # None
  /\ Len(pass[p].done) = Members
  /\ SignAction(p, Summary(pass[p].kind, pass[p].done))
  /\ pass' = [pass EXCEPT ![p] = None]
  /\ UNCHANGED passes

Asleep(p) ==
  BeginPass(p) \/ Clean(p) \/ Walk(p) \/ WalkUnread(p) \/ ReportPass(p)

\* The process ends in the middle of a pass, or without one.
ExitAsleep(p) ==
  /\ Exit(p)
  /\ pass' = [pass EXCEPT ![p] = None]
  /\ UNCHANGED passes

Awake(p) ==
  /\ Open(p) \/ (pass[p] = None /\ Serve(p))
  /\ UNCHANGED <<pass, passes>>

SNext ==
  \/ \E p \in Process : Awake(p) \/ Asleep(p) \/ ExitAsleep(p)
  \/ EditFile /\ UNCHANGED <<pass, passes>>

SSpec == SInit /\ [][SNext]_svars

-----------------------------------------------------------------------------
(* Properties.                                                             *)

\* Every variable has its type.
STypeOK ==
  /\ meta \in [Pin -> Version \cup Key \cup {None}]
  /\ \A i \in Positions : i \in Nat /\ rows[i].blob \in Envelope \cup {None}
  /\ step \in [Process -> Step]
  /\ absent \in [Process -> BOOLEAN]
  /\ mode \in [Process -> {"proposal", "readonly", None}]
  /\ key \in [Process -> Key \cup {None}]
  /\ build \in [Process -> Version \cup {None}]
  /\ len \in [Process -> Nat]
  /\ leaf \in [Process -> Digest]
  /\ kernel \in [Process -> KernelState]
  /\ held \in [Process -> Envelope \cup {None}]
  /\ signed \subseteq Envelope
  /\ acked \subseteq Envelope
  /\ \A p \in Process : pass[p] # None => Len(pass[p].done) \in 0 .. Members

\* However many processes open, write and leave the database, also at the same
\* time and with caches that have gone stale: until somebody edits the file it
\* holds one sound chain without gaps, and verify_chain says so.
OneChain ==
  edits = 0 =>
    /\ Positions = 0 .. Cardinality(Positions) - 1
    /\ AllRowsVerify(meta["version"])

\* Two processes that race to pin a fresh database never both get through with
\* different pins: whoever has the log open has it open for the one issuer, and
\* every receipt in it is that issuer's.
OneIssuer ==
  /\ \A p \in Process : step[p] \in Opened \cup {"count", "head"} =>
       /\ key[p] = meta["issuer"]
       /\ build[p] = meta["version"]
  /\ edits = 0 => \A i \in Positions : rows[i].blob.issuer = meta["issuer"]

\* No operation of any process ever changes a row, removes one, or moves a pin.
RowsAreForever ==
  [][/\ edits' = edits => \A i \in DOMAIN rows :
          i \in DOMAIN rows' /\ rows'[i] = rows[i]
     /\ \A m \in Pin : meta[m] # None => meta'[m] = meta[m]]_svars

\* While nobody edits the file, a deep sleep reports no more failures than
\* statements have failed, even if another process appends between two of its
\* statements or if the log of the process itself has fallen behind.
NoFalseAlarm ==
  edits = 0 =>
    \A r \in signed :
      r.body.action \in SleepAction /\ r.body.action.sleep = "deep" =>
        r.body.action.failed <= errors

\* The bodies of receipts that append took here, and of others out of reach of this
\* database, that the key k signed.
SignedBodies(k) == {r.sig.over : r \in {a \in acked \cup Outside : a.sig.by = k}}

\* However the file was edited, also more than once, and whatever rows were put in: in a
\* chain that verify_chain passes, the body of a row of the pinned issuer is, bit for bit,
\* one that this key signed, for a receipt for which append returned Ok or for one of
\* another log of the key.  Which of the two, the walk cannot tell.  (The version of the
\* envelope may have been changed for any other that the build knows, and the row need not
\* lie at its position: the signature covers neither.)
VerifiedRowsAreSigned ==
  \A p \in Process : step[p] \in Opened /\ AllRowsVerify(build[p]) =>
    \A i \in Positions :
      rows[i].blob.issuer = meta["issuer"] => rows[i].blob.body \in SignedBodies(meta["issuer"])
=============================================================================
