------------------------------- MODULE Store -------------------------------
(***************************************************************************)
(* SqliteReceiptLog: one database file, opened by any number of            *)
(* boardproof-host processes, each with the length and the last leaf it    *)
(* keeps in memory.  Every SQL statement is a transaction of its own, so   *)
(* another process may run between any two statements of `open`.  The      *)
(* validation of `append` and its INSERT are one step: what comes before   *)
(* the INSERT reads only the process's own memory.                         *)
(*                                                                         *)
(* The steps of a process:                                                 *)
(*                                                                         *)
(*   "peek"            peek_issuer, before the log is opened               *)
(*   "version", "issuer"                                                   *)
(*                     the pin of this name is read, and set if absent;    *)
(*                     one pin stands for the two versions, which          *)
(*                     check_or_set_meta_u32 settles one after the other   *)
(*   "count", "head"   COUNT, then the row with the largest position       *)
(*   "resume"          build_kernel_from_log                               *)
(*   "serve"           the process answers requests                        *)
(*                                                                         *)
(* Unlike in Host, receipts carry their version, issuer and signature, so  *)
(* that rows edited on disk can be told from rows that were appended.      *)
(***************************************************************************)
EXTENDS Receipts, FiniteSets

CONSTANTS
  Process,    \* processes that may use the database
  Key,        \* the keys of operators; the public and the private half are one here
  Stranger,   \* the key of somebody who runs none of the processes
  Version,    \* RECEIPT_FORMAT_VERSION and SCHEMA_VERSION of the builds
  Format,     \* the versions that an envelope can name
  Work,       \* actions that clients propose
  Outside,    \* receipts from elsewhere, also of another log of the same key, that an
              \* editor may put into the file
  Offered,    \* those of them that a caller may offer to the log
  MaxSigned,  \* bound on the receipts that kernels sign
  MaxFaults,  \* bound on the edits of the file and the failing statements together
  None        \* no pin, no receipt

VARIABLES
  meta,    \* the table meta: pin |-> value or None
  rows,    \* the table receipts: sequence |-> content id and body_json
  step,    \* process |-> how far it is
  absent,  \* process |-> did it find the pin of its step missing?
  mode,    \* process |-> with or without --constitution
  key,     \* process |-> the issuer it opens the log for
  build,   \* process |-> its version
  len,     \* process |-> cached_len
  leaf,    \* process |-> cached_last_leaf_hash (ZeroDigest for None)
  kernel,  \* process |-> the KernelState it resumed
  held,    \* process |-> the receipt about to be appended, or None
  signed,  \* history: every receipt a kernel signed
  acked,   \* history: every receipt for which append returned Ok
  edits,   \* edits of the file so far
  errors   \* statements that failed so far, other than by a constraint

database == <<meta, rows>>
session  == <<absent, mode, key, build>>
cache    == <<len, leaf>>
history  == <<signed, acked, edits, errors>>
vars == <<database, step, session, cache, kernel, held, history>>

Pin == {"version", "issuer"}

\* The step after the one that settles pin m.
Following(m) == IF m = "version" THEN "issuer" ELSE "count"

Step == Pin \cup {"down", "peek", "count", "head", "resume", "serve"}
Opened == {"resume", "serve"}

-----------------------------------------------------------------------------
(* Signed receipts.                                                        *)

Signer == Key \cup {Stranger}

Envelope ==
  [version : Format, issuer : Signer, body : Receipt, sig : [by : Signer, over : Receipt]]

\* crypto::sign.  The signature covers the body, not the version beside it.
Sign(v, k, body) ==
  [version |-> v, issuer |-> k, body |-> body, sig |-> [by |-> k, over |-> body]]

\* Faulty Verifies: the signature of a receipt is taken for granted.
VersionOnly(r, v) == r.version <= v

\* crypto::verify by a build of version v.
Verifies(r, v) ==
  /\ r.version <= v
  /\ r.sig = [by |-> r.issuer, over |-> r.body]

\* A row: the content id covers the body alone; a blob is None when it does not
\* decode.
Row(r) == [id |-> r.body, blob |-> r]

Positions == DOMAIN rows
LastPosition == CHOOSE i \in Positions : \A j \in Positions : j <= i
LastRow == IF Positions = {} THEN None ELSE rows[LastPosition].blob

-----------------------------------------------------------------------------
ASSUME StoreAssumption ==
  /\ Stranger \notin Key
  /\ None \notin Signer \cup Format \cup Envelope
  /\ Version \subseteq Format
  /\ Format \subseteq Nat
  /\ Work \subseteq Action
  /\ Outside \subseteq Envelope
  /\ IsFiniteSet(Outside)
  /\ Offered \subseteq Outside
  /\ MaxSigned \in Nat
  /\ MaxFaults \in Nat

Init ==
  /\ meta = [m \in Pin |-> None]
  /\ rows = [i \in {} |-> None]
  /\ step = [p \in Process |-> "down"]
  /\ absent = [p \in Process |-> FALSE]
  /\ mode = [p \in Process |-> None]
  /\ key = [p \in Process |-> None]
  /\ build = [p \in Process |-> None]
  /\ len = [p \in Process |-> 0]
  /\ leaf = [p \in Process |-> ZeroDigest]
  /\ kernel = [p \in Process |-> Genesis]
  /\ held = [p \in Process |-> None]
  /\ signed = {}
  /\ acked = {}
  /\ edits = 0
  /\ errors = 0

\* The process ends, or refuses to start: nothing it kept in memory is left.
Stop(p) ==
  /\ step' = [step EXCEPT ![p] = "down"]
  /\ absent' = [absent EXCEPT ![p] = FALSE]
  /\ mode' = [mode EXCEPT ![p] = None]
  /\ key' = [key EXCEPT ![p] = None]
  /\ build' = [build EXCEPT ![p] = None]
  /\ len' = [len EXCEPT ![p] = 0]
  /\ leaf' = [leaf EXCEPT ![p] = ZeroDigest]
  /\ kernel' = [kernel EXCEPT ![p] = Genesis]
  /\ held' = [held EXCEPT ![p] = None]
  /\ UNCHANGED <<database, history>>

Move(p, s) == step' = [step EXCEPT ![p] = s]

(* Starting.                                                               *)

\* main: k is the signing key in proposal mode, and what the environment
\* names as issuer in read-only mode.
Start(p) ==
  /\ step[p] = "down"
  /\ \E k \in Key, v \in Version, m \in {"proposal", "readonly"} :
       /\ key' = [key EXCEPT ![p] = k]
       /\ build' = [build EXCEPT ![p] = v]
       /\ mode' = [mode EXCEPT ![p] = m]
  /\ Move(p, "peek")
  /\ UNCHANGED <<database, absent, cache, kernel, held, history>>

ForeignDatabase(p) ==
  /\ mode[p] = "proposal"
  /\ meta["issuer"] \notin {None, key[p]}

\* peek_issuer: a foreign database is refused; without a key of its own the
\* process takes over the issuer that is pinned.
Peek(p) ==
  /\ step[p] = "peek"
  /\ ~ForeignDatabase(p)
  /\ key' = [key EXCEPT ![p] = IF mode[p] = "readonly" /\ meta["issuer"] # None
                               THEN meta["issuer"] ELSE @]
  /\ Move(p, "version")
  /\ UNCHANGED <<database, absent, mode, build, cache, kernel, held, history>>

PeekRefused(p) == step[p] = "peek" /\ ForeignDatabase(p) /\ Stop(p)

(* open_inner.                                                             *)

Expected(p, m) == IF m = "issuer" THEN key[p] ELSE build[p]

\* The pin is there and is what this process expects ...
PinAgrees(p) ==
  /\ step[p] \in Pin
  /\ ~absent[p]
  /\ meta[step[p]] = Expected(p, step[p])
  /\ Move(p, Following(step[p]))
  /\ UNCHANGED <<database, session, cache, kernel, held, history>>

\* ... or differs (UnsupportedSchema, IssuerMismatch ...) ...
PinDiffers(p) ==
  /\ step[p] \in Pin
  /\ ~absent[p]
  /\ meta[step[p]] \notin {None, Expected(p, step[p])}
  /\ Stop(p)

\* ... or is missing: the database is fresh.
PinMissing(p) ==
  /\ step[p] \in Pin
  /\ ~absent[p]
  /\ meta[step[p]] = None
  /\ absent' = [absent EXCEPT ![p] = TRUE]
  /\ UNCHANGED <<database, step, mode, key, build, cache, kernel, held, history>>

\* Faulty InsertPin: INSERT OR REPLACE.
ReplacePin(p) ==
  /\ step[p] \in Pin
  /\ absent[p]
  /\ meta' = [meta EXCEPT ![step[p]] = Expected(p, step[p])]
  /\ absent' = [absent EXCEPT ![p] = FALSE]
  /\ Move(p, Following(step[p]))
  /\ UNCHANGED <<rows, mode, key, build, cache, kernel, held, history>>

\* INSERT INTO meta.
InsertPin(p) ==
  /\ step[p] \in Pin
  /\ absent[p]
  /\ meta[step[p]] = None
  /\ meta' = [meta EXCEPT ![step[p]] = Expected(p, step[p])]
  /\ absent' = [absent EXCEPT ![p] = FALSE]
  /\ Move(p, Following(step[p]))
  /\ UNCHANGED <<rows, mode, key, build, cache, kernel, held, history>>

\* The primary key of meta rejects the second of two racing INSERTs.
InsertPinFails(p) ==
  /\ step[p] \in Pin
  /\ absent[p]
  /\ meta[step[p]] # None
  /\ Stop(p)

\* SELECT COUNT(*)
Count(p) ==
  /\ step[p] = "count"
  /\ len' = [len EXCEPT ![p] = Cardinality(Positions)]
  /\ Move(p, IF Positions = {} THEN "resume" ELSE "head")
  /\ UNCHANGED <<database, session, leaf, kernel, held, history>>

\* SELECT body_json ... ORDER BY sequence DESC LIMIT 1
ReadHead(p) ==
  /\ step[p] = "head"
  /\ LastRow # None
  /\ leaf' = [leaf EXCEPT ![p] = LastRow.body.leaf]
  /\ Move(p, "resume")
  /\ UNCHANGED <<database, session, len, kernel, held, history>>

\* No row any more, or one that does not decode.
ReadHeadFails(p) == step[p] = "head" /\ LastRow = None /\ Stop(p)

\* SqliteReceiptLog::last, where a failing read is no receipt.
LogLast(p) == IF len[p] = 0 THEN None ELSE LastRow

\* build_kernel_from_log; a read-only process has no kernel.
ResumeWith(p, last) ==
  /\ step[p] = "resume"
  /\ kernel' = [kernel EXCEPT ![p] =
       IF mode[p] = "readonly" \/ last = None THEN Genesis ELSE ResumeFrom(<<last.body>>)]
  /\ Move(p, "serve")
  /\ UNCHANGED <<database, session, cache, held, signed, acked, edits>>

Resume(p) == ResumeWith(p, LogLast(p)) /\ UNCHANGED errors

\* The SELECT of `last` fails, and nobody is told.
ResumeUnread(p) ==
  /\ edits + errors < MaxFaults
  /\ errors' = errors + 1
  /\ mode[p] = "proposal"
  /\ LogLast(p) # None
  /\ ResumeWith(p, None)

(* Serving.                                                                *)

Writer(p) == step[p] = "serve" /\ mode[p] = "proposal"

\* The kernel of p decides on an action and signs.
SignAction(p, a) ==
  /\ Writer(p)
  /\ held[p] = None
  /\ Cardinality(signed) < MaxSigned
  /\ \E at \in Time :
       LET r == Sign(build[p], key[p],
                     Minted(kernel[p], at, a, "Allowed", {}, ZeroDigest)) IN
         /\ held' = [held EXCEPT ![p] = r]
         /\ signed' = signed \cup {r}
         /\ kernel' = [kernel EXCEPT ![p] = Advance(kernel[p], r.body.leaf)]
  /\ UNCHANGED <<database, step, session, cache, acked, edits, errors>>

\* A caller offers a receipt it got elsewhere, perhaps for the second time.
Offer(p) ==
  /\ Writer(p)
  /\ held[p] = None
  /\ \E r \in acked \cup Offered : held' = [held EXCEPT ![p] = r]
  /\ UNCHANGED <<database, step, session, cache, kernel, history>>

\* Faulty Extends: the signature is not checked.
ExtendsUnsigned(p, r) ==
  /\ r.version = build[p]
  /\ r.issuer = key[p]
  /\ r.body.seq = len[p]
  /\ r.body.prev = leaf[p]

\* The checks of append: version, issuer, position, link, signature.
Extends(p, r) ==
  /\ r.version = build[p]
  /\ r.issuer = key[p]
  /\ r.body.seq = len[p]
  /\ r.body.prev = leaf[p]
  /\ Verifies(r, build[p])

\* Faulty Insertable: INSERT OR REPLACE.
AlwaysInsertable(r) == TRUE

\* The primary key on the position and the unique index on the content id.
Insertable(r) ==
  /\ r.body.seq \notin Positions
  /\ \A i \in Positions : rows[i].id # r.body

AppendRow(p) ==
  /\ Writer(p)
  /\ held[p] # None
  /\ Extends(p, held[p])
  /\ Insertable(held[p])
  /\ rows' = [i \in Positions \cup {held[p].body.seq} |->
                IF i = held[p].body.seq THEN Row(held[p]) ELSE rows[i]]
  /\ len' = [len EXCEPT ![p] = @ + 1]
  /\ leaf' = [leaf EXCEPT ![p] = held[p].body.leaf]
  /\ acked' = acked \cup {held[p]}
  /\ held' = [held EXCEPT ![p] = None]
  /\ UNCHANGED <<meta, step, session, kernel, signed, edits, errors>>

\* Faulty AppendFails: the cache moves on before the INSERT.
AppendFailsCounted(p) ==
  /\ Writer(p)
  /\ held[p] # None
  /\ ~(Extends(p, held[p]) /\ Insertable(held[p]))
  /\ held' = [held EXCEPT ![p] = None]
  /\ len' = [len EXCEPT ![p] = @ + 1]
  /\ UNCHANGED <<database, step, session, leaf, kernel, history>>

\* append returns an error, and its caller drops the receipt.
AppendFails(p) ==
  /\ Writer(p)
  /\ held[p] # None
  /\ ~(Extends(p, held[p]) /\ Insertable(held[p]))
  /\ held' = [held EXCEPT ![p] = None]
  /\ UNCHANGED <<database, step, session, cache, kernel, history>>

\* So it does for a receipt in order when the disk is full or the database busy.
InsertFails(p) ==
  /\ edits + errors < MaxFaults
  /\ errors' = errors + 1
  /\ Writer(p)
  /\ held[p] # None
  /\ Extends(p, held[p])
  /\ Insertable(held[p])
  /\ held' = [held EXCEPT ![p] = None]
  /\ UNCHANGED <<database, step, session, cache, kernel, signed, acked, edits>>

Exit(p) == step[p] # "down" /\ Stop(p)

(* The file is edited behind the processes' backs.                         *)

Edit(table) ==
  /\ edits + errors < MaxFaults
  /\ edits' = edits + 1
  /\ rows' = table
  /\ UNCHANGED <<meta, step, session, cache, kernel, held, signed, acked, errors>>

WithBlob(i, blob) == [rows EXCEPT ![i].blob = blob]

\* rules are what the leaf hash does not cover, and neither id nor signature
\* is recomputed.
AlterBody(i) ==
  \E rs \in SUBSET Rule :
    /\ rows[i].blob # None
    /\ rs # rows[i].blob.body.rules
    /\ Edit(WithBlob(i, [rows[i].blob EXCEPT !.body.rules = rs]))

\* The version of the envelope is covered by neither.
AlterVersion(i) ==
  \E v \in Format :
    /\ rows[i].blob # None
    /\ v # rows[i].blob.version
    /\ Edit(WithBlob(i, [rows[i].blob EXCEPT !.version = v]))

DeleteRow(i) == Edit([j \in Positions \ {i} |-> rows[j]])

SwapBodies(i, j) ==
  Edit([rows EXCEPT ![i].blob = rows[j].blob, ![j].blob = rows[i].blob])

Garble(i) == rows[i].blob # None /\ Edit(WithBlob(i, None))

\* A well-made replacement, by somebody with a key of his own.
Reissue(i) ==
  \E rs \in SUBSET Rule :
    /\ rows[i].blob # None
    /\ Edit([rows EXCEPT ![i] =
         Row(Sign(rows[i].blob.version, Stranger, [rows[i].blob.body EXCEPT !.rules = rs]))])

\* A receipt that was appended before, or one of another log, perhaps of the same key.
InsertRow(i) ==
  \E r \in acked \cup Outside :
    /\ i \notin Positions
    /\ \A j \in Positions : rows[j].id # r.body
    /\ Edit([j \in Positions \cup {i} |-> IF j = i THEN Row(r) ELSE rows[j]])

EditFile ==
  \/ \E i \in Positions :
       AlterBody(i) \/ AlterVersion(i) \/ DeleteRow(i) \/ Garble(i) \/ Reissue(i)
         \/ \E j \in Positions : i < j /\ SwapBodies(i, j)
  \/ \E i \in 0 .. Cardinality(Positions) : InsertRow(i)

-----------------------------------------------------------------------------
Open(p) ==
  \/ Start(p) \/ Peek(p) \/ PeekRefused(p)
  \/ PinAgrees(p) \/ PinDiffers(p) \/ PinMissing(p) \/ InsertPin(p) \/ InsertPinFails(p)
  \/ Count(p) \/ ReadHead(p) \/ ReadHeadFails(p)
  \/ Resume(p) \/ ResumeUnread(p)

Serve(p) ==
  \/ \E a \in Work : SignAction(p, a)
  \/ Offer(p) \/ AppendRow(p) \/ AppendFails(p) \/ InsertFails(p)

Next == (\E p \in Process : Open(p) \/ Serve(p) \/ Exit(p)) \/ EditFile

Spec == Init /\ [][Next]_vars
=============================================================================
