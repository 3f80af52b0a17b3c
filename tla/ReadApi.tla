------------------------------ MODULE ReadApi ------------------------------
(***************************************************************************)
(* What others see of a log in Store: GET /receipts/{hash} and /healthz of *)
(* a host that has it open, the check of a receipt on its own, and a       *)
(* read-only host that loads the receipts of a directory into memory.      *)
(* None of them has state of its own, so they are operators on the state   *)
(* of Store.                                                               *)
(***************************************************************************)
EXTENDS Store

\* get_by_id, where a row that does not decode is no receipt, and every row is none
\* when the SELECT fails; selects says whether it succeeds.
Stored(id, selects) ==
  LET found == {i \in Positions : rows[i].id = id} IN
    IF selects /\ found # {} THEN rows[CHOOSE i \in found : TRUE].blob ELSE None

\* get_by_sequence, whose SELECT succeeds.
GetBySequence(i) == IF i \in Positions THEN rows[i].blob ELSE None

\* get_receipt: a conditional request that names the hash itself is answered
\* before the log is asked.
GetReceipt(id, ifNoneMatch, selects) ==
  CASE ifNoneMatch = id -> [status |-> 304]
    [] ifNoneMatch # id /\ Stored(id, selects) # None ->
         [status |-> 200, receipt |-> Stored(id, selects)]
    [] OTHER -> [status |-> 404, body |-> [error |-> "receipt_not_found", hash |-> id]]

\* get_healthz
Healthz(p) == [ok |-> TRUE, count |-> len[p]]

\* verify_receipt: the signature under the key in the receipt, and the content
\* id.  The version of the envelope is not looked at.
VerifyReceipt(r) ==
  [ok |-> r.sig = [by |-> r.issuer, over |-> r.body], content_id |-> r.body]

-----------------------------------------------------------------------------
(* load_receipts_dir.                                                      *)

\* Faulty Sorted: the files are taken as the directory lists them.
Unsorted(files) == Bijection(1 .. Cardinality(files), files)

\* sort_by_key: files of the same sequence stay as the directory lists them, which can
\* be in any order.
Sorted(files) ==
  {order \in Bijection(1 .. Cardinality(files), files) :
     \A m, n \in DOMAIN order : m < n => order[m].body.seq <= order[n].body.seq}

\* InMemoryReceiptLog::append by a build of version v.
InMemoryAppend(log, r, v) ==
  IF /\ log # None
     /\ r.version = v
     /\ log # << >> => r.issuer = log[1].issuer
     /\ r.body.seq = Len(log)
     /\ r.body.prev = IF log = << >> THEN ZeroDigest ELSE log[Len(log)].body.leaf
     /\ Verifies(r, v)
  THEN Append(log, r) ELSE None

Load(order, v) == FoldLeft(LAMBDA log, r : InMemoryAppend(log, r, v), << >>, order)

\* What can become of a directory with these files: a log, or None.
LoadReceiptsDir(files, v) == {Load(order, v) : order \in Sorted(files)}

=============================================================================
