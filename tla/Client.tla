------------------------------- MODULE Client -------------------------------
(***************************************************************************)
(* The Python and the TypeScript client, and the offline verifiers they    *)
(* rest on.  A method of a client is one POST, and, unless its caller      *)
(* declines, the GET of the receipt that the answer names, which is then   *)
(* verified.  Neither client has state that changes, so a method is an     *)
(* operator on the answers it gets.                                        *)
(*                                                                         *)
(* An answer is None (no connection), or a status with a body.  A body is  *)
(* the set of its fields with their values, Unreadable or Misshapen; a URL *)
(* is the content id it leads to.  What a method yields is a decision or   *)
(* the name of an error.                                                   *)
(***************************************************************************)
EXTENDS WriteApi

CONSTANTS
  Unreadable,  \* a body that is no JSON
  Misshapen    \* a body that is JSON, but no object with any of the expected fields

Language == {"py", "ts"}

Raised(error) == [kind |-> "raised", error |-> error]
IsRaised(x) == "error" \in DOMAIN x
Decided(kind, id, url) == [kind |-> kind, content_id |-> id, receipt_url |-> url]

Field == {"decision", "content_id", "receipt_url", "issuer", "sequence", "schema_version"}

ASSUME ClientAssumption ==
  /\ Unreadable # Misshapen
  /\ {Unreadable, Misshapen} \cap (ReceiptResponse \cup ErrorBody \cup Envelope) = {}
  /\ None \notin Receipt \cup [status : Nat, body : ReceiptResponse \cup ErrorBody]
                 \cup [status : Nat, receipt : Envelope] \cup Seq(Envelope)

-----------------------------------------------------------------------------
(* The POST.                                                               *)

\* _parse_http_error, #parseError.  Not every refusal has both fields, or a body.
ErrorOf(answer) ==
  IF "body" \notin DOMAIN answer \/ answer.body = Unreadable THEN "non_json_response"
  ELSE IF answer.body = Misshapen \/ ~({"error", "detail"} \subseteq DOMAIN answer.body) THEN "unknown"
  ELSE answer.body.error

PyPost(answer) ==
  IF answer = None THEN Raised("fetch_failed")
  ELSE IF answer.status # 200 THEN Raised(ErrorOf(answer))
  ELSE IF answer.body = Unreadable THEN Raised("JSONDecodeError")
  ELSE IF answer.body = Misshapen THEN Raised("malformed_response")
  ELSE answer.body

\* The answer of fetch is cast, not checked; the first field that is read of a body
\* without fields, or of null, is the URL.
TsPost(answer) ==
  IF answer = None THEN Raised("TypeError")
  ELSE IF answer.status # 200 THEN Raised(ErrorOf(answer))
  ELSE IF answer.body = Unreadable THEN Raised("SyntaxError")
  ELSE IF answer.body = Misshapen THEN Raised("TypeError")
  ELSE answer.body

PyBuildDecision(resp) ==
  IF Field \subseteq DOMAIN resp /\ resp.decision \in Decision
  THEN Decided(resp.decision, resp.content_id, resp.receipt_url)
  ELSE Raised("malformed_response")

\* Reading a field that is not there yields undefined, which only the URL and the
\* decision stumble over.
TsBuildDecision(resp) ==
  IF "receipt_url" \notin DOMAIN resp THEN Raised("TypeError")
  ELSE IF "decision" \notin DOMAIN resp \/ resp.decision \notin Decision THEN Raised("Error")
  ELSE Decided(resp.decision,
               IF "content_id" \in DOMAIN resp THEN resp.content_id ELSE None,
               resp.receipt_url)

Posted(lang, answer) ==
  LET resp == IF lang = "py" THEN PyPost(answer) ELSE TsPost(answer) IN
    IF IsRaised(resp) THEN resp
    ELSE IF lang = "py" THEN PyBuildDecision(resp) ELSE TsBuildDecision(resp)

-----------------------------------------------------------------------------
(* The GET and the verification.                                           *)

Rejected == [ok |-> FALSE, content_id |-> None]

\* boardproof-verify of a build of version v, given the file of a receipt.
VerifyCli(text, v) ==
  IF text \notin {Unreadable, Misshapen} /\ Verifies(text, v) THEN [ok |-> TRUE, content_id |-> text.body]
  ELSE Rejected

\* verify_receipt_json
VerifyJson(text) == IF text \in {Unreadable, Misshapen} THEN Rejected ELSE VerifyReceipt(text)

\* _get: a refused GET is reported like a refused POST.
PyVerifyReceiptUrl(answer) ==
  IF answer = None THEN Raised("fetch_failed")
  ELSE IF answer.status # 200 THEN Raised(ErrorOf(answer))
  ELSE VerifyJson(answer.receipt)

\* Of the client; the method of the package @boardproof/verifier follows.
TsClientVerifyReceiptUrl(answer) ==
  IF answer = None THEN Raised("TypeError")
  ELSE IF answer.status # 200 THEN Raised("fetch_failed")
  ELSE VerifyJson(answer.receipt)

TsVerifyReceiptUrl(answer) ==
  IF answer = None \/ answer.status # 200 THEN Rejected
  ELSE VerifyJson(answer.receipt)

Verified(lang, answer) ==
  IF lang = "py" THEN PyVerifyReceiptUrl(answer) ELSE TsClientVerifyReceiptUrl(answer)

\* Faulty MaybeVerify: any receipt that verifies will do.
MaybeVerifySignature(lang, d, answer) ==
  IF IsRaised(Verified(lang, answer)) THEN Verified(lang, answer)
  ELSE IF Verified(lang, answer).ok THEN d ELSE Raised("BoardProofVerifyError")

\* With verification on: the decision stands if the receipt verifies and is the
\* one the answer named.  What the receipt decides is not looked at.
MaybeVerify(lang, d, answer) ==
  LET result == Verified(lang, answer) IN
    IF IsRaised(result) THEN result
    ELSE IF result.ok /\ result.content_id = d.content_id THEN d
    ELSE Raised("BoardProofVerifyError")

\* A method that only makes sense of decisions of these kinds.
Expecting(kinds, lang, post, get, verify) ==
  LET d == Posted(lang, post) IN
    IF IsRaised(d) THEN d
    ELSE IF d.kind \notin kinds THEN Raised("unexpected")
    ELSE IF verify THEN MaybeVerify(lang, d, get) ELSE d

Evaluate(lang, post, get, verify) == Expecting(Decision, lang, post, get, verify)

ResolveApproval(lang, post, get, verify) ==
  Expecting({"Approved", "Denied"}, lang, post, get, verify)

RecordToolExecution(lang, post, get, verify) ==
  Expecting({"Allowed"}, lang, post, get, verify)

\* get_receipt, which verifies nothing.
PyGetReceipt(answer) ==
  IF answer = None THEN Raised("fetch_failed")
  ELSE IF answer.status # 200 THEN Raised(ErrorOf(answer))
  ELSE IF answer.receipt = Unreadable THEN Raised("JSONDecodeError")
  ELSE IF answer.receipt = Misshapen THEN Raised("malformed_response")
  ELSE answer.receipt

TsGetReceipt(answer) ==
  IF answer = None THEN Raised("TypeError")
  ELSE IF answer.status # 200 THEN Raised("fetch_failed")
  ELSE IF answer.receipt = Unreadable THEN Raised("SyntaxError")
  ELSE answer.receipt

-----------------------------------------------------------------------------
(* Properties.                                                             *)

Served(r) == GetReceipt(r.body, None, TRUE)

\* Until somebody edits the file: every receipt that was ever appended is served
\* by every process that has the database open, also by one whose cached length
\* does not reach it, and both clients accept the answer that announced it, with
\* the receipt's own decision, or raise an error when the SELECT fails; and whatever
\* /healthz of any process counts can be fetched from any other, position by position,
\* and verifies.
AckedIsServed ==
  edits = 0 =>
    /\ \A r \in acked, lang \in Language :
         /\ Evaluate(lang, Answered(r), Served(r), TRUE)
              = Decided(r.body.decision, r.body, r.body)
         /\ Served(r).receipt = r
         /\ IsRaised(Evaluate(lang, Answered(r), GetReceipt(r.body, None, FALSE), TRUE))
    /\ \A p \in Process : \A i \in 0 .. Healthz(p).count - 1 :
         LET r == GetBySequence(i) IN
           /\ r # None
           /\ TsVerifyReceiptUrl(Served(r)) = [ok |-> TRUE, content_id |-> r.body]

\* An in-memory log with exactly these receipts, which form one issuer's chain.
MirrorOf(log, files) ==
  /\ Range(log) = files
  /\ \A n \in DOMAIN log :
       /\ log[n].body.seq = n - 1
       /\ log[n].body.prev = IF n = 1 THEN ZeroDigest ELSE log[n - 1].body.leaf
       /\ log[n].issuer = log[1].issuer
       /\ VerifyReceipt(log[n]).ok

\* The receipts of a database, fetched one by one with either client and saved as
\* files, load into an in-memory log that holds the same chain.  And whatever was
\* signed and is put beside them or in their place, by a host that died before it
\* could append or one that was on another branch: what loads at all is a chain
\* with no file left out.
MirrorAgrees ==
  edits = 0 /\ Positions # {} =>
    LET v == meta["version"]
        files == {PyGetReceipt(GetReceipt(rows[i].id, None, TRUE)) : i \in Positions} IN
      /\ files = {TsGetReceipt(GetReceipt(rows[i].id, None, TRUE)) : i \in Positions}
      /\ LoadReceiptsDir(files, v) = {[n \in 1 .. Cardinality(Positions) |-> rows[n - 1].blob]}
      /\ \A some \in SUBSET (files \cup signed) \ {{}} : \A log \in LoadReceiptsDir(some, v) :
           log # None => MirrorOf(log, some)

(* The pure parts, over bounded inputs.  They depend on no state, so they  *)
(* are looked at in the initial one.                                       *)

\* Receipts of every decision and action; answers to a POST and to a GET, whole, cut,
\* with another decision than that of the receipt they name, of the wrong receipt, or none.
Altered(r, d, a) == Sign(r.version, r.issuer, [r.body EXCEPT !.decision = d, !.action = a])
Samples == Outside \cup {Altered(r, d, a) : r \in Outside, d \in Decision, a \in Work \cup Tool}

Received(doc) == [status |-> 200, receipt |-> doc]

Without(body, f) == [g \in Field \ {f} |-> body[g]]

HostAnswers == {Answered(r) : r \in Samples}

Posts ==
  {None} \cup HostAnswers
    \cup {[status |-> s, body |-> b] : s \in {200, 502}, b \in {Unreadable, Misshapen}}
    \cup {ErrorAnswer(code) : code \in ApiError}
    \cup {[status |-> 200, body |-> [Reply(r) EXCEPT !.decision = d]] : r \in Samples, d \in Decision}
    \cup {[status |-> 200, body |-> Without(Reply(r), f)] : r \in Samples, f \in Field}

Gets ==
  {None, [status |-> 304]} \cup {GetReceipt(r.body, None, FALSE) : r \in Samples}
    \cup {Received(doc) : doc \in Samples \cup {Unreadable, Misshapen}}

Results(lang, post, get) ==
  << Evaluate(lang, post, get, TRUE), ResolveApproval(lang, post, get, TRUE),
     RecordToolExecution(lang, post, get, TRUE) >>

\* The fetched receipt is the one that the decision names, and bears its signature.
Grounded(d, get) ==
  /\ get.status = 200
  /\ get.receipt.body = d.content_id
  /\ VerifyReceipt(get.receipt).ok

\* A decision that a client returns after verification comes with the content id of the
\* receipt it fetched, whose signature holds.  It is the decision of that receipt if the
\* answer to the POST is one that a host gives (receipt_response); that of another answer
\* the clients take unchecked.  And the two clients return the same, unless the answer
\* lacks a field that only the Python client asks for.
DecisionsAlike ==
  \A post \in Posts, get \in Gets, method \in 1 .. 3 :
    LET py == Results("py", post, get)[method]
        ts == Results("ts", post, get)[method]
    IN /\ ~IsRaised(py) => Grounded(py, get) /\ ts = py
       /\ ~IsRaised(ts) => Grounded(ts, get)
       /\ ~IsRaised(ts) /\ post \in HostAnswers => ts.kind = get.receipt.body.decision
       /\ ~IsRaised(ts) /\ IsRaised(py) => ~(Field \subseteq DOMAIN post.body)

\* The receipt that a host of this key and version has under the id of a request.
OwnReceipt(k, v, found, decision) ==
  found # None /\ Verifies(found, v) /\ found.issuer = k /\ found.body.decision = decision

\* A client is told what became of its request: it returns the decision of the receipt
\* that the host signed and logged, and an error below 500 says that nothing was signed.
\* Of an error of 500 it cannot tell whether a receipt was signed and lost or the kernel
\* was never asked.
Understood(inOrder, end, post, result, r) ==
  CASE inOrder /\ end = "logged" -> result = Decided(r.body.decision, r.body, r.body)
    [] inOrder /\ end # "logged" -> post.status = 500 /\ result = Raised("internal")
    [] OTHER -> /\ result = Raised(post.body.error)
                /\ post.status < 500 \/ (end = "poisoned" /\ post.status = 500)

\* A request is in order if its hashes decode and the receipt that it names is the
\* host's own and in the right state.
AnswerUnderstood(k, v, found, end, lang, r) ==
  LET get == Received(r) IN
    /\ \A req \in ProposeRequest :
         LET post == PostProposal(req, end, r) IN
           Understood(req.input_hash # Malformed, end, post, Evaluate(lang, post, get, TRUE), r)
    /\ \A req \in ResolveApprovalRequest :
         LET post == PostResolveApproval(k, v, req, found, end, r) IN
           r.body.decision = req.outcome =>
             Understood(req.content_id # Malformed /\ OwnReceipt(k, v, found, "Pending"),
                        end, post, ResolveApproval(lang, post, get, TRUE), r)
    /\ \A req \in ToolExecutionRequest :
         LET post == PostToolExecution(k, v, req, found, end, r) IN
           r.body.decision = "Allowed" =>
             Understood(/\ Malformed \notin {req.allowed_receipt_id, req.output_hash, req.redaction}
                        /\ (req.output_hash = None) # (req.error = None)
                        /\ OwnReceipt(k, v, found, "Allowed")
                        /\ found.body.action \in Tool,
                        end, post, RecordToolExecution(lang, post, get, TRUE), r)

AnswersUnderstood ==
  \A k \in Key, v \in Version, found \in Samples \cup {None}, end \in End,
     lang \in Language, r \in Samples :
    r.sig = [by |-> r.issuer, over |-> r.body] => AnswerUnderstood(k, v, found, end, lang, r)

\* The verifier of the command line differs from those in Python and TypeScript in
\* the version alone, which it looks at.
CliAgrees ==
  \A text \in Samples \cup {[r EXCEPT !.version = @ + 1] : r \in Samples} \cup {Unreadable, Misshapen}, v \in Version :
    /\ VerifyCli(text, v).ok <=> VerifyJson(text).ok /\ text.version <= v
    /\ VerifyCli(text, v).ok => VerifyCli(text, v).content_id = VerifyJson(text).content_id

\* Whatever answers are lost, cut or mixed up: both clients return what the host
\* decided, or nothing, and know which; no answer of anybody else gets a receipt accepted
\* that its issuer did not sign; and all verifiers accept the same receipts.
ClientsAgree == Init => DecisionsAlike /\ AnswersUnderstood /\ CliAgrees
=============================================================================
