------------------------------ MODULE WriteApi ------------------------------
(***************************************************************************)
(* What a host answers to a POST: the checks of the handler in their       *)
(* order, those of the kernel's gate in theirs, and the answer.  One       *)
(* request at a time; module Host has what several do to one another.      *)
(* k and v are the key and the version of the host, found is the receipt   *)
(* that its log has under the id of the request, or None; r is what the    *)
(* kernel signs if it does, and end says whether the log takes it or even  *)
(* the kernel is out of reach.                                             *)
(*                                                                         *)
(* A hash in a request is "hash", or Malformed if it does not decode.      *)
(***************************************************************************)
EXTENDS ReadApi, Hex

CONSTANT Tool   \* actions whose kind starts with "tool."

ASSUME ToolAssumption == Tool \subseteq Action

\* ReceiptResponse.  A URL is the content id it leads to.
ReceiptResponse ==
  [decision : Decision, content_id : Receipt, receipt_url : Receipt, issuer : Signer,
   sequence : Nat, schema_version : Format]

\* receipt_response
Reply(r) ==
  [decision |-> r.body.decision, content_id |-> r.body, receipt_url |-> r.body,
   issuer |-> r.issuer, sequence |-> r.body.seq, schema_version |-> r.version]

Answered(r) == [status |-> 200, body |-> Reply(r)]

\* ApiError and the middleware's 401, with their status.
StatusOf ==
  [bad_request |-> 400, unauthorized |-> 401, not_found |-> 404, conflict |-> 409, internal |-> 500]

ApiError == DOMAIN StatusOf
ErrorBody == [error : ApiError, detail : {None}]
ErrorAnswer(code) == [status |-> StatusOf[code], body |-> [error |-> code, detail |-> None]]

\* unauthorized
Unauthorized == ErrorAnswer("unauthorized")

Hashes == {"hash", Malformed}

ProposeRequest == [input_hash : Hashes]

ResolveApprovalRequest == [content_id : Hashes, outcome : {"Approved", "Denied"}]

ToolExecutionRequest ==
  [allowed_receipt_id : Hashes, output_hash : Hashes \cup {None},
   error : {"message", None}, redaction : Hashes \cup {None}]

-----------------------------------------------------------------------------
(* The gates of the kernel, for an event whose proposal is of this action. *)

ApprovalRejection(k, v, r, action) ==
  IF ~Verifies(r, v) THEN "PendingSignatureInvalid"
  ELSE IF r.issuer # k THEN "PendingIssuerMismatch"
  ELSE IF r.body.decision # "Pending" THEN "NotAPendingReceipt"
  ELSE IF action # r.body.action THEN "ActionMismatch"
  ELSE "None"

ToolExecutionRejection(k, v, r, action) ==
  IF ~Verifies(r, v) THEN "AllowedSignatureInvalid"
  ELSE IF r.issuer # k THEN "AllowedIssuerMismatch"
  ELSE IF r.body.decision # "Allowed" THEN "NotAnAllowedReceipt"
  ELSE IF r.body.action \notin Tool THEN "NotAToolAction"
  ELSE IF action # r.body.action THEN "ActionMismatch"
  ELSE "None"

\* map_kernel_error: both kinds of KernelError.
MapKernelError(rejection) == IF rejection = "None" THEN "None" ELSE "conflict"

-----------------------------------------------------------------------------
(* The handlers.                                                           *)

\* What post_resolve_approval refuses before it asks the kernel.
ResolveRefusal(req, found) ==
  IF req.content_id = Malformed THEN "bad_request"
  ELSE IF found = None THEN "not_found"
  ELSE IF found.body.decision # "Pending" THEN "conflict"
  ELSE "None"

\* What post_tool_execution refuses before it asks the kernel.
ToolRefusal(req, found) ==
  IF req.allowed_receipt_id = Malformed THEN "bad_request"
  ELSE IF (req.output_hash # None) = (req.error # None) THEN "bad_request"
  ELSE IF found = None THEN "not_found"
  ELSE IF found.body.decision # "Allowed" \/ found.body.action \notin Tool THEN "conflict"
  ELSE IF Malformed \in {req.output_hash, req.redaction} THEN "bad_request"
  ELSE "None"

\* How far an event can get: no further than the mutex of the kernel, which an earlier
\* panic has poisoned; to a receipt that the log does not take; or into the log.
End == {"poisoned", "lost", "logged"}

\* What handle_event makes of an event: the kernel refuses it, or signs r, which
\* the log appends or refuses.
HandleEvent(rejection, end, r) ==
  IF end = "poisoned" THEN ErrorAnswer("internal")
  ELSE IF rejection # "None" THEN ErrorAnswer(MapKernelError(rejection))
  ELSE IF end = "lost" THEN ErrorAnswer("internal")
  ELSE Answered(r)

PostProposal(req, end, r) ==
  IF req.input_hash = Malformed THEN ErrorAnswer("bad_request")
  ELSE HandleEvent("None", end, r)

PostResolveApproval(k, v, req, found, end, r) ==
  IF ResolveRefusal(req, found) # "None" THEN ErrorAnswer(ResolveRefusal(req, found))
  ELSE HandleEvent(ApprovalRejection(k, v, found, found.body.action), end, r)

PostToolExecution(k, v, req, found, end, r) ==
  IF ToolRefusal(req, found) # "None" THEN ErrorAnswer(ToolRefusal(req, found))
  ELSE HandleEvent(ToolExecutionRejection(k, v, found, found.body.action), end, r)

=============================================================================
