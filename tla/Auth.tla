-------------------------------- MODULE Auth --------------------------------
(***************************************************************************)
(* Bearer authentication of the proposal API: how the host is configured,  *)
(* what the clients send, and the middleware that compares the two.  The   *)
(* flag and the header carry a token as hexadecimal text; a header is its  *)
(* scheme and what follows the space behind it.  All are pure, and the     *)
(* property, over bounded inputs, is looked at in the initial state.       *)
(***************************************************************************)
EXTENDS Client, FiniteSetsExt

CONSTANTS
  Length,     \* octets of a token; 32 in fact
  Octets,     \* values an octet may take here
  Absent      \* no flag, no header, no configuration

\* Characters of a text: digits, and some that are none.
Letter == Range(LowerDigits) \cup Range(UpperDigits) \cup {"x", "-", " "}

ASSUME AuthAssumption ==
  /\ Length \in Nat
  /\ Octets \subseteq 0 .. 255
  /\ Malformed \notin Seq(Nat)
  /\ Absent \notin Seq(Nat) \cup Seq(Letter) \cup [token : Seq(Nat) \cup {Absent}]
                   \cup [scheme : {"Bearer"}, value : Seq(Letter)]

\* PyHexToBytes keeps what it has read in such a record.
ASSUME ReadAssumption == Malformed \notin [out : Seq(Nat), high : Seq(Letter)]

Tokens == [1 .. Length -> Octets]

\* The bits of an octet that are set.  On sets of bits `^` is the symmetric
\* difference and `|=` a union.
PowerOfTwo == <<1, 2, 4, 8, 16, 32, 64, 128>>
Bits(o) == {i \in 1 .. 8 : (o \div PowerOfTwo[i]) % 2 = 1}

\* Faulty CtEq: the difference of an octet overwrites that of the one before.
CtEqLast(a, b) == Len(a) = Len(b) /\ SymDiff(Bits(Last(a)), Bits(Last(b))) = {}

\* ct_eq
CtEq(a, b) ==
  Len(a) = Len(b) /\ UNION {SymDiff(Bits(a[i]), Bits(b[i])) : i \in DOMAIN a} = {}

\* AuthConfig.  Absent in the place of one means that the process refuses to start.
WithToken(octets) == IF Len(octets) # Length THEN Absent ELSE [token |-> octets]
Insecure == [token |-> Absent]

\* build_auth_config, of --bearer-token-hex and --insecure-no-auth.
BuildAuthConfig(flag, insecure) ==
  IF flag # Absent /\ insecure THEN Absent
  ELSE IF flag # Absent
       THEN LET octets == FromHex(flag, Length) IN
              IF octets = Malformed THEN Absent ELSE WithToken(octets)
  ELSE IF insecure THEN Insecure
  ELSE Absent

\* _v1_post_headers: the header of a client that was given this token, or none.
PostHeader(token) ==
  IF token = Absent THEN Absent ELSE [scheme |-> "Bearer", value |-> token]

\* trim
Trimmed(text) ==
  LET kept == {i \in DOMAIN text : text[i] # " "} IN
    IF kept = {} THEN << >> ELSE SubSeq(text, Min(kept), Max(kept))

\* api_router, which leaves the middleware out if no token is asked for, and
\* auth_middleware.
Authorized(config, header) ==
  \/ config.token = Absent
  \/ /\ header # Absent
     /\ header.scheme \in {"Bearer", "bearer"}
     /\ LET provided == FromHex(Trimmed(header.value), Length) IN
          provided # Malformed /\ CtEq(provided, config.token)

\* api_router: the handler's answer, behind the middleware.
Routed(config, header, answer) == IF Authorized(config, header) THEN answer ELSE Unauthorized

\* What an operator or a user may give as the token.
Given ==
  LET texts == {ToHex(octets) : octets \in Tokens} IN
    texts \cup {Capital(text) : text \in texts}
      \cup {<<" ">> \o text : text \in texts} \cup {text \o <<"0">> : text \in texts}
      \cup {<< >>, <<"0", "x", "0", "0">>, <<"-", "1", "0", "0">>, Absent}

\* A host starts open only if that is what it was told; one that was given a token
\* lets in exactly the clients that were given the same, but for capitals and for
\* spaces around it, and the others are told so.
TokenAdmits ==
  Init =>
    \A flag, token \in Given, insecure \in BOOLEAN, lang \in Language, r \in Outside :
      LET config == BuildAuthConfig(flag, insecure)
          post == Routed(config, PostHeader(token), Answered(r))
          admitted == \/ insecure
                      \/ token # Absent /\ Lowered(Trimmed(token)) = Lowered(flag)
      IN config # Absent /\ r.sig = [by |-> r.issuer, over |-> r.body] =>
           Evaluate(lang, post, Received(r), TRUE) =
             IF admitted THEN Decided(r.body.decision, r.body, r.body)
             ELSE Raised("unauthorized")
=============================================================================
