----------------------------- MODULE HttpFetch ------------------------------
(***************************************************************************)
(* HttpFetchTool: the gates a request passes before it is sent, the bound  *)
(* on the body that is read, the table of literal addresses it refuses,    *)
(* and the broker that the bearer token comes from.  It keeps no state     *)
(* between calls.                                                          *)
(***************************************************************************)
EXTENDS Glob

CONSTANTS
  Allowlist,     \* globs of the hosts the tool may connect to
  AddressOf,     \* host |-> the octets or segments it spells out, or None
  AllowPrivate,  \* HttpFetchConfig::allow_private_ips
  HasBroker,     \* is a SecretBroker configured?
  Prefix,        \* prefix of the variables EnvSecretBroker reads
  Environment,   \* names of the variables that are set
  MaxBody,       \* HttpFetchConfig::max_response_bytes
  None           \* no host, no secret, no answer

ASSUME HttpAssumption ==
  /\ MaxBody \in Nat
  /\ None \notin {"invalid_input", "capability_denied", "failed"}
  /\ \A glob \in Allowlist : glob \in Seq(Range(glob))

-----------------------------------------------------------------------------
(* EnvSecretBroker.  Of the alphabet, letters with their capitals and the  *)
(* punctuation are told apart.                                             *)

Upper == [ch \in {"a", "b", "c"} |->
            CASE ch = "a" -> "A" [] ch = "b" -> "B" [] ch = "c" -> "C"]

EnvChar(ch) ==
  CASE ch \in {".", "-", "_"} -> <<"_">>
    [] ch \in DOMAIN Upper -> <<Upper[ch]>>
    [] OTHER -> << >>

EnvVarName(name) == Prefix \o FlattenSeq([i \in DOMAIN name |-> EnvChar(name[i])])

\* The value of a variable is named after it.
Fetched(name) == IF EnvVarName(name) \in Environment THEN EnvVarName(name) ELSE None

-----------------------------------------------------------------------------
(* is_disallowed_ip.  The predicates of the standard library come first.   *)

\* IpAddr: the octets of an IPv4 address, the segments of an IPv6 address.
V4 == [1 .. 4 -> 0 .. 255]
V6 == [1 .. 8 -> 0 .. 256 * 256 - 1]

IsLoopback(o)  == o[1] = 127
IsPrivate(o) ==
  o[1] = 10 \/ (o[1] = 172 /\ o[2] \in 16 .. 31) \/ (o[1] = 192 /\ o[2] = 168)
IsLinkLocal(o) == o[1] = 169 /\ o[2] = 254
IsMulticast(o) == o[1] \in 224 .. 239
IsUnspecified(o) == o = <<0, 0, 0, 0>>
IsBroadcast(o) == o = <<255, 255, 255, 255>>

\* Faulty IsDisallowedV4: the carrier-grade range is taken for a /16.
IsDisallowedNarrow(o) ==
  \/ IsLoopback(o) \/ IsPrivate(o) \/ IsLinkLocal(o) \/ IsMulticast(o)
  \/ IsUnspecified(o) \/ IsBroadcast(o)
  \/ o[1] = 0
  \/ o[1] = 100 /\ o[2] = 64
  \/ SubSeq(o, 1, 3) = <<192, 0, 0>>
  \/ o[1] = 198 /\ o[2] \in {18, 19}
  \/ o[1] >= 240

IsDisallowedV4(o) ==
  \/ IsLoopback(o) \/ IsPrivate(o) \/ IsLinkLocal(o) \/ IsMulticast(o)
  \/ IsUnspecified(o) \/ IsBroadcast(o)
  \/ o[1] = 0
  \/ o[1] = 100 /\ o[2] \in 64 .. 127
  \/ SubSeq(o, 1, 3) = <<192, 0, 0>>
  \/ o[1] = 198 /\ o[2] \in {18, 19}
  \/ o[1] >= 240

\* Of the eight segments s of an IPv6 address; masks compare the upper bits.
IsMapped(s) == SubSeq(s, 1, 6) = <<0, 0, 0, 0, 0, 65535>>
Embedded(s) == <<s[7] \div 256, s[7] % 256, s[8] \div 256, s[8] % 256>>

IsDisallowedV6(s) ==
  \/ s \in {<<0, 0, 0, 0, 0, 0, 0, 1>>, <<0, 0, 0, 0, 0, 0, 0, 0>>}
  \/ s[1] \div 256 = 255
  \/ s[1] \div 64 = 65152 \div 64
  \/ s[1] \div 512 = 64512 \div 512
  \/ s[1] = 8193 /\ s[2] = 3512
  \/ IsMapped(s) /\ IsDisallowedV4(Embedded(s))

\* Url::host_str writes an IPv6 address in brackets ...
InBrackets(host) == Len(host) > 0 /\ host[1] = "["

\* ... and parse::<IpAddr> reads none in them: it takes such a host for a name.
ParsedIp(host) == IF InBrackets(host) THEN None ELSE AddressOf[host]

IsDisallowedIp(host) ==
  LET ip == ParsedIp(host) IN
    /\ ip # None
    /\ IF Len(ip) = 4 THEN IsDisallowedV4(ip) ELSE IsDisallowedV6(ip)

-----------------------------------------------------------------------------
(* HttpFetchTool::call, up to the request.  A request names a host, or     *)
(* None if its input or URL is malformed, and a secret to authenticate     *)
(* with, or None.                                                          *)

\* Faulty Refusal: without a broker the request goes out unauthenticated.
RefusalUnlessBroker(req) ==
  IF req.host = None THEN "invalid_input"
  ELSE IF ~IsGrantedBy(Allowlist, req.host) THEN "capability_denied"
  ELSE IF ~AllowPrivate /\ IsDisallowedIp(req.host) THEN "failed"
  ELSE None

\* The first gate that stops the request, or None.
Refusal(req) ==
  IF req.host = None THEN "invalid_input"
  ELSE IF ~IsGrantedBy(Allowlist, req.host) THEN "capability_denied"
  ELSE IF ~AllowPrivate /\ IsDisallowedIp(req.host) THEN "failed"
  ELSE IF req.auth # None /\ (~HasBroker \/ Fetched(req.auth) = None) THEN "failed"
  ELSE None

Bearer(req) == IF req.auth = None THEN None ELSE Fetched(req.auth)

\* Faulty BodyRead: take(max) cannot tell a body of max bytes from a longer one.
BodyTruncated(length) == IF length > MaxBody THEN MaxBody ELSE length

\* take(max + 1): what is read of a body of this length, or None if it exceeds
\* the bound.
BodyRead(length) ==
  LET read == IF length > MaxBody + 1 THEN MaxBody + 1 ELSE length IN
    IF read > MaxBody THEN None ELSE read

-----------------------------------------------------------------------------
(* The documented tables of disallowed addresses, as networks: a prefix    *)
(* and the number of its bits that count.                                  *)

\* Bit i of an address that is written in parts of `width` bits.
Bit(parts, width, i) ==
  (parts[(i - 1) \div width + 1] \div 2 ^ (width - 1 - ((i - 1) % width))) % 2

InNetwork(parts, width, network) ==
  \A i \in 1 .. network[2] : Bit(parts, width, i) = Bit(network[1], width, i)

Networks4 ==
  { <<<<0, 0, 0, 0>>, 8>>, <<<<10, 0, 0, 0>>, 8>>, <<<<100, 64, 0, 0>>, 10>>,
    <<<<127, 0, 0, 0>>, 8>>, <<<<169, 254, 0, 0>>, 16>>, <<<<172, 16, 0, 0>>, 12>>,
    <<<<192, 0, 0, 0>>, 24>>, <<<<192, 168, 0, 0>>, 16>>, <<<<198, 18, 0, 0>>, 15>>,
    <<<<224, 0, 0, 0>>, 4>>, <<<<240, 0, 0, 0>>, 4>>, <<<<255, 255, 255, 255>>, 32>> }

Segments(first, second, last) == <<first, second, 0, 0, 0, 0, 0, last>>

Networks6 ==
  { <<Segments(0, 0, 0), 128>>, <<Segments(0, 0, 1), 128>>,
    <<Segments(64512, 0, 0), 7>>, <<Segments(65152, 0, 0), 10>>,
    <<Segments(65280, 0, 0), 8>>, <<Segments(8193, 3512, 0), 32>> }

Listed4(o) == \E n \in Networks4 : InNetwork(o, 8, n)
Listed6(s) ==
  \/ \E n \in Networks6 : InNetwork(s, 16, n)
  \/ IsMapped(s) /\ Listed4(Embedded(s))
Listed(ip) == IF Len(ip) = 4 THEN Listed4(ip) ELSE Listed6(ip)
=============================================================================
