-------------------------------- MODULE Wire --------------------------------
(***************************************************************************)
(* What a client and a host must agree on before a receipt means the same  *)
(* to both: digests and keys as text, and the bytes of a body, which the   *)
(* host signs in Rust and the verifiers hash in Python and TypeScript.     *)
(* They are pure, over bounded inputs, and looked at in the initial state. *)
(***************************************************************************)
EXTENDS Auth, Canonical

\* Characters of a text: digits, some of them capitals, what may stand before a
\* number, and what is none.
Char == {"0", "9", "a", "F", "x", " ", "-"}

\* What the host signs is what the verifiers hash: for every body (within bounds)
\* the encoders of the three languages agree, and no two bodies share an encoding.
\* And the digests, keys and signatures in it are the same octets to all of them.
EncodersAgree == Init => BytesAgree(Bodies) /\ HexAgrees(Octets, Char, Length)
=============================================================================
