-------------------------- MODULE MCVerificationQr --------------------------
(* 1-bit bytes, so the u16 flow-id length is a 2-bit number and a flow id *)
(* of 4 bytes overflows it; keys of 1 byte, secrets of at least 1 byte.   *)
EXTENDS VerificationQr

CONSTANTS e1, e2

MCDecodeErrors == {e1, e2}
=============================================================================
