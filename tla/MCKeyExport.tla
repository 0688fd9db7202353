---------------------------- MODULE MCKeyExport ----------------------------
(* Key export checked at a scaled byte layout: 2-bit bytes, one-byte salt *)
(* and rounds, a two-byte IV (4-bit counter, mask on bit 1), two-byte MAC *)
(* and two-byte AES blocks.                                                *)
EXTENDS KeyExport

CONSTANTS p1, p2, k1

MCPassphrases == {p1, p2}
MCRoomKeys == {k1}
MCCrafters == {p1}
=============================================================================
