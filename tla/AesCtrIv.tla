------------------------------ MODULE AesCtrIv ------------------------------
(***************************************************************************)
(* The IV of a key export and the AES-CTR counter it seeds               *)
(* (matrix_sdk_crypto/src/file_encryption/key_export.rs, encrypt_helper). *)
(*                                                                         *)
(* encrypt_helper reads 16 random bytes as a big-endian u128, clears bit  *)
(* 63 and seeds Aes256Ctr, whose counter is the whole 128-bit block       *)
(* incremented once per 16-byte block.  Importers built on a 64-bit       *)
(* counter (the low half wraps on its own) must see the same keystream;   *)
(* clearing the top bit of the low half makes the low half unable to       *)
(* carry for any plaintext shorter than 2^63 blocks.  The model scales the *)
(* 128-bit counter to CtrBits bits and checks every IV and every block.    *)
(***************************************************************************)
EXTENDS Integers

CONSTANTS
    CtrBits,    \* width of the counter block (128 in the code)
    MaxBlocks   \* longest plaintext, in blocks, the exporter encrypts

ASSUME CtrBits % 2 = 0 /\ CtrBits >= 2

VARIABLES
    rawIv,      \* the u128 getrandom produced
    iv,         \* the IV written into the payload and seeding the cipher
    block       \* blocks of keystream apply_keystream has consumed

vars == <<rawIv, iv, block>>

HalfBits == CtrBits \div 2
NoIv == -1

(* Mutant: the top bit of the 128-bit IV is cleared (spec, section 4.1) *)
MaskIvTopBit(x) ==
    LET bit == 2^(CtrBits - 1)
    IN IF (x \div bit) % 2 = 1 THEN x - bit ELSE x

(* Mutant: the bit is subtracted whether or not it is set *)
MaskIvSubtract(x) == x - 2^(HalfBits - 1)

(* iv &= !(1 << 63) *)
MaskIv(x) ==
    LET bit == 2^(HalfBits - 1)
    IN IF (x \div bit) % 2 = 1 THEN x - bit ELSE x

(* The counter block Aes256Ctr encrypts for block j: 128-bit wrapping add *)
Ctr128(start, j) == (start + j) % 2^CtrBits

(* The same block under a 64-bit counter: high half fixed, low half wraps *)
Ctr64(start, j) ==
    LET high == start \div 2^HalfBits
        low  == start % 2^HalfBits
    IN high * 2^HalfBits + ((low + j) % 2^HalfBits)

Init ==
    /\ rawIv = NoIv
    /\ iv = NoIv
    /\ block = 0

(* getrandom(&mut iv); u128::from_be_bytes; the mask *)
GenerateIv ==
    /\ iv = NoIv
    /\ \E r \in 0..(2^CtrBits - 1) :
          /\ rawIv' = r
          /\ iv' = MaskIv(r)
    /\ UNCHANGED block

(* apply_keystream moves on to the next block of plaintext *)
NextBlock ==
    /\ iv # NoIv
    /\ block < MaxBlocks - 1
    /\ block' = block + 1
    /\ UNCHANGED <<rawIv, iv>>

Next == GenerateIv \/ NextBlock

Spec == Init /\ [][Next]_vars

-----------------------------------------------------------------------------

TypeOK ==
    /\ rawIv \in {NoIv} \cup 0..(2^CtrBits - 1)
    /\ iv \in {NoIv} \cup 0..(2^CtrBits - 1)
    /\ block \in 0..(MaxBlocks - 1)

(* Whatever IV getrandom returns, every keystream block of a plaintext of *)
(* up to MaxBlocks blocks is the same under the 128-bit counter of        *)
(* Aes256Ctr and under a 64-bit counter: the cleared bit keeps the low    *)
(* half of the counter from carrying into the high half.                  *)
CounterNeverCarries == iv # NoIv => Ctr128(iv, block) = Ctr64(iv, block)
=============================================================================
