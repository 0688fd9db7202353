------------------------------ MODULE KeyExport ------------------------------
(***************************************************************************)
(* The passphrase-protected room-key export of                             *)
(* matrix_sdk_crypto/src/file_encryption/key_export.rs.                    *)
(*                                                                         *)
(* An exporter runs encrypt_key_export; the armored text travels over a    *)
(* channel that may mangle it (flip or cut payload bytes, drop marker      *)
(* lines, add whitespace); an importer runs decrypt_key_export on what     *)
(* arrives with some passphrase.                                           *)
(*                                                                         *)
(* Data abstraction.  A payload is a sequence of model bytes.  Header      *)
(* bytes are Raw numbers of ByteBits bits, so the big-endian fields, the   *)
(* IV mask and the AES-CTR counter are computed exactly at a scaled width. *)
(* The JSON plaintext is a sequence of tokens ("[", ",", "]" and one token *)
(* per ExportedRoomKey).  AES-CTR and HMAC are symbolic (Dolev-Yao): a     *)
(* ciphertext byte records key, counter block, offset and plaintext, so    *)
(* the keystream only undoes itself under the same key and counter; a MAC  *)
(* byte records the HMAC key and the exact bytes authenticated, so a MAC   *)
(* can only be produced by whoever holds the derived key.  A MAC byte has  *)
(* no value in the model, so compared with a byte that is not the same    *)
(* MAC term it may match by chance; a holder of the key can arrange that  *)
(* for a few bytes by trying salts (ChanceBytes).  Base64 is a bijection   *)
(* between a payload and its text line.                                    *)
(*                                                                         *)
(* Besides honest exports, a holder of a passphrase (Crafters) may hand   *)
(* the importer a payload of its own, too short for its MAC to lie after  *)
(* the header.                                                             *)
(***************************************************************************)
EXTENDS Integers, Sequences, SequencesExt, FiniteSets

CONSTANTS
    Passphrases,    \* passphrases an exporter or importer may use
    RoomKeys,       \* ExportedRoomKey values (model values)
    MaxKeys,        \* longest key list exported
    RoundsValues,   \* PBKDF2 round counts an exporter may pass
    RandomBytes,    \* byte values getrandom may return in the model
    ByteBits,       \* width of a byte (8 in the code)
    SaltSize,       \* SALT_SIZE (16 in the code)
    IvSize,         \* IV_SIZE (16 in the code)
    RoundsSize,     \* bytes of the u32 rounds field (4 in the code)
    MacSize,        \* MAC_SIZE (32 in the code)
    BlockSize,      \* AES block size in bytes (16 in the code)
    MaxExports,     \* bound on exports made in one behaviour
    MaxEdits,       \* bound on channel edits to one received text
    ChanceBytes,    \* MAC bytes that may equal a given byte by chance
    Crafters,       \* passphrases known to someone who crafts payloads
    None            \* model value: no file received / no import yet

ASSUME RoundsValues \subseteq 0..(2^(RoundsSize * ByteBits) - 1)
ASSUME RandomBytes \subseteq 0..(2^ByteBits - 1)

VARIABLES
    exports,    \* the armored exports produced so far, with what went in
    received,   \* the text the importer holds, its origin and its damage
    result      \* the outcome of the last decrypt_key_export

vars == <<exports, received, result>>

-----------------------------------------------------------------------------
(* Constants of key_export.rs *)

VERSION == 1
Byte == 0..(2^ByteBits - 1)
IvBits == IvSize * ByteBits
HeaderLen == 1 + SaltSize + IvSize + RoundsSize

(* Model bytes *)
Raw(n) == [t |-> "raw", v |-> n]
Pt(x) == [t |-> "pt", v |-> x]                    \* a plaintext JSON token
Enc(k, ctr, off, p) == [t |-> "enc", k |-> k, ctr |-> ctr, off |-> off, p |-> p]
Junk == [t |-> "junk"]                           \* keystream under a wrong key or counter

(* Result values of decrypt_key_export *)
Ok(keys) == [err |-> "Ok", keys |-> keys]
Fail(e) == [err |-> e, keys |-> <<>>]
Errors == {"InvalidHeaders", "UnsupportedVersion", "InvalidMac", "InvalidUtf8",
           "Json", "Decode", "Io", "Panic"}

(* Lines of the armored text *)
Line(kind) == [kind |-> kind, bytes |-> <<>>]
B64Line(b) == [kind |-> "b64", bytes |-> b]

-----------------------------------------------------------------------------
(* Framing: big-endian integers (to_be_bytes / read_u32::<BigEndian>) *)

(* Mutant: a field written one byte short *)
ToBEOneShort(n, width) ==
    [i \in 1..(width - 1) |-> Raw((n \div 2^(ByteBits * (width - 1 - i))) % 2^ByteBits)]

ToBE(n, width) ==
    [i \in 1..width |-> Raw((n \div 2^(ByteBits * (width - i))) % 2^ByteBits)]

FromBE(s) == FoldLeft(LAMBDA acc, b : acc * 2^ByteBits + b.v, 0, s)

(* serde_json::to_string(keys): "[" k1 "," k2 ... "]" *)
SerializeKeys(keys) ==
    <<Pt("[")>>
      \o FlattenSeq([i \in 1..Len(keys) |->
                       IF i = 1 THEN <<Pt(keys[i])>> ELSE <<Pt(","), Pt(keys[i])>>])
      \o <<Pt("]")>>

(* serde_json::from_str on the decrypted text.  Garbled bytes may happen *)
(* to be JSON, so they may parse into a key list nobody exported.        *)
ParseKeys(ts) ==
    IF Junk \in ToSet(ts)
    THEN {Fail("Json"), Ok(<<Junk>>)}
    ELSE LET parsed == {ks \in BoundedSeq(RoomKeys, Len(ts)) : SerializeKeys(ks) = ts}
         IN IF parsed = {} THEN {Fail("Json")} ELSE {Ok(ks) : ks \in parsed}

-----------------------------------------------------------------------------
(* Cryptographic primitives, symbolic *)

(* Mutant: the passphrase never reaches the key derivation *)
DerivedKeysIgnoringPassphrase(pass, salt, rounds) == [salt |-> salt, rounds |-> rounds]

(* pbkdf2::<Hmac<Sha512>> into 64 bytes, split_at(KEY_SIZE) *)
DerivedKeys(pass, salt, rounds) == [pass |-> pass, salt |-> salt, rounds |-> rounds]
AesKey(dk) == [use |-> "aes", dk |-> dk]
HmacKey(dk) == [use |-> "hmac", dk |-> dk]

(* Aes256Ctr: a 128-bit big-endian counter starting at the IV, wrapping *)
CounterBlock(iv, j) == (iv + (j - 1) \div BlockSize) % 2^IvBits

(* apply_keystream: XOR with the keystream of (key, counter, offset) *)
ApplyKeystream(key, iv, data) ==
    [j \in 1..Len(data) |->
        LET ctr == CounterBlock(iv, j)
            off == (j - 1) % BlockSize
            b   == data[j]
        IN IF b.t = "pt" THEN Enc(key, ctr, off, b)
           ELSE IF b.t = "enc" /\ b.k = key /\ b.ctr = ctr /\ b.off = off THEN b.p
           ELSE Junk]

(* Hmac::<Sha256> over data, finalized to MAC_SIZE bytes *)
HmacSha256(hk, data) ==
    [i \in 1..MacSize |-> [t |-> "mac", k |-> hk, data |-> data, i |-> i]]

(* Mutant: the MAC is never checked *)
MacVerifiesSkipped(hk, data, mac) == {TRUE}

(* hmac.verify(&mac): constant-time comparison with the recomputed tag.  *)
(* The possible verdicts: a MAC term other than the tag's own fails; a   *)
(* byte of another kind matches the tag byte by chance, which is in      *)
(* reach for at most ChanceBytes bytes.                                  *)
MacVerifies(hk, data, mac) ==
    LET tag   == HmacSha256(hk, data)
        other == {i \in 1..MacSize : mac[i].t # "mac"}
    IN IF \E i \in (1..MacSize) \ other : mac[i] # tag[i] THEN {FALSE}
       ELSE IF other = {} THEN {TRUE}
       ELSE IF Cardinality(other) <= ChanceBytes THEN {TRUE, FALSE}
       ELSE {FALSE}

-----------------------------------------------------------------------------
(* encrypt_helper and encrypt_key_export *)

(* iv &= !(1 << 63): clear bit 63 of the u128, the top bit of its low half *)
MaskIv(iv) ==
    LET bit == 2^(IvBits \div 2 - 1)
    IN IF (iv \div bit) % 2 = 1 THEN iv - bit ELSE iv

(* Mutant: the header carries the IV as drawn, the cipher the masked one *)
EncryptHelperRawIvInHeader(plaintext, pass, rounds, salt, rawIv) ==
    LET iv      == MaskIv(FromBE(rawIv))
        dk      == DerivedKeys(pass, salt, rounds)
        payload == <<Raw(VERSION)>> \o salt \o rawIv \o ToBE(rounds, RoundsSize)
                     \o ApplyKeystream(AesKey(dk), iv, plaintext)
    IN payload \o HmacSha256(HmacKey(dk), payload)

(* salt and rawIv are the bytes getrandom filled in *)
EncryptHelper(plaintext, pass, rounds, salt, rawIv) ==
    LET iv      == MaskIv(FromBE(rawIv))
        dk      == DerivedKeys(pass, salt, rounds)
        payload == <<Raw(VERSION)>> \o salt \o ToBE(iv, IvSize) \o ToBE(rounds, RoundsSize)
                     \o ApplyKeystream(AesKey(dk), iv, plaintext)
    IN payload \o HmacSha256(HmacKey(dk), payload)

(* [HEADER, base64(payload), FOOTER].join("\n") *)
Armor(payload) == <<Line("header"), B64Line(payload), Line("footer")>>

-----------------------------------------------------------------------------
(* decrypt_helper: the outcomes for decoded bytes d.  A success carries  *)
(* the decrypted tokens in field plain.                                  *)

(* decoded[ciphertext_start..ciphertext_end] panics when start > end *)
SliceInBounds(start, end) == start <= end

DecryptHelper(d, pass) ==
    LET n   == Len(d)
        end == n - MacSize            \* ciphertext_end after seek(End(-32))
    IN
    IF n < HeaderLen \/ n < MacSize
    THEN {Fail("Io")}                 \* read_u8/read_exact/seek past either end
    ELSE
      LET salt   == SubSeq(d, 2, 1 + SaltSize)
          iv     == FromBE(SubSeq(d, 2 + SaltSize, 1 + SaltSize + IvSize))
          rounds == FromBE(SubSeq(d, 2 + SaltSize + IvSize, HeaderLen))
          dk     == DerivedKeys(pass, salt, rounds)
      IN
      IF d[1].v # VERSION THEN {Fail("UnsupportedVersion")}
      ELSE UNION {
        IF ~macOk THEN {Fail("InvalidMac")}
        ELSE IF ~SliceInBounds(HeaderLen, end) THEN {Fail("Panic")}
        ELSE
          LET plain == ApplyKeystream(AesKey(dk), iv, SubSeq(d, HeaderLen + 1, end))
          IN {[err |-> "none", plain |-> plain]}
               \cup (IF Junk \in ToSet(plain) THEN {Fail("InvalidUtf8")} ELSE {}) :
        macOk \in MacVerifies(HmacKey(dk), SubSeq(d, 1, end), SubSeq(d, end + 1, n))}

(* x.trim_start().starts_with(HEADER) && x.trim_end().ends_with(FOOTER) *)
NonBlank(text) == SelectSeq(text, LAMBDA l : l.kind \notin {"blank", "spaces"})
HasMarkers(text) ==
    LET nb == NonBlank(text)
    IN /\ Len(nb) > 0
       /\ nb[1].kind \in {"header", "indented_header"}
       /\ nb[Len(nb)].kind = "footer"

(* decrypt_key_export: the lines not starting with a marker are joined *)
(* and base64-decoded; whitespace or marker text in them is invalid.   *)
DecryptKeyExport(text, pass) ==
    IF ~HasMarkers(text) THEN {Fail("InvalidHeaders")}
    ELSE
      LET kept == SelectSeq(text, LAMBDA l : l.kind \notin {"header", "footer"})
      IN IF \E i \in 1..Len(kept) : kept[i].kind \in {"spaces", "indented_header", "junk"}
         THEN {Fail("Decode")}
         ELSE UNION {IF h.err = "none" THEN ParseKeys(h.plain) ELSE {h} :
                       h \in DecryptHelper(FlattenSeq([i \in 1..Len(kept) |-> kept[i].bytes]), pass)}

-----------------------------------------------------------------------------
(* Actions *)

Init ==
    /\ exports = {}
    /\ received = None
    /\ result = None

(* The exporter: encrypt_key_export(keys, passphrase, rounds) *)
EncryptKeyExport(keys, pass, rounds) ==
    /\ Cardinality(exports) < MaxExports
    /\ \E s \in [1..SaltSize -> RandomBytes], v \in [1..IvSize -> RandomBytes] :
          LET salt == [i \in 1..SaltSize |-> Raw(s[i])]
              rawIv == [i \in 1..IvSize |-> Raw(v[i])]
              text == Armor(EncryptHelper(SerializeKeys(keys), pass, rounds, salt, rawIv))
          IN exports' = exports \cup {[keys |-> keys, pass |-> pass, rounds |-> rounds, text |-> text]}
    /\ UNCHANGED <<received, result>>

(* The channel hands an export to the importer *)
Deliver(e) ==
    /\ received' = [text |-> e.text, origin |-> e, damage |-> "none", edits |-> 0]
    /\ UNCHANGED <<exports, result>>

(* A holder of passphrase pass builds a payload of n bytes, HeaderLen <= *)
(* n < HeaderLen + MacSize, so that the 32 bytes read as the MAC start   *)
(* inside the header: it writes a header, then the tag of the bytes      *)
(* before the MAC region under the keys it derives, minus the tag bytes  *)
(* the header already occupies; those have to match by chance, which it  *)
(* arranges by trying salts.  It hands the text to the importer itself.  *)
Craft(pass) ==
    /\ \E s \in [1..SaltSize -> RandomBytes], v \in [1..IvSize -> RandomBytes],
          r \in RoundsValues, n \in HeaderLen..(HeaderLen + MacSize - 1) :
          LET salt   == [i \in 1..SaltSize |-> Raw(s[i])]
              header == <<Raw(VERSION)>> \o salt \o [i \in 1..IvSize |-> Raw(v[i])]
                          \o ToBE(r, RoundsSize)
              end    == n - MacSize
              tag    == HmacSha256(HmacKey(DerivedKeys(pass, salt, r)), SubSeq(header, 1, end))
              text   == Armor(header \o SubSeq(tag, HeaderLen - end + 1, MacSize))
          IN /\ end >= 0
             /\ received' = [text |-> text, damage |-> "crafted", edits |-> 0,
                             origin |-> [keys |-> <<>>, pass |-> pass, rounds |-> r, text |-> text]]
    /\ UNCHANGED <<exports, result>>

(* The channel changes the text: "whitespace" edits keep every marker and *)
(* payload character, "content" edits do not.  A crafted text is the      *)
(* crafter's own choice and goes to the importer as it is.                *)
Edit(text, kind) ==
    /\ received # None
    /\ received.damage # "crafted"
    /\ received.edits < MaxEdits
    /\ received' = [received EXCEPT !.text = text, !.edits = @ + 1,
                                    !.damage = IF @ = "content" THEN @ ELSE kind]
    /\ UNCHANGED <<exports, result>>

PayloadIndex(text) == CHOOSE i \in 1..Len(text) : text[i].kind = "b64"
HasPayload(text) == \E i \in 1..Len(text) : text[i].kind = "b64"

FlipByte ==
    LET text == received.text
    IN /\ received # None
       /\ HasPayload(text)
       /\ LET p == PayloadIndex(text)
          IN \E i \in 1..Len(text[p].bytes), v \in Byte :
               /\ text[p].bytes[i] # Raw(v)
               /\ Edit([text EXCEPT ![p].bytes[i] = Raw(v)], "content")

Truncate ==
    LET text == received.text
    IN /\ received # None
       /\ HasPayload(text)
       /\ LET p == PayloadIndex(text)
          IN \E n \in 0..(Len(text[p].bytes) - 1) :
               Edit([text EXCEPT ![p].bytes = SubSeq(@, 1, n)], "content")

DropLine ==
    /\ received # None
    /\ \E i \in 1..Len(received.text) :
          /\ received.text[i].kind \in {"header", "footer"}
          /\ Edit(RemoveAt(received.text, i), "content")

(* Leading spaces before the header, a leading blank line, a trailing line *)
(* of spaces: whitespace around the whole text.                            *)
PadWhitespace ==
    /\ received # None
    /\ \/ \E i \in 1..Len(received.text) :
             /\ received.text[i].kind = "header"
             /\ Edit([received.text EXCEPT ![i] = Line("indented_header")], "whitespace")
       \/ Edit(<<Line("blank")>> \o received.text, "whitespace")
       \/ Edit(Append(received.text, Line("spaces")), "whitespace")

(* The importer: decrypt_key_export(text, passphrase) *)
Import(pass) ==
    /\ received # None
    /\ \E out \in DecryptKeyExport(received.text, pass) :
          result' = [out |-> out, origin |-> received.origin, pass |-> pass,
                     damage |-> received.damage]
    /\ UNCHANGED <<exports, received>>

Next ==
    \/ \E keys \in BoundedSeq(RoomKeys, MaxKeys), pass \in Passphrases, r \in RoundsValues :
          EncryptKeyExport(keys, pass, r)
    \/ \E e \in exports : Deliver(e)
    \/ \E pass \in Crafters : Craft(pass)
    \/ FlipByte \/ Truncate \/ DropLine \/ PadWhitespace
    \/ \E pass \in Passphrases : Import(pass)

Spec == Init /\ [][Next]_vars

-----------------------------------------------------------------------------
(* Properties *)

(* Every export is armored around one payload laid out as            *)
(* version | salt | iv | rounds | ciphertext | mac.                       *)
TypeOK ==
    /\ \A e \in exports :
          /\ e.keys \in BoundedSeq(RoomKeys, MaxKeys)
          /\ e.pass \in Passphrases
          /\ Len(e.text) = 3
          /\ Len(e.text[2].bytes) = HeaderLen + Len(SerializeKeys(e.keys)) + MacSize
    /\ received = None \/ (received.damage \in {"none", "whitespace", "content", "crafted"}
                           /\ received.edits \in 0..MaxEdits
                           /\ (received.origin \in exports \/ received.damage = "crafted"))
    /\ result = None \/ (result.out.err \in Errors \cup {"Ok"} /\ result.pass \in Passphrases)

(* The export as its users see it: the boxes made, the one the importer *)
(* holds (intact while the channel left it alone) and the last outcome.  *)
Abs == INSTANCE KeyExportAbstract WITH
    KeyLists <- BoundedSeq(RoomKeys, MaxKeys),
    Forgers  <- Crafters,
    sealed   <- {[keys |-> e.keys, pass |-> e.pass] : e \in exports},
    held     <- IF received = None THEN None
                ELSE [keys |-> received.origin.keys, pass |-> received.origin.pass,
                      intact |-> received.damage = "none"],
    outcome  <- IF result = None THEN None
                ELSE [pass |-> result.pass,
                      ok   |-> result.out.err = "Ok",
                      keys |-> IF result.out.err = "Ok" THEN result.out.keys ELSE <<>>]

(* Whatever the channel did to the text, the codec implements the sealed *)
(* box: an import that succeeds returns exactly the exported keys, only   *)
(* under the export's passphrase, and an untouched export opens under its *)
(* passphrase.  About the HMAC over version..ciphertext checked in        *)
(* decrypt_helper before the keystream, and the key derivation from the   *)
(* passphrase and the embedded salt and rounds.                           *)
RefinesAbstract == Abs!Spec

(* Round trip: an export delivered unchanged imports to its key list under *)
(* its passphrase and fails with InvalidMac under any other.  About the    *)
(* agreement of encrypt_helper and decrypt_helper on layout, IV and keys.  *)
RoundTrip ==
    result # None /\ result.damage = "none"
      => result.out = IF result.pass = result.origin.pass
                      THEN Ok(result.origin.keys) ELSE Fail("InvalidMac")

(* Spec, section 7: truncated buffers are recoverable, surfaced as a     *)
(* typed failure and never a crash; so no text makes decrypt_key_export *)
(* panic at the decoded[ciphertext_start..ciphertext_end] slice.         *)
NoPanic == result # None => result.out.err # "Panic"

(* Only a holder of the importer's passphrase can make the import panic:  *)
(* whatever the channel makes of honest exports, and whatever is crafted  *)
(* under another passphrase, hmac.verify rejects before the slice of a    *)
(* payload shorter than header plus MAC.  About the MAC check coming      *)
(* before decoded[ciphertext_start..ciphertext_end] in decrypt_helper.    *)
PanicNeedsPassphrase ==
    result # None /\ result.out.err = "Panic"
      => result.damage = "crafted" /\ result.pass = result.origin.pass

(* Whitespace around the armored text does not stop an import under the *)
(* right passphrase (spec, section 6: the decoder accepts the markers    *)
(* regardless of surrounding leading or trailing whitespace).            *)
WhitespaceTolerated ==
    result # None /\ result.damage = "whitespace" /\ result.pass = result.origin.pass
      => result.out.err = "Ok"

(* The version byte of the payload the importer holds, if it has one *)
HeldVersion(text) ==
    IF HasPayload(text) /\ Len(text[PayloadIndex(text)].bytes) > 0
    THEN text[PayloadIndex(text)].bytes[1].v ELSE VERSION

(* Version gating (spec, section 8): an import of a payload whose version *)
(* byte is not VERSION fails with UnsupportedVersion, whatever else is    *)
(* wrong with it.  About decrypt_helper reading salt, iv, rounds and      *)
(* seeking to the MAC before it compares the version it read.             *)
VersionGated ==
    [][\A pass \in Passphrases :
          Import(pass) /\ HeldVersion(received.text) # VERSION
            => result'.out.err = "UnsupportedVersion"]_vars
=============================================================================
