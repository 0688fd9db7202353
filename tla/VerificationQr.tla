--------------------------- MODULE VerificationQr ---------------------------
(***************************************************************************)
(* The QR code of interactive verification (matrix_qrcode/src/utils.rs).   *)
(*                                                                         *)
(* One device encodes (to_qr_code over to_bytes) and shows the code; the   *)
(* other device's camera frame yields several detected grids, which        *)
(* decode_qr tries in order; the scanned bytes are then parsed back into   *)
(* mode, flow id, keys and secret (QrVerificationData's decoder, which is  *)
(* not under src/: modelled from spec sections 4.2 and 6).                 *)
(*                                                                         *)
(* Bytes are tokens: the 6-byte "MATRIX" tag is one token, flow-id bytes  *)
(* are "f", key and secret bytes "a", "b", "s", and the version, mode and  *)
(* big-endian length prefix are numbers of ByteBits bits.  A key argument  *)
(* is a base64 string: valid (with the bytes it decodes to) or invalid.    *)
(***************************************************************************)
EXTENDS Integers, Sequences, SequencesExt, FiniteSets

CONSTANTS
    ByteBits,      \* width of a byte (8)
    PrefixSize,    \* bytes of the u16 flow-id length (2)
    KeyLen,        \* key length the decoder reads (32)
    MinSecretLen,  \* MIN_SECRET_LEN (8)
    QrCapacity,    \* bytes QrCode::new accepts at its chosen version/level
    MaxFlowLen,    \* longest flow id tried
    MaxFieldLen,   \* longest key or secret tried
    Modes,         \* mode bytes tried (MAX_MODE is 2)
    MaxGrids,      \* grids detect_grids may find in one frame
    DecodeErrors,  \* errors grid.decode_to may return
    None           \* model value

VARIABLES
    shown,     \* the input of to_qr_code and its result
    frame,     \* the grids detected in the scanner's camera frame
    scanned,   \* the result of decode_qr on that frame
    parsed     \* the result of decoding the scanned bytes

vars == <<shown, frame, scanned, parsed>>

-----------------------------------------------------------------------------

HEADER == <<"MATRIX">>
VERSION == 2
MAX_MODE == 2

Ok(v) == [ok |-> TRUE, val |-> v]
Err(e) == [ok |-> FALSE, val |-> e]

Field(c) == BoundedSeq({c}, MaxFieldLen)
Arg(c) == {[valid |-> TRUE, bytes |-> b] : b \in Field(c)} \cup {[valid |-> FALSE, bytes |-> <<>>]}

(* u16::to_be_bytes / read_u16::<BigEndian> at PrefixSize bytes *)
ToBE(n) == [i \in 1..PrefixSize |-> (n \div 2^(ByteBits * (PrefixSize - i))) % 2^ByteBits]
FromBE(s) == FoldLeft(LAMBDA acc, b : acc * 2^ByteBits + b, 0, s)

(* Mutant: flow_id.len() as u16, truncating instead of failing *)
ToBytesTruncatingLength(mode, flow, k1, k2, secret) ==
    IF ~(k1.valid /\ k2.valid /\ secret.valid) THEN Err("Base64")
    ELSE Ok(HEADER \o <<VERSION, mode>> \o ToBE(Len(flow) % 2^(ByteBits * PrefixSize)) \o flow
              \o k1.bytes \o k2.bytes \o secret.bytes)

(* Mutant: the flow-id length written as one byte (flow_id.len() as u8) *)
ToBytesOneByteLength(mode, flow, k1, k2, secret) ==
    IF Len(flow) >= 2^(ByteBits * PrefixSize) THEN Err("FlowId")
    ELSE IF ~(k1.valid /\ k2.valid /\ secret.valid) THEN Err("Base64")
    ELSE Ok(HEADER \o <<VERSION, mode>> \o <<Len(flow) % 2^ByteBits>> \o flow
              \o k1.bytes \o k2.bytes \o secret.bytes)

(* to_bytes: flow_id.len().try_into::<u16>(), base64 of each key, concat *)
ToBytes(mode, flow, k1, k2, secret) ==
    IF Len(flow) >= 2^(ByteBits * PrefixSize) THEN Err("FlowId")
    ELSE IF ~(k1.valid /\ k2.valid /\ secret.valid) THEN Err("Base64")
    ELSE Ok(HEADER \o <<VERSION, mode>> \o ToBE(Len(flow)) \o flow
              \o k1.bytes \o k2.bytes \o secret.bytes)

(* to_qr_code: QrCode::new fails when the data exceeds the capacity *)
ToQrCode(mode, flow, k1, k2, secret) ==
    LET data == ToBytes(mode, flow, k1, k2, secret)
    IN IF data.ok /\ Len(data.val) > QrCapacity THEN Err("DataTooLong") ELSE data

(* A grid of the frame: the code on show, a code that is not ours, an   *)
(* older MATRIX code still in view, or one that fails to decode.        *)
StalePayload == HEADER \o <<VERSION, 0>> \o ToBE(0) \o <<"stale">>
GridKinds == {"shown", "foreign", "stale"} \cup DecodeErrors

(* grid.decode_to(&mut decoded) *)
DecodeGrid(g) ==
    CASE g = "shown"   -> Ok(shown.out.val)
      [] g = "foreign" -> Ok(<<"http">>)
      [] g = "stale"   -> Ok(StalePayload)
      [] OTHER         -> Err(g)

StartsWithHeader(b) == Len(b) >= Len(HEADER) /\ SubSeq(b, 1, Len(HEADER)) = HEADER

(* Mutant: the first grid that decodes wins, tag or no tag *)
RECURSIVE DecodeQrFromFirstDecoded(_, _)
DecodeQrFromFirstDecoded(grids, error) ==
    IF grids = <<>>
    THEN IF error = None THEN Err("Header") ELSE Err(error)
    ELSE LET d == DecodeGrid(Head(grids))
         IN IF d.ok THEN d
            ELSE DecodeQrFromFirstDecoded(Tail(grids), d.val)

(* decode_qr: the first grid whose bytes start with HEADER wins; failing *)
(* that, the last decode error seen, or Header when no grid failed.      *)
RECURSIVE DecodeQrFrom(_, _)
DecodeQrFrom(grids, error) ==
    IF grids = <<>>
    THEN IF error = None THEN Err("Header") ELSE Err(error)
    ELSE LET d == DecodeGrid(Head(grids))
         IN IF d.ok /\ StartsWithHeader(d.val) THEN d
            ELSE DecodeQrFrom(Tail(grids), IF d.ok THEN error ELSE d.val)

DecodeQr(grids) == DecodeQrFrom(grids, None)

(* The decoder of QrVerificationData (spec_modelled): header, version,  *)
(* mode, length-prefixed flow id, two KeyLen keys, the rest the secret. *)
FromBytes(b) ==
    LET fixed == Len(HEADER) + 2 + PrefixSize
    IN IF Len(b) < fixed THEN Err("Io")
       ELSE IF SubSeq(b, 1, Len(HEADER)) # HEADER THEN Err("Header")
       ELSE IF b[Len(HEADER) + 1] # VERSION THEN Err("Version")
       ELSE IF b[Len(HEADER) + 2] > MAX_MODE THEN Err("Mode")
       ELSE LET flowLen == FromBE(SubSeq(b, Len(HEADER) + 3, fixed))
                keysEnd == fixed + flowLen + 2 * KeyLen
            IN IF Len(b) < keysEnd THEN Err("Io")
               ELSE IF Len(b) - keysEnd < MinSecretLen THEN Err("SharedSecret")
               ELSE Ok([mode |-> b[Len(HEADER) + 2],
                        flow |-> SubSeq(b, fixed + 1, fixed + flowLen),
                        k1 |-> SubSeq(b, fixed + flowLen + 1, fixed + flowLen + KeyLen),
                        k2 |-> SubSeq(b, fixed + flowLen + KeyLen + 1, keysEnd),
                        secret |-> SubSeq(b, keysEnd + 1, Len(b))])

-----------------------------------------------------------------------------

Init ==
    /\ shown = None
    /\ frame = <<>>
    /\ scanned = None
    /\ parsed = None

(* The showing device builds the code of its verification *)
ShowCode(mode, flow, k1, k2, secret) ==
    /\ shown = None
    /\ shown' = [in |-> [mode |-> mode, flow |-> flow, k1 |-> k1.bytes,
                         k2 |-> k2.bytes, secret |-> secret.bytes],
                 out |-> ToQrCode(mode, flow, k1, k2, secret)]
    /\ frame' = <<>>
    /\ scanned' = None
    /\ parsed' = None

(* The scanning device's camera detects grids (detect_grids) *)
DetectGrids ==
    /\ shown # None
    /\ shown.out.ok
    /\ frame = <<>>
    /\ \E grids \in BoundedSeq(GridKinds, MaxGrids) : frame' = grids
    /\ scanned' = None
    /\ parsed' = None
    /\ UNCHANGED shown

(* decode_qr(image) *)
DecodeQrAction ==
    /\ shown # None
    /\ frame # <<>>
    /\ scanned = None
    /\ scanned' = DecodeQr(frame)
    /\ UNCHANGED <<shown, frame, parsed>>

(* QrVerificationData::from_bytes on the scanned bytes *)
Parse ==
    /\ scanned # None
    /\ scanned.ok
    /\ parsed = None
    /\ parsed' = FromBytes(scanned.val)
    /\ UNCHANGED <<shown, frame, scanned>>

Next ==
    \/ \E mode \in Modes, flow \in BoundedSeq({"f"}, MaxFlowLen),
          k1 \in Arg("a"), k2 \in Arg("b"), secret \in Arg("s") :
          ShowCode(mode, flow, k1, k2, secret)
    \/ DetectGrids
    \/ DecodeQrAction
    \/ Parse

Spec == Init /\ [][Next]_vars

-----------------------------------------------------------------------------

(* A code on show holds the layout of to_bytes: tag, version, mode, the *)
(* PrefixSize-byte flow-id length, the flow id, both keys and the secret *)
TypeOK ==
    /\ shown = None \/ ~shown.out.ok
         \/ Len(shown.out.val) = Len(HEADER) + 2 + PrefixSize + Len(shown.in.flow)
                                 + Len(shown.in.k1) + Len(shown.in.k2) + Len(shown.in.secret)
    /\ frame \in BoundedSeq(GridKinds, MaxGrids)
    /\ scanned = None \/ scanned.ok \in BOOLEAN
    /\ parsed = None \/ parsed.ok \in BOOLEAN

(* A grid that decode_to reads as bytes starting with the MATRIX tag *)
Tagged(g) == DecodeGrid(g).ok /\ StartsWithHeader(DecodeGrid(g).val)

(* The scan policy of spec sections 4.2 and 9, to be kept exactly: when *)
(* some grid of the frame decodes to tagged bytes, the scan returns the *)
(* bytes of the first such grid in detection order, whatever foreign or *)
(* failing grids come before it.  So the code on show is found in any   *)
(* noise, and an older MATRIX code detected before it wins.  About the  *)
(* early return and the error kept across grids in decode_qr's loop.    *)
ScanAcceptsFirstTagged ==
    scanned # None /\ (\E i \in 1..Len(frame) : Tagged(frame[i]))
      => LET first == CHOOSE k \in 1..Len(frame) :
                          Tagged(frame[k]) /\ \A j \in 1..(k - 1) : ~Tagged(frame[j])
         IN scanned = DecodeGrid(frame[first])

(* Inputs the decoder can split: keys of KeyLen bytes and a secret of at *)
(* least MinSecretLen bytes.                                             *)
Splittable(in) ==
    Len(in.k1) = KeyLen /\ Len(in.k2) = KeyLen /\ Len(in.secret) >= MinSecretLen

(* A scan of the code on show parses back to what was encoded: to_bytes  *)
(* either refuses the input or frames it so that the decoder recovers   *)
(* mode, flow id, both keys and the secret.  About the u16 length prefix *)
(* and the concatenation in to_bytes.                                    *)
QrRoundTrip ==
    /\ parsed # None
    /\ scanned = Ok(shown.out.val)
    /\ shown.in.mode <= MAX_MODE
    /\ Splittable(shown.in)
    => parsed = Ok(shown.in)

(* Spec, section 8: the round trip holds for arbitrary byte strings in   *)
(* the three trailing fields.                                            *)
QrRoundTripAnyFields ==
    /\ parsed # None
    /\ scanned = Ok(shown.out.val)
    /\ shown.in.mode <= MAX_MODE
    => parsed = Ok(shown.in)

(* Spec, section 4.2: when no grid yields a tagged payload, decode_qr    *)
(* fails with Header if some grid decoded (without the tag), and with   *)
(* the most recent decode error otherwise.                               *)
LastDecodeError(grids) ==
    LET errs == SelectSeq(grids, LAMBDA g : g \in DecodeErrors)
    IN errs[Len(errs)]
ScanErrorAsSpecified ==
    scanned # None /\ ~scanned.ok
      => scanned.val = IF \E i \in 1..Len(frame) : frame[i] \notin DecodeErrors
                       THEN "Header" ELSE LastDecodeError(frame)
=============================================================================
