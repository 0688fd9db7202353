-------------------------- MODULE KeyExportAbstract --------------------------
(***************************************************************************)
(* What the key export codec promises (spec sections 3, 4.1, 8): an export *)
(* is a sealed box holding a key list under a passphrase.  Whoever holds a *)
(* box and a passphrase either opens it and gets exactly the sealed list,   *)
(* which needs the sealing passphrase, or gets an error.  A box that        *)
(* arrived untouched always opens under its own passphrase; one that was    *)
(* tampered with may or may not open.                                       *)
(***************************************************************************)
CONSTANTS
    Passphrases,
    KeyLists,      \* key lists that may be exported
    Forgers,       \* passphrases whose holders make boxes of their own
    None

VARIABLES
    sealed,        \* [keys, pass] of every box made
    held,          \* the box the importer holds, and whether it is intact
    outcome        \* the passphrase of the last opening and its result

avars == <<sealed, held, outcome>>

Opened(pass, keys) == [pass |-> pass, ok |-> TRUE, keys |-> keys]
Refused(pass) == [pass |-> pass, ok |-> FALSE, keys |-> <<>>]

Init ==
    /\ sealed = {}
    /\ held = None
    /\ outcome = None

Seal(keys, pass) ==
    /\ sealed' = sealed \cup {[keys |-> keys, pass |-> pass]}
    /\ UNCHANGED <<held, outcome>>

Hand(box) ==
    /\ box \in sealed
    /\ held' = [keys |-> box.keys, pass |-> box.pass, intact |-> TRUE]
    /\ UNCHANGED <<sealed, outcome>>

(* A holder of a passphrase hands over a box it made itself *)
Forge(pass) ==
    /\ \E keys \in KeyLists : held' = [keys |-> keys, pass |-> pass, intact |-> FALSE]
    /\ UNCHANGED <<sealed, outcome>>

Tamper ==
    /\ held # None
    /\ held' = [held EXCEPT !.intact = FALSE]
    /\ UNCHANGED <<sealed, outcome>>

Open(pass) ==
    /\ held # None
    /\ outcome' \in CASE pass # held.pass -> {Refused(pass)}
                      [] held.intact      -> {Opened(pass, held.keys)}
                      [] OTHER            -> {Opened(pass, held.keys), Refused(pass)}
    /\ UNCHANGED <<sealed, held>>

Next ==
    \/ \E keys \in KeyLists, pass \in Passphrases : Seal(keys, pass)
    \/ \E box \in sealed : Hand(box)
    \/ \E pass \in Forgers : Forge(pass)
    \/ Tamper
    \/ \E pass \in Passphrases : Open(pass)

Spec == Init /\ [][Next]_avars
=============================================================================
