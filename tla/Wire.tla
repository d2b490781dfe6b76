-------------------------------- MODULE Wire --------------------------------
(***************************************************************************)
(* Wires (src/common/wire.c): init_wire pads the payload, encrypt_wire     *)
(* encrypts and authenticates, decrypt_wire tries two keys and checks two  *)
(* MACs, a signature and a length before it accepts.  Between the two any  *)
(* part of the wire may have changed, and the cable may have delivered a   *)
(* different number of bytes.  AES and CMAC are ideal: a MAC verifies only *)
(* under the key that made it and over the bytes it was made of.  Module   *)
(* Payload adds what the wires carry.                                      *)
(***************************************************************************)
EXTENDS Naturals

CONSTANTS
    Keys,       \* symmetric keys
    BLOCK_LEN,  \* AES block (16)
    MaxPayload  \* longest payload

NULL == "null"
Parts == {"mac_outer", "mac_inner", "iv", "header", "data"}
WireSize == 4 * BLOCK_LEN  \* sizeof(wire_t): three blocks of wire_auth_t and the header

ASSUME WireAssumption ==
    BLOCK_LEN \in Nat \ {0} /\ BLOCK_LEN < 256 /\ MaxPayload \in Nat /\ NULL \notin Keys

VARIABLES
    n,         \* payload bytes given to init_wire
    under,     \* the key of encrypt_wire
    key1, key2, \* the keys of decrypt_wire; key2 may be NULL
    changed,   \* parts that differ from what encrypt_wire produced
    len,       \* bytes received
    key,       \* the key being tried
    wire_len,  \* length in the decrypted header
    pc         \* "inner", "header", "outer", "accepted", "rejected"

wvars == <<n, under, key1, key2, changed, len, key, wire_len, pc>>
input == <<n, under, key1, key2, changed, len>>

-----------------------------------------------------------------------------
\* get_aligned_len: ROUND_UP to whole blocks
get_aligned_len(m) == ((m + BLOCK_LEN - 1) \div BLOCK_LEN) * BLOCK_LEN

\* the padding, kept in one byte of the header
Alignment(m) == (get_aligned_len(m) - m) % 256

\* init_wire
init_wire_len(m) == WireSize + get_aligned_len(m)

\* header_get_data_length
data_length(total, alignment) == total - WireSize - alignment

WireInit ==
    /\ n \in 1 .. MaxPayload
    /\ under \in Keys /\ key1 \in Keys /\ key2 \in Keys \cup {NULL}
    /\ changed \in SUBSET Parts
    /\ len \in {init_wire_len(n) - BLOCK_LEN, init_wire_len(n), init_wire_len(n) + BLOCK_LEN}
    /\ key = key1
    /\ wire_len = 0
    /\ pc = "inner"

-----------------------------------------------------------------------------
\* the inner MAC authenticates the encrypted header
InnerMacOk == key = under /\ changed \cap {"mac_inner", "header"} = {}

\* the outer MAC authenticates everything behind it
OuterMacOk == key = under /\ changed = {}

MutantHasSecond == TRUE
MutantKey1Only == FALSE

\* is there another key to try after key1?
HasSecond == key2 # NULL

wire_verify_inner_mac ==
    /\ pc = "inner"
    /\ \/ /\ InnerMacOk
          /\ pc' = "header" /\ UNCHANGED key
       \/ /\ ~InnerMacOk /\ key = key1 /\ HasSecond /\ key1 # key2
          /\ key' = key2 /\ UNCHANGED pc
       \/ /\ ~InnerMacOk /\ (key # key1 \/ ~HasSecond \/ key1 = key2)
          /\ pc' = "rejected" /\ UNCHANGED key
    /\ UNCHANGED <<input, wire_len>>

\* the length in the header is the number of bytes received
LengthOk(l) == len = l

(***************************************************************************)
(* wire_decrypt_header.  The IV is not covered by the inner MAC: a changed *)
(* IV changes the decrypted header.  The signature may be gone, which      *)
(* makes the whole header zero, or only the length may be another one.     *)
(***************************************************************************)
wire_decrypt_header ==
    /\ pc = "header"
    /\ wire_len' \in IF "iv" \in changed
                     THEN {0, len, init_wire_len(n), init_wire_len(n) + 2 * BLOCK_LEN}
                     ELSE {init_wire_len(n)}
    /\ pc' = IF LengthOk(wire_len') THEN "outer" ELSE "rejected"
    /\ UNCHANGED <<input, key>>

wire_verify_outer_mac ==
    /\ pc = "outer"
    /\ pc' = IF OuterMacOk /\ wire_len = init_wire_len(n) THEN "accepted" ELSE "rejected"
    /\ UNCHANGED <<input, key, wire_len>>

WireNext == wire_verify_inner_mac \/ wire_decrypt_header \/ wire_verify_outer_mac

-----------------------------------------------------------------------------
WireTypeOK ==
    /\ n \in 1 .. MaxPayload /\ under \in Keys /\ key1 \in Keys
    /\ key2 \in Keys \cup {NULL} /\ changed \subseteq Parts /\ key \in Keys
    /\ len \in Nat /\ wire_len \in Nat
    /\ pc \in {"inner", "header", "outer", "accepted", "rejected"}

(***************************************************************************)
(* decrypt_wire accepts nothing but what encrypt_wire made under one of    *)
(* the receiver's two keys, whole and unchanged, although the first MAC    *)
(* covers only the header and the IV steers what the header decrypts to;   *)
(* and it rejects no such wire, whichever of the two keys it is under.     *)
(***************************************************************************)
AcceptsExactlyAuthentic ==
    /\ pc = "accepted" => changed = {} /\ under \in {key1, key2} /\ len = init_wire_len(n)
    /\ pc = "rejected" =>
         changed # {} \/ under \notin {key1, key2} \/ len # init_wire_len(n)

=============================================================================
