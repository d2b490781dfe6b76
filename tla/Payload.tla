------------------------------- MODULE Payload -------------------------------
(***************************************************************************)
(* What wires carry (src/common/wire-gen.h, wire-text.c, wire-stat.c,      *)
(* wire-file.c, wire-ctrl.c, and the readers in src/parcel/proc-type.c):   *)
(* packed structures with a length of their own, fixed fields, and data    *)
(* behind them that no NUL follows.  Composed with module Wire, which pads *)
(* them to whole blocks and checks what arrives.                           *)
(*                                                                         *)
(* Data are told apart by their length.  What a reader prints of them is   *)
(* left out: proc_text and proc_stat print the data as a string, and only  *)
(* the padding of init_wire, if there is any, ends it.                     *)
(***************************************************************************)
EXTENDS Wire

CONSTANTS
    Radix, LEN_BYTES,  \* a byte (256), and how many of them hold a length (8)
    NAME_LENGTH,       \* the user field, and USERNAME_MAX_LENGTH (64)
    FILE_FIELDS,       \* filename, gid, uid and mode
    KEY_LEN,           \* the renewed key of a CTRL message
    MaxData            \* bound on texts and files

\* what the byte in place i of a length counts
Place[i \in 0 .. LEN_BYTES] == IF i = 0 THEN 1 ELSE Radix * Place[i - 1]

ASSUME PayloadAssumption ==
    /\ Radix \in Nat \ {0, 1} /\ LEN_BYTES \in Nat \ {0}
    /\ NAME_LENGTH \in Nat \ {0} /\ FILE_FIELDS \in Nat /\ KEY_LEN \in Nat /\ MaxData \in Nat
    /\ MaxPayload < Place[LEN_BYTES]

Kinds == {"text", "connect", "rename", "file", "ctrl"}

VARIABLES
    kind,   \* of the message; connect stands for disconnect too
    named,  \* is the sender's ctx->username other than empty?
    data,   \* bytes of the text, the new name, the file or the key
    field,  \* the bytes of the message's own length
    shown   \* what the receiver has made of it: a kind, "dropped", or "nothing" yet

pvars == <<kind, named, data, field, shown>>
vars == <<wvars, pvars>>

-----------------------------------------------------------------------------
(***************************************************************************)
(* Building a message                                                      *)
(***************************************************************************)

\* sizeof the packed structure: type, len, fields
sizeof(k) ==
    1 + LEN_BYTES + CASE k = "file" -> NAME_LENGTH + FILE_FIELDS
                      [] k = "ctrl" -> 2
                      [] OTHER      -> NAME_LENGTH

MutantUnpack(x) == [i \in 0 .. LEN_BYTES - 1 |-> (x \div Place[LEN_BYTES - 1 - i]) % Radix]

\* wire_unpack64: a number to bytes, the lowest first
wire_unpack64(x) == [i \in 0 .. LEN_BYTES - 1 |-> (x \div Place[i]) % Radix]

\* wire_pack64: bytes to a number
wire_pack64(b) ==
    LET sum[i \in 0 .. LEN_BYTES] == IF i = 0 THEN 0 ELSE sum[i - 1] + b[i - 1] * Place[i - 1]
    IN  sum[LEN_BYTES]

(***************************************************************************)
(* How long the data may be.  xprompt lets a line of exactly its limit     *)
(* through, and an empty one, for a text as for a new name.                *)
(* file_msg_from_file refuses an empty file, and connect has no data.      *)
(***************************************************************************)
DataOf(k) == CASE k = "rename"  -> 0 .. NAME_LENGTH
               [] k = "text"    -> 0 .. MaxData
               [] k = "file"    -> 1 .. MaxData
               [] k = "ctrl"    -> {KEY_LEN}
               [] k = "connect" -> {0}

\* init_##name, the setters, and init_wire_from_##name
Init ==
    /\ kind \in Kinds
    /\ named \in BOOLEAN
    /\ data \in DataOf(kind)
    /\ n = sizeof(kind) + data
    /\ field = wire_unpack64(n)
    /\ shown = "nothing"
    /\ WireInit

-----------------------------------------------------------------------------
(***************************************************************************)
(* Reading it                                                              *)
(***************************************************************************)

\* ##name_get_payload_length
payload_length == wire_pack64(field) - sizeof(kind)

Reads(k) == pc = "accepted" /\ shown = "nothing" /\ kind = k /\ UNCHANGED <<wvars, kind, named, data, field>>

\* text_msg_get_user, stat_msg_get_user: false for an empty name, and the message is dropped
get_user == shown' = IF named THEN kind ELSE "dropped"

proc_text == Reads("text") /\ get_user

proc_stat == (Reads("connect") \/ Reads("rename")) /\ get_user

\* proc_file refuses a message with a user; file_msg_from_file never sets one.
proc_file == Reads("file") /\ shown' = kind

\* proc_ctrl copies KEY_LEN bytes, whatever the message says.
proc_ctrl == Reads("ctrl") /\ shown' = kind

Next ==
    \/ WireNext /\ UNCHANGED pvars
    \/ proc_text \/ proc_stat \/ proc_file \/ proc_ctrl

Spec == Init /\ [][Next]_vars

-----------------------------------------------------------------------------
TypeOK ==
    /\ WireTypeOK
    /\ kind \in Kinds /\ named \in BOOLEAN /\ data \in Nat
    /\ field \in [0 .. LEN_BYTES - 1 -> 0 .. Radix - 1]
    /\ shown # "nothing" => pc = "accepted"

(***************************************************************************)
(* A message has two lengths, one in the encrypted header (total and       *)
(* padding) and one of its own, written and read byte by byte.  They agree *)
(* once the wire is accepted, the payload is as long as the data its       *)
(* sender put in, and the data lies within what was received.              *)
(***************************************************************************)
LengthsAgree ==
    pc = "accepted" =>
        /\ wire_pack64(field) = data_length(wire_len, Alignment(n))
        /\ payload_length = data
        /\ WireSize + sizeof(kind) + payload_length <= len

=============================================================================
