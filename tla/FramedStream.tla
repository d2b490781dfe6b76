---------------------------- MODULE FramedStream ----------------------------
(***************************************************************************)
(* Cables on a byte stream: init_cable and xsendall in the client's        *)
(* threads, recv_client with cable_recv_data and xrecvall in the daemon    *)
(* (src/common/cable.c, xutils.c, src/parceld/daemon.c).  The kernel may   *)
(* split what is written and what is read anywhere.  A cable is a          *)
(* signature, its length, and a payload; bytes are not interpreted, only   *)
(* numbered.                                                               *)
(***************************************************************************)
EXTENDS Naturals, Sequences

CONSTANTS
    Thread,        \* threads that write to the socket (recv_thread, send_thread)
    Total,         \* lengths of cables, header included
    SigSize,       \* bytes of the signature (6)
    HeaderSize,    \* bytes of cable_header_t (14)
    MaxCables,     \* bound on the cables written
    Overlap,       \* may a thread send while another one's send is unfinished?
    ShortHeader,   \* may a single xsend or xrecv end inside a header?
    Closes         \* may the connection be closed?

ASSUME StreamAssumption ==
    /\ SigSize \in Nat \ {0} /\ HeaderSize \in Nat /\ SigSize < HeaderSize
    /\ Total \subseteq Nat /\ \A n \in Total : HeaderSize < n
    /\ MaxCables \in Nat
    /\ Overlap \in BOOLEAN /\ ShortHeader \in BOOLEAN /\ Closes \in BOOLEAN

VARIABLES
    sent,     \* lengths of the cables whose transmission has begun
    out,      \* out[t]: bytes that t's xsendall still has to write
    stream,   \* bytes on their way
    closed,   \* the writing end is closed
    rpc,      \* daemon: "header", "payload", "failed", "disconnected"
    buf,      \* bytes of the cable being received
    need,     \* bytes xrecvall still wants
    relayed   \* cables handed to transfer_message; 0 for one that is not as it was sent

vars == <<sent, out, stream, closed, rpc, buf, need, relayed>>

\* The bytes of cable number i with length n.
CableBytes(i, n) == [p \in 1 .. n |-> [cable |-> i, pos |-> p, len |-> n]]

Take(s, n) == SubSeq(s, 1, n)
Drop(s, n) == SubSeq(s, n + 1, Len(s))

Init ==
    /\ sent = << >>
    /\ out = [t \in Thread |-> << >>]
    /\ stream = << >>
    /\ closed = FALSE
    /\ rpc = "header"
    /\ buf = << >>
    /\ need = 0
    /\ relayed = << >>

-----------------------------------------------------------------------------
(***************************************************************************)
(* Writing                                                                 *)
(***************************************************************************)

MutantResume(b, n) == Drop(b, n + 1)

\* what is left of b for the next xsend: i += bytes_sent
Resume(b, n) == Drop(b, n)

\* One xsend of xsendall's loop, with b still to be written: the kernel takes
\* at least `least` bytes.
xsend(t, b, least) ==
    \E n \in least .. Len(b) :
        /\ stream' = stream \o Take(b, n)
        /\ out' = [out EXCEPT ![t] = Resume(b, n)]

\* transmit_wire: init_cable and the first xsend.
transmit_wire(t) ==
    /\ ~closed /\ out[t] = << >>
    /\ Overlap \/ \A u \in Thread : out[u] = << >>
    /\ Len(sent) < MaxCables
    /\ \E n \in Total :
        /\ sent' = Append(sent, n)
        /\ xsend(t, CableBytes(Len(sent) + 1, n), IF ShortHeader THEN 1 ELSE HeaderSize)
    /\ UNCHANGED <<closed, rpc, buf, need, relayed>>

\* The loop goes on until everything is written.
xsendall(t) ==
    /\ ~closed /\ out[t] # << >>
    /\ xsend(t, out[t], 1)
    /\ UNCHANGED <<sent, closed, rpc, buf, need, relayed>>

\* The process ends, or cmd_exit shuts the socket down.
close ==
    /\ Closes /\ ~closed
    /\ closed' = TRUE
    /\ UNCHANGED <<sent, out, stream, rpc, buf, need, relayed>>

-----------------------------------------------------------------------------
(***************************************************************************)
(* Reading                                                                 *)
(***************************************************************************)

\* cable_check_signature
Signed(b) == Len(b) >= SigSize /\ \A i \in 1 .. SigSize : b[i].pos = i

\* cable_get_total_len of a header; what is missing from it is still zero.
Declared(b) ==
    IF Len(b) = HeaderSize /\ \A i \in 1 .. HeaderSize : b[i].cable = b[1].cable /\ b[i].pos = i
    THEN {b[1].len} ELSE 0 .. b[1].len

MutantRemaining(n) == n

\* cable_recv_remaining
Remaining(n) == n - HeaderSize

(***************************************************************************)
(* cable_recv_data with a header: the checks before xrecvall.  A length    *)
(* below that of the header wraps around and is never satisfied.           *)
(***************************************************************************)
cable_recv_data(b) ==
    IF ~Signed(b) THEN rpc' = "failed" /\ UNCHANGED need
    ELSE \E d \in Declared(b) :
            IF d < HeaderSize THEN rpc' = "failed" /\ UNCHANGED need
            ELSE rpc' = "payload" /\ need' = Remaining(d)

\* recv_client: one xrecv for the header, which may return less.
recv_client ==
    /\ rpc = "header"
    /\ \E n \in 1 .. HeaderSize :
        /\ n <= Len(stream)
        /\ ShortHeader \/ n = HeaderSize
        /\ buf' = Take(stream, n)
        /\ stream' = Drop(stream, n)
        /\ cable_recv_data(Take(stream, n))
    /\ UNCHANGED <<sent, out, closed, relayed>>

\* xrecv returns 0 for the header: daemon_handle_disconnect.
disconnect ==
    /\ rpc = "header" /\ closed /\ stream = << >>
    /\ rpc' = "disconnected"
    /\ UNCHANGED <<sent, out, stream, closed, buf, need, relayed>>

\* the number of the cable that b is, or 0
Identify(b) ==
    IF b = CableBytes(b[1].cable, b[1].len) THEN b[1].cable ELSE 0

(***************************************************************************)
(* One xrecv of xrecvall's loop; after the last one transfer_message gets  *)
(* the cable.  On a closed stream without data xrecv returns 0 and the     *)
(* loop goes on: no state changes.                                         *)
(***************************************************************************)
xrecvall ==
    /\ rpc = "payload"
    /\ \E n \in 0 .. need :
        /\ n <= Len(stream)
        /\ n > 0 \/ need = 0
        /\ stream' = Drop(stream, n)
        /\ need' = need - n
        /\ IF need = n
           THEN /\ relayed' = Append(relayed, Identify(buf \o Take(stream, n)))
                /\ rpc' = "header" /\ buf' = << >>
           ELSE /\ buf' = buf \o Take(stream, n)
                /\ UNCHANGED <<rpc, relayed>>
    /\ UNCHANGED <<sent, out, closed>>

Reader == recv_client \/ disconnect \/ xrecvall

Next == Reader \/ close \/ \E t \in Thread : transmit_wire(t) \/ xsendall(t)

Spec == Init /\ [][Next]_vars

\* The daemon reads on, and a send that has begun goes on; nobody has to send.
FairSpec == Spec /\ WF_vars(Reader) /\ \A t \in Thread : WF_vars(xsendall(t))

-----------------------------------------------------------------------------
Byte == [cable : 1 .. MaxCables, pos : Nat, len : Total]

TypeOK ==
    /\ sent \in Seq(Total) /\ Len(sent) <= MaxCables
    /\ out \in [Thread -> Seq(Byte)]
    /\ stream \in Seq(Byte) /\ buf \in Seq(Byte)
    /\ closed \in BOOLEAN
    /\ rpc \in {"header", "payload", "failed", "disconnected"}
    /\ need \in Nat
    /\ relayed \in Seq(0 .. MaxCables)

Channel == INSTANCE CableChannel WITH Total <- Total, sent <- sent, relayed <- relayed

(***************************************************************************)
(* README.md: the framing "allows the receiver to know exactly how much    *)
(* data to expect".  However the kernel splits reads and writes, what the  *)
(* daemon relays is what was sent: whole cables, in order, none twice.     *)
(***************************************************************************)
ImplementsChannel == Channel!Spec

(***************************************************************************)
(* A client's own cables never end the daemon: every header it reads is    *)
(* the header of a cable.                                                  *)
(***************************************************************************)
NeverFails == rpc # "failed"

(***************************************************************************)
(* Every cable whose transmission has begun is relayed in the end, unless  *)
(* the connection was closed before all of it was written.                 *)
(***************************************************************************)
CutOff(i) == closed /\ \E t \in Thread : out[t] # << >> /\ out[t][1].cable = i

Delivered ==
    \A i \in 1 .. MaxCables :
        (Len(sent) >= i) ~> (Len(relayed) >= i \/ CutOff(i))

=============================================================================
