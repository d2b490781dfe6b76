---------------------------- MODULE GroupExchange ----------------------------
(***************************************************************************)
(* The N-party Diffie-Hellman exchange of src/common/key-exchange.c: one   *)
(* run of n_party_server in the daemon against n_party_client in every     *)
(* connected client.  The daemon sends a CTRL cable to every slot and then *)
(* rotates intermediate keys to the right for N - 1 rounds.                *)
(*                                                                         *)
(* Each client is a pair of threads that share one socket: recv_thread     *)
(* runs n_party_client, while send_thread may at any moment put the cable  *)
(* of a chat message on the same socket.  The daemon does not expect that  *)
(* cable in the middle of an exchange.                                     *)
(***************************************************************************)
EXTENDS Naturals, Sequences

CONSTANTS
    N,        \* srv->sockets.cnt, the clients taking part; they sit in slots 1..N
    MaxTexts  \* bound on the cables each send_thread writes during the exchange

ASSUME NAssumption == N \in Nat \ {0}
ASSUME MaxTextsAssumption == MaxTexts \in Nat

Slot == 1 .. N

VARIABLES
    dpc,      \* where n_party_server is: "start", "ctrl", "rotate", "done", "failed"
    di,       \* its loop variable i of server_send_ctrl_key and rotate_intermediates
    round,    \* its loop variable i of n_party_server: completed rotations
    up,       \* up[c]: stream from client c to the daemon
    down,     \* down[c]: stream from the daemon to client c
    cpc,      \* where recv_thread of c is: "idle", "recv", "done", "failed"
    cnt,      \* cnt[c]: rounds announced by the CTRL message c received
    ci,       \* ci[c]: intermediate keys c has received
    session,  \* session[c]: the point whose digest is c's session key
    texts     \* texts[c]: cables send_thread of c has written so far

dvars == <<dpc, di, round>>
cvars == <<cpc, cnt, ci, session>>
vars == <<dpc, di, round, up, down, cpc, cnt, ci, session, texts>>

-----------------------------------------------------------------------------
(***************************************************************************)
(* Points of the curve.  x25519 is commutative in the secrets applied to   *)
(* the base point, so a point is how often each client's secret is in it.  *)
(***************************************************************************)
Point == [Slot -> Nat]
BasePoint == [j \in Slot |-> 0]

\* Q = d * G
point_kx(c, p) == [p EXCEPT ![c] = @ + 1]
point_q(c) == point_kx(c, BasePoint)

(***************************************************************************)
(* What travels on a socket: the ke_t of an exchange, the CTRL cable that  *)
(* starts one, and the cable of a chat message.                            *)
(***************************************************************************)
Ke(p) == [type |-> "ke", key |-> p]
Ctrl(r) == [type |-> "ctrl", cnt |-> r]
TextCable == [type |-> "text"]

KeMsg == [type : {"ke"}, key : Point]
CtrlMsg == [type : {"ctrl"}, cnt : Nat]
TextMsg == [type : {"text"}]

MutantRounds == N

\* as many rotations as there are other clients
rounds == N - 1

MutantLastSlot == N - 1

\* bounds of the loops over the table; slot 0 is the daemon's own socket
FirstSlot == 1
LastSlot == N

MutantRightOf(i) == IF i = N THEN 2 ELSE i + 1

\* rotate_intermediates: rotate right, skip the daemon's own socket
RightOf(i) == IF i = N THEN FirstSlot ELSE i + 1

-----------------------------------------------------------------------------
Init ==
    /\ dpc = "start"
    /\ di = 1
    /\ round = 0
    /\ up = [c \in Slot |-> << >>]
    /\ down = [c \in Slot |-> << >>]
    /\ cpc = [c \in Slot |-> "idle"]
    /\ cnt = [c \in Slot |-> 0]
    /\ ci = [c \in Slot |-> 0]
    /\ session = [c \in Slot |-> BasePoint]
    /\ texts = [c \in Slot |-> 0]

(***************************************************************************)
(* The daemon.                                                             *)
(***************************************************************************)

\* n_party_server is entered; with a single client there is nothing to do.
n_party_server ==
    /\ dpc = "start"
    /\ dpc' = IF rounds < 1 THEN "done" ELSE "ctrl"
    /\ UNCHANGED <<di, round, up, down, cvars, texts>>

\* One iteration of server_send_ctrl_key.
server_send_ctrl_key ==
    /\ dpc = "ctrl"
    /\ down' = [down EXCEPT ![di] = Append(@, Ctrl(rounds))]
    /\ IF di = LastSlot
       THEN di' = FirstSlot /\ dpc' = "rotate"
       ELSE di' = di + 1 /\ dpc' = dpc
    /\ UNCHANGED <<round, up, cvars, texts>>

(***************************************************************************)
(* One iteration of rotate_intermediates: a blocking ke_rcv from slot di   *)
(* and a ke_snd to the slot on its right.  Anything but a ke_t of the      *)
(* right type fails the exchange, and with it the daemon.  Between the two *)
(* calls the daemon touches only its own stack, so they are one step.      *)
(***************************************************************************)
rotate_intermediates ==
    /\ dpc = "rotate"
    /\ up[di] # << >>
    /\ up' = [up EXCEPT ![di] = Tail(@)]
    /\ IF Head(up[di]).type # "ke"
       THEN dpc' = "failed" /\ UNCHANGED <<di, round, down>>
       ELSE /\ down' = [down EXCEPT ![RightOf(di)] = Append(@, Ke(Head(up[di]).key))]
            /\ IF di = N
               THEN /\ di' = FirstSlot
                    /\ round' = round + 1
                    /\ dpc' = IF round + 1 < rounds THEN "rotate" ELSE "done"
               ELSE di' = di + 1 /\ UNCHANGED <<round, dpc>>
    /\ UNCHANGED <<cvars, texts>>

(***************************************************************************)
(* A client.                                                               *)
(***************************************************************************)

\* proc_ctrl enters n_party_client, which sends the client's own public key.
proc_ctrl(c) ==
    /\ cpc[c] = "idle"
    /\ down[c] # << >>
    /\ Head(down[c]).type = "ctrl"
    /\ down' = [down EXCEPT ![c] = Tail(@)]
    /\ cnt' = [cnt EXCEPT ![c] = Head(down[c]).cnt]
    /\ up' = [up EXCEPT ![c] = Append(@, Ke(point_q(c)))]
    /\ cpc' = [cpc EXCEPT ![c] = "recv"]
    /\ UNCHANGED <<dvars, ci, session, texts>>

(***************************************************************************)
(* One iteration of n_party_client: receive the key of the left neighbour, *)
(* add the own secret, and either keep the result (last round) or pass it  *)
(* on.  A message of another type fails the exchange in this client.       *)
(***************************************************************************)
n_party_client(c) ==
    /\ cpc[c] = "recv"
    /\ down[c] # << >>
    /\ down' = [down EXCEPT ![c] = Tail(@)]
    /\ IF Head(down[c]).type # "ke"
       THEN cpc' = [cpc EXCEPT ![c] = "failed"] /\ UNCHANGED <<up, ci, session>>
       ELSE LET shared == point_kx(c, Head(down[c]).key)
            IN  /\ ci' = [ci EXCEPT ![c] = @ + 1]
                /\ IF ci[c] = cnt[c] - 1
                   THEN /\ session' = [session EXCEPT ![c] = shared]
                        /\ cpc' = [cpc EXCEPT ![c] = "done"]
                        /\ UNCHANGED up
                   ELSE /\ up' = [up EXCEPT ![c] = Append(@, Ke(shared))]
                        /\ UNCHANGED <<session, cpc>>
    /\ UNCHANGED <<dvars, cnt, texts>>

\* send_thread: the user's line is encrypted and written to the same socket.
send_text_msg(c) ==
    /\ texts[c] < MaxTexts
    /\ texts' = [texts EXCEPT ![c] = @ + 1]
    /\ up' = [up EXCEPT ![c] = Append(@, TextCable)]
    /\ UNCHANGED <<dvars, down, cvars>>

Daemon == n_party_server \/ server_send_ctrl_key \/ rotate_intermediates
Client(c) == proc_ctrl(c) \/ n_party_client(c)

Next == Daemon \/ (\E c \in Slot : Client(c) \/ send_text_msg(c))

Spec == Init /\ [][Next]_vars

(***************************************************************************)
(* The daemon's thread and every recv_thread keep running, and TCP keeps   *)
(* delivering.  Nobody is forced to type a message.                        *)
(***************************************************************************)
FairSpec == Spec /\ WF_vars(Daemon) /\ \A c \in Slot : WF_vars(Client(c))

-----------------------------------------------------------------------------
TypeOK ==
    /\ dpc \in {"start", "ctrl", "rotate", "done", "failed"}
    /\ di \in Slot
    /\ round \in 0 .. rounds
    /\ up \in [Slot -> Seq(KeMsg \cup TextMsg)]
    /\ down \in [Slot -> Seq(KeMsg \cup CtrlMsg)]
    /\ cpc \in [Slot -> {"idle", "recv", "done", "failed"}]
    /\ cnt \in [Slot -> Nat]
    /\ ci \in [Slot -> 0 .. rounds]
    /\ session \in [Slot -> Point]
    /\ texts \in [Slot -> 0 .. MaxTexts]

(***************************************************************************)
(* Any two clients that return from n_party_client hold the same session   *)
(* key, and every client of the group contributed its secret to it exactly *)
(* once -- whatever send_threads do meanwhile, and even if the daemon's    *)
(* side of the exchange fails.                                             *)
(***************************************************************************)
KeyAgreement ==
    \A c \in Slot : cpc[c] = "done" => session[c] = [j \in Slot |-> 1]

(***************************************************************************)
(* The daemon relays every intermediate key but never the group key: each  *)
(* key on a socket lacks the secret of at least one client.                *)
(***************************************************************************)
Lacks(m) == m.type = "ke" => \E j \in Slot : m.key[j] = 0

DaemonBlind ==
    \A c \in Slot :
        /\ \A p \in 1 .. Len(up[c]) : Lacks(up[c][p])
        /\ \A p \in 1 .. Len(down[c]) : Lacks(down[c][p])

(***************************************************************************)
(* The daemon's blocking rotation never lets a client read a message of    *)
(* the wrong kind: ke_rcv in n_party_client cannot fail on the type, and a *)
(* client waiting for CTRL finds CTRL at the head of its stream.           *)
(***************************************************************************)
ClientInStep ==
    \A c \in Slot :
        /\ cpc[c] # "failed"
        /\ (cpc[c] = "idle" /\ down[c] # << >>) => Head(down[c]).type = "ctrl"

(***************************************************************************)
(* README.md, Key Exchange: after the sequence "all clients posess a new   *)
(* shared key".  Every exchange of two or more clients ends with a session *)
(* key in every client, or else the daemon has read the cable of a chat    *)
(* message where it waited for a ke_t: nothing else stops it, nobody waits *)
(* for ever.                                                               *)
(***************************************************************************)
ExchangeCompletes ==
    N > 1 => <>(\/ \A c \in Slot : cpc[c] = "done"
                \/ dpc = "failed" /\ \E c \in Slot : texts[c] > 0)

-----------------------------------------------------------------------------
(***************************************************************************)
(* Why KeyAgreement holds: the inductive invariant.                        *)
(*                                                                         *)
(* The k-th key a client puts on its socket (k = 0, 1, ...) is Pt(c, k):   *)
(* its own secret and those of the k clients to its left.  The daemon      *)
(* forwards it as the k-th key of the client to the right.  So all that    *)
(* has to be tracked is how many keys have crossed each end of a socket.   *)
(***************************************************************************)
LeftOf(c) == IF c = 1 THEN N ELSE c - 1
Dist(j, c) == IF j <= c THEN c - j ELSE (c + N) - j
Pt(c, k) == [j \in Slot |-> IF Dist(j, c) <= k THEN 1 ELSE 0]

\* keys the daemon has received from c, keys c has sent
Rcvd(c) ==
    IF dpc \in {"start", "ctrl"} THEN 0
    ELSE IF c < di THEN round + 1 ELSE round

Sent(c) ==
    IF cpc[c] = "idle" THEN 0
    ELSE IF cpc[c] = "recv" THEN ci[c] + 1 ELSE ci[c]

CtrlSent(c) ==
    N > 1 /\ (dpc \in {"rotate", "done", "failed"} \/ (dpc = "ctrl" /\ c < di))

DaemonInv ==
    /\ dpc = "start" => di = 1
    /\ dpc \in {"start", "ctrl"} => round = 0
    /\ dpc \in {"ctrl", "rotate", "failed"} => round < rounds
    /\ dpc = "done" => round = rounds /\ di = 1

ClientInv(c) ==
    /\ cpc[c] # "failed"
    /\ cpc[c] = "idle" => ci[c] = 0
    /\ cpc[c] = "recv" => cnt[c] = rounds /\ ci[c] < rounds
    /\ cpc[c] = "done" => ci[c] = rounds /\ session[c] = Pt(c, rounds)

DownInv(c) ==
    /\ ~CtrlSent(c) => cpc[c] = "idle" /\ down[c] = << >>
    /\ CtrlSent(c) /\ cpc[c] = "idle" =>
        /\ Len(down[c]) = 1 + Rcvd(LeftOf(c))
        /\ down[c][1] = Ctrl(rounds)
        /\ \A p \in 2 .. Len(down[c]) : down[c][p] = Ke(Pt(LeftOf(c), p - 2))
    /\ CtrlSent(c) /\ cpc[c] # "idle" =>
        /\ Len(down[c]) + ci[c] = Rcvd(LeftOf(c))
        /\ \A p \in 1 .. Len(down[c]) :
               down[c][p] = Ke(Pt(LeftOf(c), ci[c] + p - 1))

\* no chat cable among the first p messages still to be read from c
OnlyKeys(c, p) == \A q \in 1 .. p : up[c][q].type = "ke"

UpInv(c) ==
    /\ \A p \in 1 .. Len(up[c]) : up[c][p].type = "ke" =>
           \E k \in 0 .. N - 2 : up[c][p].key = Pt(c, k)
    /\ dpc # "failed" =>
        /\ OnlyKeys(c, Len(up[c])) => Rcvd(c) + Len(up[c]) = Sent(c)
        /\ \A p \in 1 .. Len(up[c]) :
               OnlyKeys(c, p) => up[c][p].key = Pt(c, Rcvd(c) + p - 1)

(***************************************************************************)
(* Every key under way is the one its position calls for: the k-th key     *)
(* from a client carries the secrets of the client and of the k clients to *)
(* its left, and no client has run ahead of, or behind, its neighbours.    *)
(***************************************************************************)
KeysInPosition ==
    DaemonInv /\ \A c \in Slot : ClientInv(c) /\ DownInv(c) /\ UpInv(c)

IInv == TypeOK /\ KeysInPosition

=============================================================================
