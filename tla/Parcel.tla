-------------------------------- MODULE Parcel --------------------------------
(***************************************************************************)
(* The whole system: one parceld (src/parceld/daemon.c) and the parcel     *)
(* clients that connect to it, talk and leave while it runs.  The daemon   *)
(* is one thread: it selects, accepts and runs the two-party exchange,     *)
(* relays cables, and starts an N-party exchange whenever its table of     *)
(* connections changes, blocking in ke_rcv on one client after the other.  *)
(* A client is two threads: recv_thread handles what the daemon sends, and *)
(* send_thread writes the user's messages to the same socket.              *)
(*                                                                         *)
(* Keys are numbered.  server_key number k encrypts the CTRL cable that    *)
(* carries number k + 1 and starts an exchange; the group key this         *)
(* exchange yields has the number k + 1 too.  That all clients of one      *)
(* exchange obtain one key is what module GroupExchange shows.  0 is the   *)
(* zeroed key of a client_t that has not been through an exchange.         *)
(***************************************************************************)
EXTENDS Naturals, Sequences, FiniteSets

CONSTANTS
    Conn,      \* the client processes; each connects at most once
    Leavers,   \* those that may close their socket, cleanly or not
    MaxTexts,  \* bound on the messages typed, over all clients
    Calm       \* TRUE: clients connect and leave only while all is quiet

Listener == "listener"
NoSock == "none"
Slots == 1 .. Cardinality(Conn)

ASSUME ConnAssumption ==
    IsFiniteSet(Conn) /\ Leavers \subseteq Conn /\ Conn \cap {Listener, NoSock} = {}
ASSUME BoundAssumption == MaxTexts \in Nat /\ Calm \in BOOLEAN

VARIABLES
    dpc,       \* daemon: "scan" (main_thread), "twoparty", "ctrl", "rotate",
               \* "spin" (xrecvall on a closed socket), "exited", "aborted"
    rdy,       \* main_thread's rdy: ready descriptors not handled yet
    sfds,      \* srv->sockets.sfds, without the listening socket in slot 0
    cnt,       \* srv->sockets.cnt
    cur,       \* new_client of add_client
    di,        \* i of rotate_intermediates
    round,     \* i of n_party_server
    srvkey,    \* number of srv->server_key
    backlog,   \* connections waiting in the listen queue
    up, down,  \* the two directions of every socket
    cpc,       \* client: "out", "connected", "joining", "idle", "kx" (in n_party_client), "gone"
    ctrl,      \* keys.ctrl of each client
    session,   \* keys.session of each client
    ex,        \* the CTRL message a client is working on
    ci,        \* i of n_party_client
    announced, \* conn_announced
    snap,      \* session key that transmit_wire has read and not used yet, if any
    texts,     \* messages typed so far
    members,   \* history: members[k] was told of the exchange for key k
    lost       \* history: cables a client failed to decrypt

dvars == <<dpc, rdy, sfds, cnt, cur, di, round, srvkey, members>>
kvars == <<ctrl, session, ex, ci, announced>>
cvars == <<cpc, kvars, snap, texts, lost>>
vars == <<dvars, backlog, up, down, cvars>>

-----------------------------------------------------------------------------
(***************************************************************************)
(* Messages.                                                               *)
(***************************************************************************)
ClientPublic == [type |-> "pub"]
SessionKey(k) == [type |-> "skey", key |-> k]
Ctrl(k, r) == [type |-> "ctrl", under |-> k, renewed |-> k + 1, cnt |-> r]
Ke(k) == [type |-> "ke", ex |-> k]
Cable(k) == [type |-> "cable", under |-> k]
\* `current` is history: was the sender's key the newest when it was relayed?
Relayed(m) == [type |-> "cable", under |-> m.under, current |-> m.under = srvkey]

(***************************************************************************)
(* The daemon's view of its connections.                                   *)
(***************************************************************************)
Connected == {sfds[i] : i \in 1 .. cnt}
Gone(c) == cpc[c] = "gone"

\* Something to read: data, or the end of the stream.
Readable(c) == up[c] # << >> \/ Gone(c)

\* Bytes for a peer that is gone are never read.
Deliver(S, m) ==
    [c \in Conn |-> IF c \in S /\ ~Gone(c) THEN Append(down[c], m) ELSE down[c]]

(***************************************************************************)
(* A send to a peer that has closed its end is accepted by the kernel or   *)
(* fails (or raises SIGPIPE); every failure ends the daemon.               *)
(***************************************************************************)
MayFail(c, pc) == {pc} \cup (IF Gone(c) THEN {"exited"} ELSE {})

(***************************************************************************)
(* A loop over the table that sends to the clients in S, and reaches those *)
(* in T: all of them, or only the ones before a send that fails.           *)
(***************************************************************************)
SendLoop(S, T, pc) ==
    \/ T = S /\ dpc' = pc
    \/ \E i \in 1 .. cnt : /\ sfds[i] \in S /\ Gone(sfds[i])
                           /\ T = S \cap {sfds[j] : j \in 1 .. i - 1}
                           /\ dpc' = "exited"

Init ==
    /\ dpc = "scan"
    /\ rdy = {}
    /\ sfds = [i \in Slots |-> NoSock]
    /\ cnt = 0
    /\ cur = NoSock
    /\ di = 1
    /\ round = 0
    /\ srvkey = 1
    /\ backlog = << >>
    /\ up = [c \in Conn |-> << >>]
    /\ down = [c \in Conn |-> << >>]
    /\ cpc = [c \in Conn |-> "out"]
    /\ ctrl = [c \in Conn |-> 0]
    /\ session = [c \in Conn |-> 0]
    /\ ex = [c \in Conn |-> Ctrl(0, 0)]
    /\ ci = [c \in Conn |-> 0]
    /\ announced = [c \in Conn |-> FALSE]
    /\ snap = [c \in Conn |-> {}]
    /\ texts = 0
    /\ members = << {} >>
    /\ lost = {}

-----------------------------------------------------------------------------
(***************************************************************************)
(* main_thread                                                             *)
(***************************************************************************)
Ready == {c \in Connected : Readable(c)} \cup (IF backlog # << >> THEN {Listener} ELSE {})

\* The previous pass over the descriptors is over; select returns.
select ==
    /\ dpc = "scan" /\ rdy = {}
    /\ Ready # {}
    /\ rdy' = Ready
    /\ UNCHANGED <<dpc, sfds, cnt, cur, di, round, srvkey, members, backlog, up, down, cvars>>

\* add_client: the first slot that holds no socket
FirstFree(s) == CHOOSE i \in Slots : s[i] = NoSock /\ \A j \in 1 .. i - 1 : s[j] # NoSock

(***************************************************************************)
(* add_client up to two_party_server.  The listening socket has the lowest *)
(* descriptor, so a pass handles it before any client.  xgetpeeraddr may   *)
(* fail for a client that has already gone, before it is given a slot.     *)
(***************************************************************************)
add_client ==
    /\ dpc = "scan" /\ Listener \in rdy
    /\ rdy' = rdy \ {Listener}
    /\ cur' = Head(backlog)
    /\ backlog' = Tail(backlog)
    /\ cnt' = cnt + 1
    /\ \/ dpc' = "twoparty" /\ sfds' = [sfds EXCEPT ![FirstFree(sfds)] = Head(backlog)]
       \/ Gone(Head(backlog)) /\ dpc' = "exited" /\ UNCHANGED sfds
    /\ UNCHANGED <<di, round, srvkey, members, up, down, cvars>>

(***************************************************************************)
(* A blocking read by the daemon from client c inside an exchange.  At the *)
(* end of a stream xrecvall adds 0 to its count and tries again, for ever; *)
(* a reset connection makes it return false.                               *)
(***************************************************************************)
ReadEndsDaemon(c) ==
    /\ Gone(c)
    /\ \/ up[c] = << >> /\ dpc' = "spin"
       \/ dpc' = "exited"
    /\ UNCHANGED <<rdy, sfds, cnt, cur, di, round, srvkey, members, backlog, up, down, cvars>>

MutantSkipTwo(n, ok) == IF n = 0 THEN "aborted" ELSE IF n - 1 < 2 THEN ok ELSE "ctrl"

\* Where n_party_server goes first: assert, skip, or server_send_ctrl_key.
n_party_server(n, ok) == IF n = 0 THEN "aborted" ELSE IF n - 1 < 1 THEN ok ELSE "ctrl"

\* The client's public key is read; public key and server_key are sent back.
two_party_server ==
    /\ dpc = "twoparty"
    /\ \/ /\ up[cur] # << >>
          /\ up' = [up EXCEPT ![cur] = Tail(@)]
          /\ down' = Deliver({cur}, SessionKey(srvkey))
          /\ dpc' \in MayFail(cur, n_party_server(cnt, "scan"))
          /\ UNCHANGED <<rdy, sfds, cnt, cur, di, round, srvkey, members, backlog, cvars>>
       \/ ReadEndsDaemon(cur)

MutantFirstSlot == 0

\* every loop over the table skips the listening socket in slot 0
FirstSlot == 1

MutantAnnouncedRounds == cnt - 2

\* the count in the CTRL message: as many rotations as n_party_server makes
AnnouncedRounds == cnt - 1

(***************************************************************************)
(* server_send_ctrl_key: the renewed key travels under the old one, and    *)
(* replaces it.                                                            *)
(***************************************************************************)
server_send_ctrl_key ==
    /\ dpc = "ctrl"
    /\ \E T \in SUBSET Connected :
        /\ SendLoop(Connected, T, "rotate")
        /\ down' = Deliver(T, Ctrl(srvkey, AnnouncedRounds))
        /\ members' = Append(members, T)
    /\ srvkey' = srvkey + 1
    /\ di' = FirstSlot
    /\ round' = 0
    /\ UNCHANGED <<rdy, sfds, cnt, cur, backlog, up, cvars>>

MutantKeRcv(m) == TRUE

\* ke_rcv: anything but an intermediate key is refused
ke_rcv(m) == m.type = "ke"

(***************************************************************************)
(* One iteration of rotate_intermediates, and the loops around it.         *)
(***************************************************************************)
rotate_intermediates ==
    /\ dpc = "rotate"
    /\ LET from == sfds[di]
           to == sfds[IF di = cnt THEN 1 ELSE di + 1]
           lastRound == round + 1 = cnt - 1
       IN  \/ /\ up[from] # << >>
              /\ up' = [up EXCEPT ![from] = Tail(@)]
              /\ IF ~ke_rcv(Head(up[from]))
                 THEN dpc' = "exited" /\ UNCHANGED <<di, round, down>>
                 ELSE /\ down' = Deliver({to}, Head(up[from]))
                      /\ di' = IF di = cnt THEN 1 ELSE di + 1
                      /\ round' = IF di = cnt THEN round + 1 ELSE round
                      /\ dpc' \in MayFail(to,
                            IF di = cnt /\ lastRound THEN "scan" ELSE "rotate")
              /\ UNCHANGED <<rdy, sfds, cnt, cur, srvkey, members, backlog, cvars>>
           \/ ReadEndsDaemon(from)

(***************************************************************************)
(* recv_client with data: a cable is forwarded to everybody else           *)
(* (transfer_message); anything else has no cable signature.               *)
(***************************************************************************)
transfer_message(c) ==
    /\ dpc = "scan" /\ Listener \notin rdy /\ c \in rdy
    /\ up[c] # << >>
    /\ rdy' = rdy \ {c}
    /\ up' = [up EXCEPT ![c] = Tail(@)]
    /\ IF Head(up[c]).type # "cable"
       THEN dpc' = "exited" /\ UNCHANGED down
       ELSE \E T \in SUBSET Connected :
                SendLoop(Connected \ {c}, T, "scan") /\ down' = Deliver(T, Relayed(Head(up[c])))
    /\ UNCHANGED <<sfds, cnt, cur, di, round, srvkey, members, backlog, cvars>>

\* socket_index
socket_index(c) == CHOOSE i \in Slots : sfds[i] = c

MutantLeaveHole(i) == [sfds EXCEPT ![i] = NoSock]

\* disconnect_client: the last slot moves into the one that becomes free.
disconnect_client(i) ==
    IF cnt = 1 THEN [sfds EXCEPT ![i] = NoSock]
               ELSE [[sfds EXCEPT ![i] = sfds[cnt]] EXCEPT ![cnt] = NoSock]

\* recv_client at the end of the stream, or on a reset connection
daemon_handle_disconnect(c) ==
    /\ dpc = "scan" /\ Listener \notin rdy /\ c \in rdy
    /\ Gone(c)
    /\ rdy' = rdy \ {c}
    /\ up' = [up EXCEPT ![c] = << >>]
    /\ sfds' = disconnect_client(socket_index(c))
    /\ cnt' = cnt - 1
    /\ dpc' = n_party_server(cnt - 1, "scan")
    /\ UNCHANGED <<cur, di, round, srvkey, members, backlog, down, cvars>>

-----------------------------------------------------------------------------
(***************************************************************************)
(* Quiet: nothing is under way anywhere.                                   *)
(***************************************************************************)
Quiet ==
    /\ dpc = "scan" /\ rdy = {} /\ backlog = << >>
    /\ \A c \in Connected : cpc[c] = "idle" /\ up[c] = << >> /\ down[c] = << >>

\* connect_server: the connection waits in the listen queue.
connect_server(c) ==
    /\ cpc[c] = "out"
    /\ Calm => Quiet
    /\ cpc' = [cpc EXCEPT ![c] = "connected"]
    /\ backlog' = Append(backlog, c)
    /\ UNCHANGED <<dvars, up, down, kvars, snap, texts, lost>>

\* two_party_client sends the public key; until then a daemon that has
\* accepted the connection waits for it in two_party_server.
send_public_key(c) ==
    /\ cpc[c] = "connected"
    /\ cpc' = [cpc EXCEPT ![c] = "joining"]
    /\ up' = [up EXCEPT ![c] = << ClientPublic >>]
    /\ UNCHANGED <<dvars, backlog, down, kvars, snap, texts, lost>>

\* The rest of two_party_client; then recv_thread and send_thread start.
two_party_client(c) ==
    /\ cpc[c] = "joining"
    /\ down[c] # << >>
    /\ Head(down[c]).type = "skey"
    /\ ctrl' = [ctrl EXCEPT ![c] = Head(down[c]).key]
    /\ down' = [down EXCEPT ![c] = Tail(@)]
    /\ cpc' = [cpc EXCEPT ![c] = "idle"]
    /\ UNCHANGED <<dvars, backlog, up, session, ex, ci, announced, snap, texts, lost>>

\* decrypt_wire tries the session key, then the control key
Decrypts(c, m) == m.under = IF m.type = "ctrl" THEN ctrl[c] ELSE session[c]

(***************************************************************************)
(* recv_thread: what does not decrypt is dropped, a cable from another     *)
(* client is shown, and proc_ctrl enters n_party_client, which sends the   *)
(* public key of round 0.                                                  *)
(***************************************************************************)
recv_thread(c) ==
    /\ cpc[c] = "idle"
    /\ down[c] # << >>
    /\ down' = [down EXCEPT ![c] = Tail(@)]
    /\ LET m == Head(down[c])
       IN  \/ /\ ~Decrypts(c, m)
              /\ lost' = lost \cup {m}
              /\ UNCHANGED <<up, cpc, ex, ci>>
           \/ /\ Decrypts(c, m) /\ m.type = "cable"
              /\ UNCHANGED <<up, cpc, ex, ci, lost>>
           \/ /\ Decrypts(c, m) /\ m.type = "ctrl"
              /\ ex' = [ex EXCEPT ![c] = m]
              /\ ci' = [ci EXCEPT ![c] = 0]
              /\ up' = [up EXCEPT ![c] = Append(@, Ke(m.renewed))]
              /\ cpc' = [cpc EXCEPT ![c] = "kx"]
              /\ UNCHANGED lost
    /\ UNCHANGED <<dvars, backlog, ctrl, session, announced, snap, texts>>

MutantKeepCtrl(c) == ctrl[c]
MutantAnnounceKey(c, k) == session[c]

\* client_set_keys stores the renewed control key next to the session key
RenewedCtrl(c) == ex[c].renewed

\* announce_connection encrypts with the session key just stored
AnnounceKey(c, k) == k

(***************************************************************************)
(* n_party_client, and the end of proc_ctrl after its last round: both     *)
(* keys are replaced together, and a client that has not announced itself  *)
(* does so now.  A message of another kind ends the exchange and leaves    *)
(* the keys as they were.                                                  *)
(***************************************************************************)
n_party_client(c) ==
    /\ cpc[c] = "kx"
    /\ down[c] # << >>
    /\ down' = [down EXCEPT ![c] = Tail(@)]
    /\ ci' = [ci EXCEPT ![c] = @ + 1]
    /\ IF Head(down[c]).type # "ke"
       THEN cpc' = [cpc EXCEPT ![c] = "idle"] /\ UNCHANGED <<up, ctrl, session, announced>>
       ELSE IF ci[c] = ex[c].cnt - 1
       THEN /\ ctrl' = [ctrl EXCEPT ![c] = RenewedCtrl(c)]
            /\ session' = [session EXCEPT ![c] = Head(down[c]).ex]
            /\ cpc' = [cpc EXCEPT ![c] = "idle"]
            /\ announced' = [announced EXCEPT ![c] = TRUE]
            /\ up' = IF announced[c] THEN up
                     ELSE [up EXCEPT ![c] = Append(@, Cable(AnnounceKey(c, Head(down[c]).ex)))]
       ELSE /\ up' = [up EXCEPT ![c] = Append(@, Ke(ex[c].renewed))]
            /\ UNCHANGED <<ctrl, session, cpc, announced>>
    /\ UNCHANGED <<dvars, backlog, ex, snap, texts, lost>>

\* send_thread, once announced: transmit_wire reads the keys ...
transmit_wire_keys(c) ==
    /\ announced[c] /\ ~Gone(c) /\ texts < MaxTexts /\ snap[c] = {}
    /\ snap' = [snap EXCEPT ![c] = {session[c]}]
    /\ texts' = texts + 1
    /\ UNCHANGED <<dvars, backlog, up, down, cpc, kvars, lost>>

\* ... and later encrypts and sends.
transmit_wire_send(c) ==
    /\ ~Gone(c)
    /\ \E k \in snap[c] : up' = [up EXCEPT ![c] = Append(@, Cable(k))]
    /\ snap' = [snap EXCEPT ![c] = {}]
    /\ UNCHANGED <<dvars, backlog, down, cpc, kvars, texts, lost>>

\* cmd_exit: the farewell, then shutdown.
cmd_exit(c) ==
    /\ c \in Leavers /\ announced[c] /\ ~Gone(c) /\ snap[c] = {}
    /\ Calm => Quiet
    /\ up' = [up EXCEPT ![c] = Append(@, Cable(session[c]))]
    /\ cpc' = [cpc EXCEPT ![c] = "gone"]
    /\ down' = [down EXCEPT ![c] = << >>]
    /\ UNCHANGED <<dvars, backlog, kvars, snap, texts, lost>>

\* The process or its connection dies.
crash(c) ==
    /\ c \in Leavers /\ cpc[c] \notin {"out", "gone"}
    /\ Calm => Quiet
    /\ cpc' = [cpc EXCEPT ![c] = "gone"]
    /\ down' = [down EXCEPT ![c] = << >>]
    /\ snap' = [snap EXCEPT ![c] = {}]
    /\ UNCHANGED <<dvars, backlog, up, kvars, texts, lost>>

Daemon ==
    \/ select \/ add_client \/ two_party_server
    \/ server_send_ctrl_key \/ rotate_intermediates
    \/ \E c \in Conn : transfer_message(c) \/ daemon_handle_disconnect(c)

Receiver(c) == send_public_key(c) \/ two_party_client(c) \/ recv_thread(c) \/ n_party_client(c)

Next ==
    \/ Daemon
    \/ \E c \in Conn :
          \/ Receiver(c) \/ connect_server(c)
          \/ transmit_wire_keys(c) \/ transmit_wire_send(c)
          \/ cmd_exit(c) \/ crash(c)

Spec == Init /\ [][Next]_vars

(***************************************************************************)
(* The daemon and the clients that are there keep running.  Nobody has to  *)
(* connect, type or leave.                                                 *)
(***************************************************************************)
FairSpec ==
    /\ Spec
    /\ WF_vars(Daemon)
    /\ \A c \in Conn : WF_vars(Receiver(c)) /\ WF_vars(transmit_wire_send(c))

-----------------------------------------------------------------------------
Keys == 0 .. Len(members)
UpMsg == [type : {"pub"}] \cup [type : {"ke"}, ex : Keys] \cup [type : {"cable"}, under : Keys]
CtrlMsg == [type : {"ctrl"}, under : Keys, renewed : Keys, cnt : Nat]
DownMsg == [type : {"skey"}, key : Keys] \cup [type : {"ke"}, ex : Keys] \cup CtrlMsg
             \cup [type : {"cable"}, under : Keys, current : BOOLEAN]

TypeOK ==
    /\ dpc \in {"scan", "twoparty", "ctrl", "rotate", "spin", "exited", "aborted"}
    /\ rdy \subseteq Conn \cup {Listener}
    /\ sfds \in [Slots -> Conn \cup {NoSock}]
    /\ cnt \in 0 .. Cardinality(Conn)
    /\ cur \in Conn \cup {NoSock}
    /\ di \in 1 .. Cardinality(Conn) + 1
    /\ round \in Nat
    /\ srvkey = Len(members)
    /\ \A k \in DOMAIN members : members[k] \subseteq Conn
    /\ \A i \in DOMAIN backlog : backlog[i] \in Conn
    /\ \A c \in Conn :
        /\ \A p \in DOMAIN up[c] : up[c][p] \in UpMsg
        /\ \A p \in DOMAIN down[c] : down[c][p] \in DownMsg
        /\ cpc[c] \in {"out", "connected", "joining", "idle", "kx", "gone"}
        /\ ctrl[c] \in Keys /\ session[c] \in Keys
        /\ snap[c] \subseteq Keys
        /\ ci[c] \in 0 .. Cardinality(Conn)
        /\ announced[c] \in BOOLEAN
    /\ texts \in 0 .. MaxTexts

Dead == dpc \in {"spin", "exited", "aborted"}

(***************************************************************************)
(* main_thread takes rdy once and handles its members one by one, while    *)
(* add_client and daemon_handle_disconnect change the table and exchanges  *)
(* read from the sockets.  What is left of rdy stays true: each socket is  *)
(* still in the table and still readable, so the blocking xrecv of         *)
(* recv_client does not wait for a client that has nothing to say.         *)
(***************************************************************************)
ReadyHolds ==
    ~Dead => /\ \A c \in rdy \ {Listener} : c \in Connected /\ Readable(c)
             /\ Listener \in rdy => backlog # << >>

(***************************************************************************)
(* Whenever the daemon is back in main_thread with two or more clients,    *)
(* the newest exchange was among exactly the clients in its table, and     *)
(* every client that is done with it holds that group key and the daemon's *)
(* current control key.  A client that has left knows neither.             *)
(***************************************************************************)
MembersAgree ==
    dpc = "scan" /\ cnt > 1 =>
        /\ members[srvkey] = Connected
        /\ \A c \in Connected : cpc[c] = "idle" => session[c] = srvkey /\ ctrl[c] = srvkey

(***************************************************************************)
(* Cables, CTRL cables and the bare ke_t of an exchange share one stream,  *)
(* and nothing but the state of recv_thread says which comes next.  It is  *)
(* always right: recv_cable never starts on a ke_t (and a NULL cable), and *)
(* n_party_client never on a cable, whatever joins, leaves and texts come  *)
(* between.                                                                *)
(***************************************************************************)
InStep ==
    \A c \in Conn : down[c] # << >> =>
        Head(down[c]).type \in CASE cpc[c] \in {"connected", "joining"} -> {"skey"}
                                 [] cpc[c] = "kx" -> {"ke"}
                                 [] OTHER -> {"cable", "ctrl"}

(***************************************************************************)
(* A client writes a cable only under a group key that it helped derive:   *)
(* send_thread waits for conn_announced, which proc_ctrl sets after        *)
(* client_set_keys.  In particular never under the zeroed key.             *)
(***************************************************************************)
EncryptsAsMember ==
    \A c \in Conn : \A p \in DOMAIN up[c] :
        up[c][p].type = "cable" =>
            up[c][p].under > 0 /\ c \in members[up[c][p].under]

(***************************************************************************)
(* What recv_thread fails to decrypt is never a CTRL cable, and a chat     *)
(* cable only if its sender's key was out of date when the daemon relayed  *)
(* it.  Nothing sent under the current group key is lost.                  *)
(***************************************************************************)
OnlyStaleLost == \A m \in lost : m.type = "cable" /\ ~m.current

(***************************************************************************)
(* While everybody behaves (Calm), a client that connects to a group gets  *)
(* through both exchanges and announces itself.                            *)
(***************************************************************************)
JoinCompletes ==
    \A c \in Conn :
        (cpc[c] \in {"connected", "joining"} /\ Connected \ {c} # {}) ~> (announced[c] \/ Gone(c))

(***************************************************************************)
(* README.md: a client that receives a control message performs the        *)
(* exchange, "at which point all clients posess a new shared key": so it   *)
(* is while everybody behaves (Calm).                                      *)
(***************************************************************************)
ExchangeYieldsKey ==
    \A c \in Conn : (cpc[c] = "kx") ~> (session[c] = ex[c].renewed)

(***************************************************************************)
(* Nor does such a group ever bring the daemon down, as long as one client *)
(* is left.  When the last one leaves, daemon_handle_disconnect calls      *)
(* n_party_server with 0 connections and its assertion ends the daemon.    *)
(***************************************************************************)
EndsOnlyEmpty == Calm /\ Dead => cnt = 0

-----------------------------------------------------------------------------
(***************************************************************************)
(* The session that daemon and clients implement, for groups of two or     *)
(* more: n_party_server returns at once if there is one client.  A key is  *)
(* due from the moment the table changes until the CTRL cables are sent.   *)
(***************************************************************************)
Abstract == INSTANCE Session WITH
    Client <- Conn,
    MinGroup <- 2,
    open <- ~Dead,
    group <- IF Dead THEN {} ELSE Connected,
    due <- dpc \in {"twoparty", "ctrl"} /\ cnt > 1,
    roster <- members,
    holds <- session

(***************************************************************************)
(* README.md, "Key Exchange": every exchange is among exactly the clients  *)
(* of the moment, none of them skips one or goes back to an older key, and *)
(* a group of two or more does not change again before its exchange has    *)
(* begun, whatever joins, departures, crashes and messages the daemon and  *)
(* the clients' threads interleave.                                        *)
(***************************************************************************)
ImplementsSession == Abstract!Spec

(***************************************************************************)
(* README.md, "Key Exchange": "A new group key is derived whenever the     *)
(* number of clients changes."  Once there has been a group key, the       *)
(* daemon is then back in main_thread only with the newest one made among  *)
(* exactly the clients that are left.  It does not hold: n_party_server    *)
(* (src/common/key-exchange.c) returns early for one client, and who is    *)
(* left alone goes on under the keys of the group.                         *)
(***************************************************************************)
RekeyedOnChange ==
    dpc = "scan" /\ srvkey > 1 /\ cnt > 0 => members[srvkey] = Connected

=============================================================================
