---------------------------- MODULE ParcelClient ----------------------------
(***************************************************************************)
(* One parcel client process (src/parcel/client.c, commands.c,             *)
(* proc-type.c, parcel.c): recv_thread and send_thread, the flags and the  *)
(* name they share, and how the process starts talking and ends.  The      *)
(* daemon and the network are the environment: cables arrive, the keys of  *)
(* an exchange do or do not, the connection is closed or reset.            *)
(*                                                                         *)
(* A line is one of the commands, or a prefix of it that is long enough; a *)
(* slash alone; a slash and something unknown; or text.                    *)
(***************************************************************************)
EXTENDS Naturals, Sequences

CONSTANTS
    Name,      \* the names a user may take
    Lines,     \* what the user may type, among those of LineKinds
    Failures,  \* how the connection may end: subset of {"eof", "reset"}
    MaxCables  \* bound on the cables from the daemon

Commands == {"list", "q", "username", "encinfo", "file", "clear", "version"}
LineKinds == {"text", "slash", "unknown"} \cup Commands

ASSUME ClientAssumption ==
    /\ Lines \subseteq LineKinds /\ Failures \subseteq {"eof", "reset"}
    /\ MaxCables \in Nat /\ Name # {}

VARIABLES
    proc,        \* the process: "running", "crashed", "killed" (SIGPIPE), "exited"
    conn,        \* the socket: "up", "shut" (by cmd_exit), "eof", "reset"
    inbox,       \* cables that have arrived
    arrived,     \* number of cables so far
    rpc,         \* recv_thread: "recv", "exchange" (in n_party_client), "keyed"
                 \* (back from it), "returned"
    spc,         \* send_thread: "wait", "prompt", "check", "exec", "rename",
                 \* "shut", "returned"
    typed,       \* the line xprompt returned
    keep_alive, conn_announced, username,
    new,         \* new_username of cmd_username
    told,        \* history: the name the other clients know, or "nobody"
    last         \* history: the cable transmit_wire was last called for

shared == <<keep_alive, conn_announced, username>>
vars == <<proc, conn, inbox, arrived, rpc, spc, typed, shared, new, told, last>>

Nobody == "nobody"
Running == proc = "running"

Init ==
    /\ proc = "running" /\ conn = "up"
    /\ inbox = << >> /\ arrived = 0
    /\ rpc = "recv" /\ spc = "wait"
    /\ typed \in Lines
    /\ keep_alive = TRUE /\ conn_announced = FALSE
    /\ username \in Name /\ new = username
    /\ told = Nobody
    /\ last = "none"

-----------------------------------------------------------------------------
(***************************************************************************)
(* The environment                                                         *)
(***************************************************************************)
arrive ==
    /\ conn = "up" /\ arrived < MaxCables
    /\ arrived' = arrived + 1
    /\ \E m \in {"ctrl", "cable"} : inbox' = Append(inbox, m)
    /\ UNCHANGED <<proc, conn, rpc, spc, typed, shared, new, told, last>>

\* The daemon ends (eof), or the connection breaks (reset).
lose_connection ==
    /\ conn = "up"
    /\ conn' \in Failures
    /\ UNCHANGED <<proc, inbox, arrived, rpc, spc, typed, shared, new, told, last>>

\* The last intermediate key of an exchange arrives.  It passes through the
\* other clients and the daemon, any of which may fail or block for ever.
exchange_over ==
    /\ Running /\ rpc = "exchange" /\ conn = "up"
    /\ rpc' = "keyed"
    /\ UNCHANGED <<proc, conn, inbox, arrived, spc, typed, shared, new, told, last>>

-----------------------------------------------------------------------------
(***************************************************************************)
(* xsendall: a working connection takes every cable.  One that the daemon  *)
(* has closed may take it for nobody; else it fails, and without           *)
(* MSG_NOSIGNAL the failure may raise SIGPIPE, which nothing handles.      *)
(***************************************************************************)
xsendall ==
    CASE conn = "up"    -> {"sent"}
      [] conn = "eof"   -> {"sent", "failed", "killed"}
      [] conn = "reset" -> {"failed", "killed"}
      [] conn = "shut"  -> {"killed"}

\* transmit_wire of a cable that tells the others the name n, with result r
transmit_wire(kind, n, r) ==
    /\ last' = kind
    /\ told' = IF conn = "up" THEN n ELSE told
    /\ proc' = IF r = "killed" THEN "killed" ELSE proc

(***************************************************************************)
(* recv_thread                                                             *)
(***************************************************************************)

\* handle_wire: anything but CTRL is shown; CTRL enters n_party_client.
recv_thread ==
    /\ Running /\ rpc = "recv" /\ inbox # << >>
    /\ inbox' = Tail(inbox)
    /\ rpc' = IF Head(inbox) = "ctrl" THEN "exchange" ELSE "recv"
    /\ UNCHANGED <<proc, conn, arrived, spc, typed, shared, new, told, last>>

MutantAnnounced(r) == FALSE

\* announce_connection stores what transmit_wire returned
Announced(r) == r = "sent"

\* The exchange is over: client_set_keys, and announce_connection if need be.
proc_ctrl ==
    /\ Running /\ rpc = "keyed"
    /\ rpc' = "recv"
    /\ IF conn_announced
       THEN UNCHANGED <<conn_announced, told, last, proc>>
       ELSE \E r \in xsendall : /\ transmit_wire("connect", username, r)
                               /\ conn_announced' = Announced(r)
    /\ UNCHANGED <<conn, inbox, arrived, spc, typed, keep_alive, username, new>>

\* ke_rcv fails on a connection that was reset, and so does the exchange.
exchange_fails ==
    /\ Running /\ rpc = "exchange" /\ conn = "reset"
    /\ rpc' = "recv"
    /\ UNCHANGED <<proc, conn, inbox, arrived, spc, typed, shared, new, told, last>>

(***************************************************************************)
(* recv_cable returns NULL: the connection was reset.  After /q the thread *)
(* closes the socket and returns; otherwise it warns, goes on with the     *)
(* NULL cable and the process dies.  At the end of a stream xrecvall never *)
(* returns, so there is no action for it.                                  *)
(***************************************************************************)
recv_fails ==
    /\ Running /\ rpc = "recv" /\ inbox = << >> /\ conn = "reset"
    /\ IF keep_alive
       THEN keep_alive' = FALSE /\ proc' = "crashed" /\ UNCHANGED rpc
       ELSE rpc' = "returned" /\ UNCHANGED <<keep_alive, proc>>
    /\ UNCHANGED <<conn, inbox, arrived, spc, typed, conn_announced, username, new, told, last>>

-----------------------------------------------------------------------------
(***************************************************************************)
(* send_thread                                                             *)
(***************************************************************************)
sframe == <<conn, inbox, arrived, rpc>>

\* The loop that sleeps until the connection is announced.
await_announced ==
    /\ Running /\ spc = "wait" /\ conn_announced
    /\ spc' = "prompt"
    /\ UNCHANGED <<proc, sframe, typed, shared, new, told, last>>

\* xprompt returns a line.
xprompt ==
    /\ Running /\ spc = "prompt"
    /\ typed' \in Lines
    /\ spc' = "check"
    /\ UNCHANGED <<proc, sframe, shared, new, told, last>>

MutantRun == TRUE

\* bool run = atomic_load(&client->keep_alive)
Run == keep_alive

check_keep_alive ==
    /\ Running /\ spc = "check"
    /\ spc' = IF Run THEN "exec" ELSE "returned"
    /\ UNCHANGED <<proc, sframe, typed, shared, new, told, last>>

\* command_strings that begin with the line; no two of them share a letter
Matches(l) == IF l = "slash" THEN Commands ELSE {l} \cap Commands

\* A second match makes the line ambiguous.
parse_command(l) ==
    IF Matches(l) = {} THEN "none"
    ELSE IF \E a, b \in Matches(l) : a # b THEN "ambiguous"
    ELSE CHOOSE a \in Matches(l) : TRUE

is_cmd(l) == l # "text"

\* exec_cmd, commands that change nothing: they print, or are not understood.
cmd_print ==
    /\ Running /\ spc = "exec" /\ is_cmd(typed)
    /\ parse_command(typed) \notin {"q", "username", "file"}
    /\ spc' = "prompt"
    /\ UNCHANGED <<proc, sframe, typed, shared, new, told, last>>

exec_cmd(cmd) == Running /\ spc = "exec" /\ is_cmd(typed) /\ parse_command(typed) = cmd

send_text_msg ==
    /\ Running /\ spc = "exec" /\ ~is_cmd(typed)
    /\ \E r \in xsendall : transmit_wire("text", username, r)
    /\ spc' = "prompt"
    /\ UNCHANGED <<sframe, typed, shared, new>>

\* cmd_username: first the others are told ...
cmd_username ==
    /\ exec_cmd("username")
    /\ new' \in Name
    /\ \E r \in xsendall : transmit_wire("rename", new', r)
    /\ spc' = "rename"
    /\ UNCHANGED <<sframe, typed, shared>>

MutantStored == username
MutantStoredLine == typed

\* the name that ends up in ctx->username
Stored == new

\* ... then the name is replaced, under the lock.
set_username ==
    /\ Running /\ spc = "rename"
    /\ username' = Stored
    /\ spc' = "prompt"
    /\ UNCHANGED <<proc, sframe, typed, keep_alive, conn_announced, new, told, last>>

\* A file that is empty, too large or unreadable gives NULL.
file_msg_from_file == {"message", "null"}

(***************************************************************************)
(* cmd_send_file: a path that does not exist is reported.  transmit_wire   *)
(* dies on the NULL wire of a file that could not be read.  The file       *)
(* message does not carry the user's name.                                 *)
(***************************************************************************)
cmd_send_file ==
    /\ exec_cmd("file")
    /\ \/ spc' = "prompt" /\ UNCHANGED <<proc, told, last>>
       \/ \E f \in file_msg_from_file, r \in xsendall :
            IF f = "null" THEN proc' = "crashed" /\ UNCHANGED <<spc, told, last>>
            ELSE spc' = "prompt" /\ transmit_wire("file", told, r)
    /\ UNCHANGED <<sframe, typed, shared, new>>

\* cmd_exit: the farewell, and shutdown ...
cmd_exit ==
    /\ exec_cmd("q")
    /\ \E r \in xsendall : transmit_wire("disconnect", username, r)
    /\ conn' = IF conn = "up" THEN "shut" ELSE conn
    /\ spc' = "shut"
    /\ UNCHANGED <<inbox, arrived, rpc, typed, shared, new>>

\* ... and then the flag.
clear_keep_alive ==
    /\ Running /\ spc = "shut"
    /\ keep_alive' = FALSE
    /\ spc' = "prompt"
    /\ UNCHANGED <<proc, sframe, typed, conn_announced, username, new, told, last>>

\* main: send_thread has returned, and pthread_join returns.
main ==
    /\ Running /\ spc = "returned" /\ rpc = "returned"
    /\ proc' = "exited"
    /\ UNCHANGED <<sframe, spc, typed, shared, new, told, last>>

Receiver == recv_thread \/ proc_ctrl \/ exchange_fails \/ recv_fails

Sender ==
    \/ await_announced \/ xprompt \/ check_keep_alive
    \/ cmd_print \/ send_text_msg \/ cmd_username \/ set_username \/ cmd_send_file
    \/ cmd_exit \/ clear_keep_alive \/ main

Next == arrive \/ lose_connection \/ exchange_over \/ Receiver \/ Sender

Spec == Init /\ [][Next]_vars

(***************************************************************************)
(* Both threads run, and the user answers every prompt.  Nothing has to    *)
(* arrive, no exchange has to end, and no connection has to break.         *)
(***************************************************************************)
FairSpec == Spec /\ WF_vars(Receiver) /\ WF_vars(Sender)

-----------------------------------------------------------------------------
TypeOK ==
    /\ proc \in {"running", "crashed", "killed", "exited"}
    /\ conn \in {"up", "shut", "eof", "reset"}
    /\ inbox \in Seq({"ctrl", "cable"}) /\ arrived \in 0 .. MaxCables
    /\ rpc \in {"recv", "exchange", "keyed", "returned"}
    /\ spc \in {"wait", "prompt", "check", "exec", "rename", "shut", "returned"}
    /\ typed \in Lines
    /\ keep_alive \in BOOLEAN /\ conn_announced \in BOOLEAN
    /\ username \in Name /\ new \in Name /\ told \in Name \cup {Nobody}
    /\ last \in {"none", "connect", "text", "rename", "file", "disconnect"}

(***************************************************************************)
(* Whenever the prompt waits for a line on a working connection, the       *)
(* other clients know this one, and by its current name: send_thread is    *)
(* held back until recv_thread has announced the name, and /username tells *)
(* the others before it takes the name.                                    *)
(***************************************************************************)
KnownByName == spc \in {"prompt", "check"} /\ conn = "up" => told = username

(***************************************************************************)
(* The farewell is the last cable of a client: whatever is typed at the    *)
(* prompt that still follows /q, and whatever recv_thread does, nothing    *)
(* comes after it.                                                         *)
(***************************************************************************)
FarewellIsLast == [][last = "disconnect" => last' = last]_vars

(***************************************************************************)
(* A client that has come through an exchange, on a connection that holds, *)
(* gets to its prompt: what recv_thread stores in conn_announced is what   *)
(* send_thread sleeps for.                                                 *)
(***************************************************************************)
ReachesPrompt == (rpc = "keyed") ~> (spc # "wait" \/ conn # "up")

(***************************************************************************)
(* cmd_list says of /q: "exit the server and close parcel".                *)
(***************************************************************************)
QuitCloses == (last = "disconnect") ~> (proc # "running")

=============================================================================
