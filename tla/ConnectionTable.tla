--------------------------- MODULE ConnectionTable ---------------------------
(***************************************************************************)
(* The daemon's bookkeeping of descriptors (src/parceld/daemon.c, unix):   *)
(* the table sockets.sfds with its count, the fd_set given to select with  *)
(* nfds, the copy rdy that one pass of main_thread works through, and the  *)
(* descriptors the kernel has handed out.  What clients send, and how the  *)
(* exchanges run, is the subject of module Parcel; here a handler either   *)
(* succeeds or ends the daemon.                                            *)
(***************************************************************************)
EXTENDS Naturals

CONSTANTS
    FD_SETSIZE,  \* length of sfds and capacity of an fd_set
    FdLimit,     \* RLIMIT_NOFILE: accept fails rather than return this descriptor
    ListenFd     \* sockets.sfds[0]; the descriptors below it are taken

ASSUME FdAssumption ==
    /\ FD_SETSIZE \in Nat /\ FdLimit \in Nat /\ ListenFd \in Nat
    /\ 0 < ListenFd /\ ListenFd < FD_SETSIZE /\ ListenFd < FdLimit

VARIABLES
    sfds,    \* sockets.sfds, a function on 0 .. FD_SETSIZE - 1; 0 is "free"
    cnt,     \* sockets.cnt
    fds,     \* descriptors.fds
    nfds,    \* descriptors.nfds
    rdy,     \* descriptors of this pass that are still to be handled
    open,    \* descriptors of the process above ListenFd
    status   \* "running", "exited", "aborted" (assert) or "corrupt" (FD_SET overflow)

vars == <<sfds, cnt, fds, nfds, rdy, open, status>>

Index == 0 .. FD_SETSIZE - 1
ClientIndex == 1 .. FD_SETSIZE - 1
Fd == ListenFd + 1 .. FdLimit - 1

Init ==
    /\ sfds = [i \in Index |-> IF i = 0 THEN ListenFd ELSE 0]
    /\ cnt = 0
    /\ fds = {ListenFd}
    /\ nfds = ListenFd
    /\ rdy = {}
    /\ open = {}
    /\ status = "running"

-----------------------------------------------------------------------------
(***************************************************************************)
(* Helpers                                                                 *)
(***************************************************************************)

\* xfd_count: the highest descriptor so far
xfd_count(fd, n) == IF fd > n THEN fd ELSE n

\* accept: the lowest descriptor that is not in use
LowestFree(fd) == fd \notin open /\ \A f \in ListenFd + 1 .. fd - 1 : f \in open

\* the first free slot of the table, as add_client finds it
FirstFree(i) == sfds[i] = 0 /\ \A j \in 1 .. i - 1 : sfds[j] # 0

Place(fd) ==
    [i \in Index |-> IF i \in ClientIndex /\ FirstFree(i) THEN fd ELSE sfds[i]]

MutantRemove(i) ==
    [j \in Index |-> IF j = i THEN 0 ELSE sfds[j]]

\* disconnect_client: the last occupied slot moves into slot i
Remove(i) ==
    IF cnt = 1 THEN [sfds EXCEPT ![i] = 0]
    ELSE [[sfds EXCEPT ![i] = sfds[cnt]] EXCEPT ![cnt] = 0]

\* the pass visits descriptors in ascending order, up to nfds
NextReady(fd) == fd \in rdy /\ fd <= nfds /\ \A f \in rdy : fd <= f

-----------------------------------------------------------------------------
(***************************************************************************)
(* Operations                                                              *)
(***************************************************************************)

\* A new pass of main_thread; select reports some of the descriptors, or fails.
select ==
    /\ status = "running"
    /\ \A fd \in rdy : fd > nfds
    /\ \/ rdy' \in SUBSET fds \ {{}} /\ UNCHANGED status
       \/ rdy' = {} /\ status' = "exited"
    /\ UNCHANGED <<sfds, cnt, fds, nfds, open>>

\* xaccept fails: the process is out of descriptors, or the connection that
\* was pending is gone.  main_thread returns.
accept_fails ==
    /\ status = "running" /\ NextReady(ListenFd)
    /\ rdy' = rdy \ {ListenFd}
    /\ status' = "exited"
    /\ UNCHANGED <<sfds, cnt, fds, nfds, open>>

(***************************************************************************)
(* add_client with a connection accepted.  A full table rejects it without *)
(* closing it.  FD_SET beyond FD_SETSIZE writes outside the set.  Counted  *)
(* and watched but not yet in a slot, the connection may turn out to have  *)
(* no peer any more (xgetpeeraddr); the key exchanges that follow the slot *)
(* may fail.  Both end the daemon.                                         *)
(***************************************************************************)
add_client ==
    /\ status = "running" /\ NextReady(ListenFd)
    /\ rdy' = rdy \ {ListenFd}
    /\ \E fd \in Fd :
        /\ LowestFree(fd)
        /\ open' = open \cup {fd}
        /\ IF cnt + 1 = FD_SETSIZE
           THEN UNCHANGED <<sfds, cnt, fds, nfds, status>>
           ELSE /\ fds' = fds \cup {fd}
                /\ nfds' = xfd_count(fd, nfds)
                /\ cnt' = cnt + 1
                /\ \/ sfds' = Place(fd) /\ status' \in {"running", "exited"} /\ fd < FD_SETSIZE
                   \/ UNCHANGED sfds /\ status' = "exited" /\ fd < FD_SETSIZE
                   \/ UNCHANGED sfds /\ status' = "corrupt" /\ fd >= FD_SETSIZE

\* recv_client relays a cable, or fails to; the table stays as it is.
recv_client(fd) ==
    /\ status = "running" /\ NextReady(fd) /\ fd # ListenFd
    /\ rdy' = rdy \ {fd}
    /\ status' \in {"running", "exited"}
    /\ UNCHANGED <<sfds, cnt, fds, nfds, open>>

MutantCleared(i) == fds
MutantFewer == cnt

\* sockets.cnt-- in disconnect_client
Fewer == cnt - 1

\* FD_CLR in disconnect_client
Cleared(i) == fds \ {sfds[i]}

(***************************************************************************)
(* recv_client meets the end of the stream.  socket_index looks for the    *)
(* descriptor; disconnect_client closes it; n_party_server asserts that    *)
(* somebody is left, and may fail.                                         *)
(***************************************************************************)
daemon_handle_disconnect(fd) ==
    /\ status = "running" /\ NextReady(fd) /\ fd # ListenFd
    /\ rdy' = rdy \ {fd}
    /\ \E i \in ClientIndex :
        /\ sfds[i] = fd
        /\ fds' = Cleared(i)
        /\ open' = open \ {fd}
        /\ sfds' = Remove(i)
        /\ cnt' = Fewer
    /\ status' \in IF cnt = 1 THEN {"aborted"} ELSE {"running", "exited"}
    /\ UNCHANGED nfds

Next ==
    \/ select \/ accept_fails \/ add_client
    \/ \E fd \in Fd : recv_client(fd) \/ daemon_handle_disconnect(fd)

Spec == Init /\ [][Next]_vars

-----------------------------------------------------------------------------
TypeOK ==
    /\ sfds \in [Index -> Nat]
    /\ cnt \in 0 .. FD_SETSIZE - 1
    /\ fds \subseteq Nat
    /\ nfds \in ListenFd .. FdLimit - 1
    /\ rdy \subseteq Nat
    /\ open \subseteq Fd
    /\ status \in {"running", "exited", "aborted", "corrupt"}

\* slots 1..cnt are in use, no others, and no descriptor is there twice
Dense ==
    /\ sfds[0] = ListenFd
    /\ \A i \in ClientIndex : sfds[i] # 0 <=> i <= cnt
    /\ \A i, j \in Index : sfds[i] # 0 /\ sfds[i] = sfds[j] => i = j

(***************************************************************************)
(* The loops of transfer_message, server_send_ctrl_key and                 *)
(* rotate_intermediates run over slots 1..cnt: exactly these are in use,   *)
(* each by a descriptor of its own, whatever the order of connections and  *)
(* disconnections.                                                         *)
(***************************************************************************)
Compact == status = "running" => Dense

\* the table, the fd_set and the open descriptors belong together
Watched ==
    /\ \A fd \in fds : \E i \in Index : i <= cnt /\ sfds[i] = fd
    /\ \A i \in Index : i <= cnt => sfds[i] \in fds
    /\ \A i \in ClientIndex : i <= cnt => sfds[i] \in open
    /\ \A fd \in fds : fd <= nfds
    /\ rdy \subseteq fds

(***************************************************************************)
(* select watches exactly the sockets in the table, so socket_index always *)
(* finds the descriptor main_thread asks for and never runs off the table; *)
(* all of them are open; none is beyond the scan limit nfds; and what is   *)
(* left of rdy, a copy made before the handlers ran, is still watched.     *)
(***************************************************************************)
Registered == status = "running" => Watched

(***************************************************************************)
(* The test in add_client that rejects a connection never fires: the       *)
(* standard descriptors and the listening socket count too, so accept has  *)
(* failed, or has returned a descriptor that no fd_set can hold, before    *)
(* the table is full.                                                      *)
(***************************************************************************)
NeverFull == status = "running" => cnt + 1 < FD_SETSIZE

TableInv == TypeOK /\ Dense /\ Watched

=============================================================================
