------------------------ MODULE ConnectionTableProofs ------------------------
(***************************************************************************)
(* Proofs about ConnectionTable for every FD_SETSIZE, every descriptor     *)
(* limit and every position of the listening socket.                       *)
(***************************************************************************)
EXTENDS ConnectionTable, FiniteSetTheorems, TLAPS

(***************************************************************************)
(* Initially only the listening socket is there (init_daemon).             *)
(***************************************************************************)
LEMMA InitTable == Init => TableInv
<1> SUFFICES ASSUME Init PROVE TableInv
  OBVIOUS
<1>1. TypeOK
  BY FdAssumption DEF Init, TypeOK, Index
<1>2. Dense
  <2>1. /\ 0 \in Index /\ cnt = 0 /\ sfds[0] = ListenFd
        /\ \A i \in Index : i # 0 => sfds[i] = 0
    BY FdAssumption DEF Init, Index
  <2>2. \A i \in ClientIndex : i \in Index /\ i # 0 /\ ~(i <= 0)
    BY FdAssumption DEF Index, ClientIndex
  <2>3. \A i \in ClientIndex : sfds[i] # 0 <=> i <= cnt
    BY <2>1, <2>2
  <2>4. QED
    BY <2>1, <2>3 DEF Dense
<1>3. Watched
  BY FdAssumption DEF Init, Watched, Index, ClientIndex
<1>4. QED
  BY <1>1, <1>2, <1>3 DEF TableInv

(***************************************************************************)
(* add_client: in a dense table the first free slot is number cnt + 1, and *)
(* a descriptor that accept returns is in no slot.                         *)
(***************************************************************************)
LEMMA PlaceAtEnd ==
    ASSUME TableInv, cnt + 1 # FD_SETSIZE, NEW fd \in Fd
    PROVE  /\ cnt + 1 \in ClientIndex
           /\ Place(fd) = [sfds EXCEPT ![cnt + 1] = fd]
<1>1. cnt \in Nat /\ cnt + 1 \in ClientIndex /\ cnt + 1 \in Index
      /\ ClientIndex \subseteq Index
  BY FdAssumption DEF TableInv, TypeOK, ClientIndex, Index
<1>2. \A i \in ClientIndex : FirstFree(i) <=> i = cnt + 1
  <2>1. \A i \in ClientIndex : sfds[i] # 0 <=> i <= cnt
    BY DEF TableInv, Dense
  <2>2. ASSUME NEW i \in ClientIndex, FirstFree(i) PROVE i = cnt + 1
    <3>1. ~(i <= cnt)
      BY <2>1, <2>2 DEF FirstFree
    <3>2. ~(cnt + 1 <= i - 1)
      <4>1. ASSUME cnt + 1 <= i - 1 PROVE FALSE
        <5>1. cnt + 1 \in 1 .. i - 1
          BY <1>1, <4>1 DEF ClientIndex
        <5>2. sfds[cnt + 1] # 0
          BY <2>2, <5>1 DEF FirstFree
        <5>3. QED
          BY <1>1, <2>1, <5>2
      <4>2. QED
        BY <4>1
    <3>3. QED
      BY <1>1, <3>1, <3>2 DEF ClientIndex
  <2>3. FirstFree(cnt + 1)
    <3>1. sfds[cnt + 1] = 0
      BY <1>1, <2>1
    <3>2. ASSUME NEW j \in 1 .. (cnt + 1) - 1 PROVE sfds[j] # 0
      <4>1. j \in ClientIndex /\ j <= cnt
        BY <1>1, FdAssumption DEF ClientIndex
      <4>2. QED
        BY <2>1, <4>1
    <3>3. QED
      BY <3>1, <3>2 DEF FirstFree
  <2>4. QED
    BY <2>2, <2>3
<1>3. Place(fd) = [i \in Index |-> IF i = cnt + 1 THEN fd ELSE sfds[i]]
  BY <1>1, <1>2 DEF Place
<1>4. sfds \in [Index -> Nat]
  BY DEF TableInv, TypeOK
<1>5. QED
  BY <1>1, <1>3, <1>4

(***************************************************************************)
(* add_client keeps the table dense and every watched socket registered.   *)
(***************************************************************************)
LEMMA AddStep ==
    ASSUME TableInv, add_client, status' = "running"
    PROVE  TableInv'
<1>1. PICK fd \in Fd :
        /\ LowestFree(fd)
        /\ open' = open \cup {fd}
        /\ IF cnt + 1 = FD_SETSIZE
           THEN UNCHANGED <<sfds, cnt, fds, nfds, status>>
           ELSE /\ fds' = fds \cup {fd}
                /\ nfds' = xfd_count(fd, nfds)
                /\ cnt' = cnt + 1
                /\ sfds' = Place(fd)
  BY DEF add_client
<1>2. rdy' \subseteq rdy /\ fd \notin open
  BY <1>1 DEF add_client, LowestFree
<1>3. CASE cnt + 1 = FD_SETSIZE
  <2>1. UNCHANGED <<sfds, cnt, fds, nfds, status>>
    BY <1>1, <1>3
  <2>2. TypeOK'
    BY <1>1, <1>2, <2>1 DEF TableInv, TypeOK
  <2>3. Dense'
    BY <2>1 DEF TableInv, Dense
  <2>4. Watched'
    BY <1>1, <1>2, <2>1 DEF TableInv, Watched
  <2>5. QED
    BY <2>2, <2>3, <2>4 DEF TableInv
<1>4. CASE cnt + 1 # FD_SETSIZE
  <2>1. /\ fds' = fds \cup {fd} /\ nfds' = xfd_count(fd, nfds) /\ cnt' = cnt + 1
        /\ sfds' = [sfds EXCEPT ![cnt + 1] = fd]
        /\ cnt + 1 \in ClientIndex
    BY <1>1, <1>4, PlaceAtEnd
  <2>2. fd \in Nat /\ fd > ListenFd /\ nfds' \in Nat /\ nfds' >= fd /\ nfds' >= nfds
    BY <2>1, FdAssumption DEF Fd, xfd_count, TableInv, TypeOK
  <2>3. /\ sfds \in [Index -> Nat] /\ cnt \in Nat
        /\ ClientIndex \subseteq Index /\ 0 \in Index
        /\ sfds'[cnt + 1] = fd
        /\ \A i \in Index : i # cnt + 1 => sfds'[i] = sfds[i]
    BY <2>1, FdAssumption DEF TableInv, TypeOK, Index, ClientIndex
  <2>4. \A i \in Index : i <= cnt => sfds[i] # fd
    <3>1. ASSUME NEW i \in Index, i <= cnt PROVE sfds[i] # fd
      <4>1. CASE i = 0
        BY <2>2, <4>1, FdAssumption DEF TableInv, Dense
      <4>2. CASE i # 0
        <5>1. i \in ClientIndex
          BY <4>2 DEF Index, ClientIndex
        <5>2. QED
          BY <1>2, <3>1, <5>1 DEF TableInv, Watched
      <4>3. QED
        BY <4>1, <4>2
    <3>2. QED
      BY <3>1
  <2>5. TypeOK'
    <3>1. cnt' \in 0 .. FD_SETSIZE - 1 /\ sfds' \in [Index -> Nat]
      BY <2>1, <2>2, <2>3 DEF ClientIndex
    <3>2. nfds' \in ListenFd .. FdLimit - 1
      BY <2>1, FdAssumption DEF Fd, xfd_count, TableInv, TypeOK
    <3>3. QED
      BY <1>1, <1>2, <2>1, <2>2, <3>1, <3>2 DEF TableInv, TypeOK
  <2>6. Dense'
    <3>1. sfds'[0] = ListenFd
      BY <2>3 DEF TableInv, Dense
    <3>2. ASSUME NEW i \in ClientIndex PROVE sfds'[i] # 0 <=> i <= cnt'
      <4>1. sfds[i] # 0 <=> i <= cnt
        BY DEF TableInv, Dense
      <4>2. QED
        BY <2>1, <2>2, <2>3, <4>1, FdAssumption DEF ClientIndex
    <3>3. ASSUME NEW i \in Index, NEW j \in Index, sfds'[i] # 0, sfds'[i] = sfds'[j]
          PROVE  i = j
      <4>1. \A k \in Index : k # cnt + 1 /\ sfds[k] # 0 => k <= cnt
        BY <2>3 DEF TableInv, Dense, ClientIndex, Index
      <4>2. CASE i # cnt + 1 /\ j # cnt + 1
        BY <2>3, <3>3, <4>2 DEF TableInv, Dense
      <4>3. CASE i = cnt + 1 /\ j # cnt + 1
        <5>1. sfds[j] = fd
          BY <2>3, <3>3, <4>3
        <5>2. j <= cnt
          BY <2>2, <4>1, <4>3, <5>1, FdAssumption
        <5>3. QED
          BY <2>4, <5>1, <5>2
      <4>4. CASE i # cnt + 1 /\ j = cnt + 1
        <5>1. sfds[i] = fd
          BY <2>3, <3>3, <4>4
        <5>2. i <= cnt
          BY <2>2, <4>1, <4>4, <5>1, FdAssumption
        <5>3. QED
          BY <2>4, <5>1, <5>2
      <4>5. QED
        BY <4>2, <4>3, <4>4
    <3>4. QED
      BY <3>1, <3>2, <3>3 DEF Dense
  <2>7. Watched'
    <3>1. ASSUME NEW f \in fds' PROVE \E i \in Index : i <= cnt' /\ sfds'[i] = f
      <4>1. CASE f = fd
        BY <2>1, <2>3, <4>1
      <4>2. CASE f # fd
        <5>1. PICK i \in Index : i <= cnt /\ sfds[i] = f
          BY <2>1, <4>2 DEF TableInv, Watched
        <5>2. i # cnt + 1 /\ i <= cnt + 1
          BY <2>3, <5>1 DEF Index
        <5>3. QED
          BY <2>1, <2>3, <5>1, <5>2
      <4>3. QED
        BY <4>1, <4>2
    <3>2. ASSUME NEW i \in Index, i <= cnt' PROVE sfds'[i] \in fds'
      <4>1. i = cnt + 1 \/ (i # cnt + 1 /\ i <= cnt)
        BY <2>1, <2>3, <3>2 DEF Index
      <4>2. QED
        BY <2>1, <2>3, <4>1 DEF TableInv, Watched
    <3>3. ASSUME NEW i \in ClientIndex, i <= cnt' PROVE sfds'[i] \in open'
      <4>1. i = cnt + 1 \/ (i # cnt + 1 /\ i <= cnt)
        BY <2>1, <2>3, <3>3 DEF ClientIndex
      <4>2. QED
        BY <1>1, <2>3, <4>1 DEF TableInv, Watched
    <3>4. \A f \in fds' : f <= nfds'
      <4>1. \A f \in fds : f <= nfds /\ f \in Nat
        BY DEF TableInv, Watched, TypeOK
      <4>2. nfds \in Nat
        BY FdAssumption DEF TableInv, TypeOK
      <4>3. QED
        BY <2>1, <2>2, <4>1, <4>2
    <3>5. rdy' \subseteq fds'
      BY <1>2, <2>1 DEF TableInv, Watched
    <3>6. QED
      BY <3>1, <3>2, <3>3, <3>4, <3>5 DEF Watched
  <2>8. QED
    BY <2>5, <2>6, <2>7 DEF TableInv
<1>5. QED
  BY <1>3, <1>4

(***************************************************************************)
(* add_client that ends the daemon leaves values of the right type.        *)
(***************************************************************************)
LEMMA AddFails ==
    ASSUME TableInv, add_client, status' # "running"
    PROVE  TypeOK'
<1>1. PICK fd \in Fd :
        /\ open' = open \cup {fd} /\ fds' = fds \cup {fd}
        /\ nfds' = xfd_count(fd, nfds) /\ cnt' = cnt + 1
        /\ cnt + 1 # FD_SETSIZE
        /\ sfds' = Place(fd) \/ sfds' = sfds
  BY DEF add_client
<1>2. status' \in {"exited", "corrupt"} /\ rdy' \subseteq rdy
  BY DEF add_client
<1>3. /\ fd \in Nat /\ nfds' \in ListenFd .. FdLimit - 1
      /\ cnt' \in 0 .. FD_SETSIZE - 1
  BY <1>1, FdAssumption DEF Fd, xfd_count, TableInv, TypeOK
<1>4. sfds' \in [Index -> Nat]
  <2>1. sfds \in [Index -> Nat]
    BY DEF TableInv, TypeOK
  <2>2. Place(fd) = [sfds EXCEPT ![cnt + 1] = fd]
    BY <1>1, PlaceAtEnd
  <2>3. QED
    BY <1>1, <1>3, <2>1, <2>2
<1>5. QED
  BY <1>1, <1>2, <1>3, <1>4 DEF TableInv, TypeOK

(***************************************************************************)
(* disconnect_client: whichever slot the leaver had, the table loses its   *)
(* descriptor and ends one slot earlier.                                   *)
(***************************************************************************)
LEMMA RemoveFacts ==
    ASSUME TableInv, NEW i \in ClientIndex, sfds[i] # 0
    PROVE  /\ i <= cnt /\ cnt \in ClientIndex
           /\ Remove(i) \in [Index -> Nat]
           /\ Remove(i)[cnt] = 0
           /\ i < cnt => Remove(i)[i] = sfds[cnt]
           /\ \A j \in Index : j # i /\ j # cnt => Remove(i)[j] = sfds[j]
<1>1. /\ sfds \in [Index -> Nat] /\ cnt \in 0 .. FD_SETSIZE - 1
      /\ ClientIndex \subseteq Index
      /\ \A k \in ClientIndex : sfds[k] # 0 <=> k <= cnt
  BY FdAssumption DEF TableInv, TypeOK, Dense, Index, ClientIndex
<1>2. i <= cnt /\ cnt \in ClientIndex /\ cnt \in Index /\ i \in Index
      /\ 0 \in Nat /\ sfds[cnt] \in Nat /\ (cnt = 1 => i = cnt)
  BY <1>1, FdAssumption DEF ClientIndex, Index
<1>3. CASE cnt = 1
  <2>1. Remove(i) = [sfds EXCEPT ![i] = 0]
    BY <1>3 DEF Remove
  <2>2. QED
    BY <1>1, <1>2, <1>3, <2>1
<1>4. CASE cnt # 1
  <2>1. Remove(i) = [[sfds EXCEPT ![i] = sfds[cnt]] EXCEPT ![cnt] = 0]
    BY <1>4 DEF Remove
  <2>2. i < cnt => i # cnt
    BY <1>2 DEF ClientIndex
  <2>3. QED
    BY <1>1, <1>2, <2>1, <2>2
<1>5. QED
  BY <1>3, <1>4

(***************************************************************************)
(* daemon_handle_disconnect keeps the table dense and watches exactly the  *)
(* sockets that are left, even in the middle of a pass over rdy.           *)
(***************************************************************************)
LEMMA DisconnectStep ==
    ASSUME TableInv, NEW fd \in Fd, daemon_handle_disconnect(fd)
    PROVE  TableInv'
<1>1. PICK i \in ClientIndex :
        /\ sfds[i] = fd
        /\ fds' = Cleared(i) /\ open' = open \ {fd}
        /\ sfds' = Remove(i) /\ cnt' = cnt - 1
  BY DEF daemon_handle_disconnect, Fewer
<1>2. /\ rdy' = rdy \ {fd} /\ nfds' = nfds
      /\ status' \in {"aborted", "running", "exited"}
  BY DEF daemon_handle_disconnect
<1>3. fd # 0 /\ fd # ListenFd /\ fd \in Nat /\ fds' = fds \ {fd}
  BY <1>1, FdAssumption DEF Fd, Cleared
<1>4. /\ i <= cnt /\ cnt \in ClientIndex
      /\ sfds' \in [Index -> Nat]
      /\ sfds'[cnt] = 0
      /\ i < cnt => sfds'[i] = sfds[cnt]
      /\ \A j \in Index : j # i /\ j # cnt => sfds'[j] = sfds[j]
  BY <1>1, <1>3, RemoveFacts
<1>5. /\ sfds \in [Index -> Nat] /\ sfds[0] = ListenFd
      /\ \A k \in ClientIndex : sfds[k] # 0 <=> k <= cnt
      /\ \A k, l \in Index : sfds[k] # 0 /\ sfds[k] = sfds[l] => k = l
  BY DEF TableInv, TypeOK, Dense
<1>6. /\ \A f \in fds : \E k \in Index : k <= cnt /\ sfds[k] = f
      /\ \A k \in Index : k <= cnt => sfds[k] \in fds
      /\ \A k \in ClientIndex : k <= cnt => sfds[k] \in open
      /\ \A f \in fds : f <= nfds
      /\ rdy \subseteq fds
  BY DEF TableInv, Watched
<1>7. /\ ClientIndex \subseteq Index /\ 0 \in Index /\ 0 \notin ClientIndex
      /\ \A k \in Index : k \in Nat /\ (k # 0 => k \in ClientIndex)
      /\ cnt \in Nat /\ cnt - 1 \in 0 .. FD_SETSIZE - 1
      /\ \A k \in Index : k <= cnt - 1 <=> k <= cnt /\ k # cnt
      /\ i < cnt <=> i # cnt
  BY <1>4, FdAssumption DEF Index, ClientIndex
\* where a socket of the new table was before
<1>8. ASSUME NEW k \in Index, k <= cnt - 1
      PROVE  \E l \in Index : /\ l <= cnt /\ l # i /\ sfds'[k] = sfds[l]
                             /\ (k = 0 <=> l = 0)
                             /\ l = IF k = i THEN cnt ELSE k
  <2>1. CASE k = i
    BY <1>4, <1>7, <1>8, <2>1
  <2>2. CASE k # i
    BY <1>4, <1>7, <1>8, <2>2
  <2>3. QED
    BY <2>1, <2>2
<1>9. TypeOK'
  BY <1>1, <1>2, <1>3, <1>4, <1>7 DEF TableInv, TypeOK
<1>10. Dense'
  <2>1. sfds'[0] = ListenFd
    BY <1>4, <1>5, <1>7
  <2>2. ASSUME NEW k \in ClientIndex PROVE sfds'[k] # 0 <=> k <= cnt'
    <3>1. CASE k = cnt
      BY <1>1, <1>4, <1>7, <3>1
    <3>2. CASE k # cnt /\ k # i
      BY <1>1, <1>4, <1>5, <1>7, <3>2
    <3>3. CASE k # cnt /\ k = i
      <4>1. sfds'[k] = sfds[cnt] /\ sfds[cnt] # 0
        BY <1>4, <1>5, <1>7, <3>3
      <4>2. QED
        BY <1>1, <1>4, <1>7, <3>3, <4>1
    <3>4. QED
      BY <3>1, <3>2, <3>3
  <2>3. ASSUME NEW k \in Index, NEW l \in Index, sfds'[k] # 0, sfds'[k] = sfds'[l]
        PROVE  k = l
    <3>1. k <= cnt - 1 /\ l <= cnt - 1
      BY <1>1, <1>7, <2>2, <2>3
    <3>2. sfds'[k] = sfds[IF k = i THEN cnt ELSE k]
      BY <1>8, <3>1
    <3>3. sfds'[l] = sfds[IF l = i THEN cnt ELSE l]
      BY <1>8, <3>1
    <3>4. (IF k = i THEN cnt ELSE k) = (IF l = i THEN cnt ELSE l)
      BY <1>4, <1>5, <1>7, <2>3, <3>2, <3>3
    <3>5. QED
      BY <1>7, <3>1, <3>4
  <2>4. QED
    BY <2>1, <2>2, <2>3 DEF Dense
<1>11. Watched'
  <2>1. ASSUME NEW f \in fds' PROVE \E k \in Index : k <= cnt' /\ sfds'[k] = f
    <3>1. PICK l \in Index : l <= cnt /\ sfds[l] = f
      BY <1>3, <1>6
    <3>2. l # i
      BY <1>1, <1>3, <3>1
    <3>3. CASE l = cnt
      <4>1. i \in Index /\ i # cnt /\ i <= cnt - 1 /\ sfds'[i] = f
        BY <1>4, <1>7, <3>1, <3>2, <3>3
      <4>2. QED
        BY <1>1, <4>1
    <3>4. CASE l # cnt
      BY <1>1, <1>4, <1>7, <3>1, <3>2, <3>4
    <3>5. QED
      BY <3>3, <3>4
  <2>2. ASSUME NEW k \in Index, k <= cnt' PROVE sfds'[k] \in fds'
    <3>1. PICK l \in Index : l <= cnt /\ l # i /\ sfds'[k] = sfds[l]
      BY <1>1, <1>8, <2>2
    <3>2. sfds[l] \in fds /\ sfds[l] # fd
      BY <1>1, <1>3, <1>5, <1>6, <1>7, <3>1
    <3>3. QED
      BY <1>3, <3>1, <3>2
  <2>3. ASSUME NEW k \in ClientIndex, k <= cnt' PROVE sfds'[k] \in open'
    <3>1. PICK l \in Index : l <= cnt /\ l # i /\ sfds'[k] = sfds[l] /\ l # 0
      BY <1>1, <1>7, <1>8, <2>3
    <3>2. sfds[l] \in open /\ sfds[l] # fd
      BY <1>1, <1>3, <1>5, <1>6, <1>7, <3>1
    <3>3. QED
      BY <1>1, <3>1, <3>2
  <2>4. QED
    BY <1>2, <1>3, <1>6, <2>1, <2>2, <2>3 DEF Watched
<1>12. QED
  BY <1>9, <1>10, <1>11 DEF TableInv

(***************************************************************************)
(* Every step of the daemon keeps the table in order.                      *)
(***************************************************************************)
LEMMA NextTable ==
    ASSUME TypeOK, Compact, Registered, [Next]_vars
    PROVE  TypeOK' /\ Compact' /\ Registered'
<1>1. CASE UNCHANGED vars
  BY <1>1 DEF vars, TypeOK, Compact, Registered, Dense, Watched
<1> SUFFICES ASSUME Next PROVE TypeOK' /\ Compact' /\ Registered'
  BY <1>1
<1>2. TableInv
  BY DEF TableInv, Compact, Registered, Next, select, accept_fails, add_client,
         recv_client, daemon_handle_disconnect
<1>3. ASSUME UNCHANGED <<sfds, cnt, fds, nfds, open>>,
             rdy' \subseteq fds,
             status' \in {"running", "exited"}
      PROVE  TableInv'
  <2>1. TypeOK'
    BY <1>2, <1>3 DEF TableInv, TypeOK
  <2>2. Dense'
    BY <1>2, <1>3 DEF TableInv, Dense
  <2>3. Watched'
    BY <1>2, <1>3 DEF TableInv, Watched
  <2>4. QED
    BY <2>1, <2>2, <2>3 DEF TableInv
<1>4. rdy \subseteq fds
  BY <1>2 DEF TableInv, Watched
<1>5. CASE select
  <2>1. rdy' \subseteq fds /\ status' \in {"running", "exited"}
    BY <1>5 DEF select
  <2>2. TableInv'
    BY <1>3, <1>5, <2>1 DEF select
  <2>3. QED
    BY <2>2 DEF TableInv, Compact, Registered
<1>6. CASE accept_fails
  BY <1>3, <1>4, <1>6 DEF accept_fails, TableInv, Compact, Registered
<1>7. CASE add_client
  <2>1. CASE status' = "running"
    BY <1>2, <1>7, <2>1, AddStep DEF TableInv, Compact, Registered
  <2>2. CASE status' # "running"
    BY <1>2, <1>7, <2>2, AddFails DEF Compact, Registered
  <2>3. QED
    BY <2>1, <2>2
<1>8. ASSUME NEW fd \in Fd, recv_client(fd) PROVE TableInv'
  BY <1>3, <1>4, <1>8 DEF recv_client
<1>9. ASSUME NEW fd \in Fd, daemon_handle_disconnect(fd) PROVE TableInv'
  BY <1>2, <1>9, DisconnectStep
<1>10. QED
  BY <1>5, <1>6, <1>7, <1>8, <1>9 DEF Next, TableInv, Compact, Registered

(***************************************************************************)
(* Whatever connects and disconnects, slots 1..cnt are in use and no other *)
(* ones, each by a socket of its own: transfer_message, the control key    *)
(* and the rotation of keys reach every client once.                       *)
(***************************************************************************)
THEOREM CompactTheorem == Spec => []Compact
<1>1. Init => TypeOK /\ Compact /\ Registered
  BY InitTable DEF TableInv, Compact, Registered
<1>2. QED
  BY <1>1, NextTable, PTL DEF Spec

(***************************************************************************)
(* main_thread never asks socket_index for a descriptor that is not in the *)
(* table, and a pass never handles a descriptor that an earlier handler of *)
(* the same pass has closed.                                               *)
(***************************************************************************)
THEOREM RegisteredTheorem == Spec => [](TypeOK /\ Registered)
<1>1. Init => TypeOK /\ Compact /\ Registered
  BY InitTable DEF TableInv, Compact, Registered
<1>2. QED
  BY <1>1, NextTable, PTL DEF Spec

-----------------------------------------------------------------------------
(***************************************************************************)
(* As long as the daemon runs, FD_SET has stayed inside the fd_set, and no *)
(* descriptor in it is below the listening socket.                         *)
(***************************************************************************)
InSet == status = "running" => \A fd \in fds : fd \in ListenFd .. FD_SETSIZE - 1

\* init_daemon and every handler keep it so.
LEMMA InSetInvariant == Spec => []InSet
<1>1. Init => InSet
  BY FdAssumption DEF Init, InSet
<1>2. InSet /\ [Next]_vars => InSet'
  <2> SUFFICES ASSUME InSet, [Next]_vars, status' = "running"
               PROVE  \A fd \in fds' : fd \in ListenFd .. FD_SETSIZE - 1
    BY DEF InSet
  <2>1. CASE UNCHANGED vars
    BY <2>1 DEF vars, InSet
  <2>2. CASE select \/ accept_fails \/ \E fd \in Fd : recv_client(fd)
    BY <2>2 DEF select, accept_fails, recv_client, InSet
  <2>3. CASE add_client
    <3>1. PICK fd \in Fd : fds' = fds \/ (fds' = fds \cup {fd} /\ fd < FD_SETSIZE)
      BY <2>3 DEF add_client
    <3>2. fd < FD_SETSIZE => fd \in ListenFd .. FD_SETSIZE - 1
      BY FdAssumption DEF Fd
    <3>3. QED
      BY <2>3, <3>1, <3>2 DEF add_client, InSet
  <2>4. CASE \E fd \in Fd : daemon_handle_disconnect(fd)
    <3>1. fds' \subseteq fds /\ status = "running"
      BY <2>4 DEF daemon_handle_disconnect, Cleared
    <3>2. QED
      BY <3>1 DEF InSet
  <2>5. QED
    BY <2>1, <2>2, <2>3, <2>4 DEF Next
<1>3. QED
  BY <1>1, <1>2, PTL DEF Spec

(***************************************************************************)
(* The slots 0..cnt hold as many different descriptors, none of them below *)
(* ListenFd: there is no room for FD_SETSIZE of them.                      *)
(***************************************************************************)
LEMMA PigeonHole ==
    ASSUME TypeOK, Dense, Watched, \A fd \in fds : fd \in ListenFd .. FD_SETSIZE - 1
    PROVE  cnt + 1 < FD_SETSIZE
<1> DEFINE S == 0 .. cnt
           T == ListenFd .. FD_SETSIZE - 1
           f == [i \in S |-> sfds[i]]
<1>1. cnt \in Nat /\ cnt <= FD_SETSIZE - 1 /\ \A i \in S : i \in Index /\ i <= cnt
  BY FdAssumption DEF TypeOK, Index
<1>2. \A i \in S : sfds[i] \in T
  BY <1>1 DEF Watched
<1>3. \A i, j \in S : sfds[i] = sfds[j] => i = j
  BY <1>1, <1>2, FdAssumption DEF Dense
<1>4. f \in Injection(S, T)
  BY <1>2, <1>3 DEF Injection, IsInjective
<1>5. IsFiniteSet(T) /\ Cardinality(T) = FD_SETSIZE - ListenFd
  BY FS_Interval, FdAssumption
<1>6. Cardinality(S) = cnt + 1
  BY FS_Interval, <1>1
<1>7. Cardinality(S) <= Cardinality(T)
  <2> HIDE DEF S, T, f
  <2>1. QED
    BY <1>4, <1>5, FS_Injection
<1>8. QED
  BY <1>1, <1>5, <1>6, <1>7, FdAssumption

(***************************************************************************)
(* add_client never meets a full table, so its branch that rejects a       *)
(* connection (and leaks the descriptor) is never taken, whatever the      *)
(* limit on descriptors.                                                   *)
(***************************************************************************)
THEOREM NeverFullTheorem == Spec => []NeverFull
<1>1. TypeOK /\ Registered /\ Compact /\ InSet => NeverFull
  BY PigeonHole DEF Registered, Compact, InSet, NeverFull
<1>2. QED
  BY <1>1, CompactTheorem, RegisteredTheorem, InSetInvariant, PTL

=============================================================================
