------------------------- MODULE GroupExchangeProofs -------------------------
(***************************************************************************)
(* Proofs about GroupExchange for every number of clients and every number *)
(* of chat cables written during the exchange.                             *)
(***************************************************************************)
EXTENDS GroupExchange, TLAPS

(***************************************************************************)
(* The ring.  LeftOf undoes RightOf, so the daemon serves each client's    *)
(* right neighbour and nobody else (rotate_intermediates).                 *)
(***************************************************************************)
LEMMA Ring ==
    ASSUME NEW c \in Slot
    PROVE  /\ RightOf(c) \in Slot
           /\ LeftOf(c) \in Slot
           /\ LeftOf(RightOf(c)) = c
           /\ RightOf(LeftOf(c)) = c
BY NAssumption DEF RightOf, FirstSlot, LeftOf, Slot

(***************************************************************************)
(* Points.  Pt(c, k) is a point (point_q, point_kx).                       *)
(***************************************************************************)
LEMMA PtType ==
    ASSUME NEW c \in Slot, NEW k \in Nat
    PROVE  Pt(c, k) \in Point
BY NAssumption DEF Pt, Point, Slot

(***************************************************************************)
(* point_q: a client's public key holds its own secret and nothing else.   *)
(***************************************************************************)
LEMMA PtBase ==
    ASSUME NEW c \in Slot
    PROVE  point_q(c) = Pt(c, 0)
<1>1. \A j \in Slot : Dist(j, c) <= 0 <=> j = c
  BY NAssumption DEF Dist, Slot
<1>2. point_q(c) = [j \in Slot |-> IF j = c THEN 1 ELSE 0]
  BY DEF point_q, point_kx, BasePoint
<1>3. QED
  BY <1>1, <1>2 DEF Pt

(***************************************************************************)
(* point_kx: a client that applies its secret to the k-th key of its left  *)
(* neighbour obtains its own (k+1)-st key.                                 *)
(***************************************************************************)
LEMMA PtStep ==
    ASSUME NEW c \in Slot, NEW k \in Nat, k < rounds
    PROVE  point_kx(c, Pt(LeftOf(c), k)) = Pt(c, k + 1)
<1>1. \A j \in Slot : j # c =>
        (Dist(j, LeftOf(c)) <= k <=> Dist(j, c) <= k + 1)
  BY NAssumption DEF Dist, Slot, LeftOf
<1>2. ~(Dist(c, LeftOf(c)) <= k)
  BY NAssumption DEF Dist, Slot, LeftOf, rounds
<1>3. Dist(c, c) <= k + 1
  BY NAssumption DEF Dist, Slot
<1>4. Pt(LeftOf(c), k)[c] = 0
  BY <1>2 DEF Pt
<1>5. Pt(LeftOf(c), k) \in Point /\ Pt(c, k + 1) \in Point
  BY Ring, PtType
<1>6. \A j \in Slot : j # c => Pt(LeftOf(c), k)[j] = Pt(c, k + 1)[j]
  BY <1>1 DEF Pt
<1>7. Pt(c, k + 1)[c] = 1
  BY <1>3 DEF Pt
<1>8. \A f, g \in Point :
        f[c] = 0 /\ g[c] = 1 /\ (\A j \in Slot : j # c => f[j] = g[j])
          => [f EXCEPT ![c] = @ + 1] = g
  BY DEF Point
<1>9. QED
  BY <1>4, <1>5, <1>6, <1>7, <1>8 DEF point_kx

(***************************************************************************)
(* After all rounds every secret is in the point, once (n_party_client).   *)
(***************************************************************************)
LEMMA PtFull ==
    ASSUME NEW c \in Slot
    PROVE  Pt(c, rounds) = [j \in Slot |-> 1]
<1>1. \A j \in Slot : Dist(j, c) <= rounds
  BY NAssumption DEF Dist, Slot, rounds
<1>2. QED
  BY <1>1 DEF Pt

(***************************************************************************)
(* Before that, the secret of the right neighbour is missing.              *)
(***************************************************************************)
LEMMA PtLacks ==
    ASSUME NEW c \in Slot, NEW k \in Nat, k < rounds
    PROVE  \E j \in Slot : Pt(c, k)[j] = 0
<1>1. RightOf(c) \in Slot /\ ~(Dist(RightOf(c), c) <= k)
  BY NAssumption DEF Dist, Slot, RightOf, FirstSlot, rounds
<1>2. Pt(c, k)[RightOf(c)] = 0
  BY <1>1 DEF Pt
<1>3. QED
  BY <1>1, <1>2

(***************************************************************************)
(* Streams.  What reading from the front and writing to the back do.       *)
(***************************************************************************)
LEMMA ReadFacts ==
    ASSUME NEW S, NEW s \in Seq(S), s # << >>
    PROVE  /\ Tail(s) \in Seq(S)
           /\ Len(s) \in Nat
           /\ Len(Tail(s)) \in Nat
           /\ Len(s) = Len(Tail(s)) + 1
           /\ \A p \in 1 .. Len(Tail(s)) : Tail(s)[p] = s[p + 1]
           /\ Head(s) = s[1]
           /\ Head(s) \in S
OBVIOUS

LEMMA WriteFacts ==
    ASSUME NEW S, NEW s \in Seq(S), NEW m \in S
    PROVE  /\ Append(s, m) \in Seq(S)
           /\ Len(s) \in Nat
           /\ Len(Append(s, m)) = Len(s) + 1
           /\ \A p \in 1 .. Len(s) : Append(s, m)[p] = s[p]
           /\ Append(s, m)[Len(s) + 1] = m
OBVIOUS

-----------------------------------------------------------------------------
(***************************************************************************)
(* Initially nothing is under way.                                         *)
(***************************************************************************)
LEMMA InitIInv == Init => IInv
<1> SUFFICES ASSUME Init PROVE IInv
  OBVIOUS
<1>1. TypeOK
  <2>1. BasePoint \in Point
    BY DEF BasePoint, Point
  <2>2. QED
    BY <2>1, NAssumption, MaxTextsAssumption
    DEF Init, TypeOK, rounds, Slot
<1>2. DaemonInv
  BY NAssumption DEF Init, DaemonInv, rounds
<1>3. ASSUME NEW c \in Slot
      PROVE  ClientInv(c) /\ DownInv(c) /\ UpInv(c)
  BY <1>3 DEF Init, ClientInv, DownInv, UpInv, OnlyKeys, CtrlSent, Rcvd, Sent
<1>4. QED
  BY <1>1, <1>2, <1>3 DEF IInv, KeysInPosition

(***************************************************************************)
(* A step that leaves a client, both its streams and the counts on them    *)
(* alone keeps what the invariant says about that client.                  *)
(***************************************************************************)
LEMMA Frame ==
    ASSUME NEW c \in Slot,
           ClientInv(c), DownInv(c), UpInv(c),
           up'[c] = up[c], down'[c] = down[c], cpc'[c] = cpc[c],
           cnt'[c] = cnt[c], ci'[c] = ci[c], session'[c] = session[c],
           Rcvd(c)' = Rcvd(c), Rcvd(LeftOf(c))' = Rcvd(LeftOf(c)),
           CtrlSent(c)' = CtrlSent(c),
           dpc' # "failed" => dpc # "failed"
    PROVE  ClientInv(c)' /\ DownInv(c)' /\ UpInv(c)'
<1>1. ClientInv(c)'
  BY DEF ClientInv
<1>2. DownInv(c)'
  BY DEF DownInv
<1>3. Sent(c)' = Sent(c)
  BY DEF Sent
<1>4. UpInv(c)'
  BY <1>3 DEF UpInv, OnlyKeys
<1>5. QED
  BY <1>1, <1>2, <1>4

(***************************************************************************)
(* A client that writes the key its count calls for keeps its stream to    *)
(* the daemon in position.                                                 *)
(***************************************************************************)
LEMMA SendKey ==
    ASSUME TypeOK, NEW c \in Slot, UpInv(c),
           Sent(c) \in 0 .. N - 2, Rcvd(c) \in Nat,
           up'[c] = Append(up[c], Ke(Pt(c, Sent(c)))),
           Sent(c)' = Sent(c) + 1, Rcvd(c)' = Rcvd(c), dpc' = dpc
    PROVE  UpInv(c)'
<1>1. /\ Len(up'[c]) = Len(up[c]) + 1
      /\ Len(up[c]) \in Nat
      /\ \A p \in 1 .. Len(up[c]) : up'[c][p] = up[c][p]
      /\ up'[c][Len(up[c]) + 1] = Ke(Pt(c, Sent(c)))
  <2>1. Ke(Pt(c, Sent(c))) \in KeMsg \cup TextMsg
    BY PtType DEF Ke, KeMsg
  <2>2. up[c] \in Seq(KeMsg \cup TextMsg)
    BY DEF TypeOK
  <2>3. QED
    BY <2>1, <2>2, WriteFacts
<1>2. \A p \in 1 .. Len(up'[c]) : up'[c][p].type = "ke" =>
        \E k \in 0 .. N - 2 : up'[c][p].key = Pt(c, k)
  BY <1>1 DEF UpInv, Ke
<1>3. ASSUME dpc' # "failed", OnlyKeys(c, Len(up[c]))'
      PROVE  Rcvd(c)' + Len(up'[c]) = Sent(c)'
  <2>1. OnlyKeys(c, Len(up[c]))
    BY <1>1, <1>3 DEF OnlyKeys
  <2>2. Rcvd(c) + Len(up[c]) = Sent(c)
    BY <1>3, <2>1 DEF UpInv
  <2>3. QED
    BY <1>1, <2>2
<1>4. ASSUME dpc' # "failed", NEW p \in 1 .. Len(up'[c]), OnlyKeys(c, p)'
      PROVE  up'[c][p].key = Pt(c, Rcvd(c)' + p - 1)
  <2>1. CASE p \in 1 .. Len(up[c])
    <3>1. OnlyKeys(c, p)
      BY <1>1, <1>4, <2>1 DEF OnlyKeys
    <3>2. QED
      BY <1>1, <1>4, <2>1, <3>1 DEF UpInv
  <2>2. CASE p = Len(up[c]) + 1
    <3>1. OnlyKeys(c, Len(up[c]))
      BY <1>1, <1>4, <2>2 DEF OnlyKeys
    <3>2. Rcvd(c) + Len(up[c]) = Sent(c)
      BY <1>4, <3>1 DEF UpInv
    <3>3. Rcvd(c)' + p - 1 = Sent(c)
      BY <1>1, <2>2, <3>2
    <3>4. QED
      BY <1>1, <2>2, <3>3 DEF Ke
  <2>3. QED
    BY <1>1, <1>4, <2>1, <2>2
<1>5. QED
  BY <1>2, <1>3, <1>4 DEF UpInv

(***************************************************************************)
(* The daemon enters n_party_server.                                       *)
(***************************************************************************)
LEMMA StartStep ==
    ASSUME IInv, n_party_server
    PROVE  IInv'
<1> USE DEF IInv, KeysInPosition, n_party_server, cvars
<1>1. TypeOK'
  BY DEF TypeOK
<1>2. DaemonInv'
  BY NAssumption DEF DaemonInv, TypeOK, rounds
<1>3. ASSUME NEW c \in Slot
      PROVE  ClientInv(c)' /\ DownInv(c)' /\ UpInv(c)'
  <2>1. ClientInv(c)'
    BY DEF ClientInv
  <2>2. ~CtrlSent(c) /\ ~CtrlSent(c)'
    BY NAssumption DEF CtrlSent, rounds, TypeOK, Slot, DaemonInv
  <2>3. DownInv(c)'
    BY <2>2 DEF DownInv
  <2>4. Rcvd(c) = 0 /\ Rcvd(c)' = 0 /\ Sent(c)' = Sent(c)
    BY NAssumption DEF Rcvd, Sent, DaemonInv, TypeOK, Slot, rounds
  <2>5. UpInv(c)'
    BY <2>4 DEF UpInv, OnlyKeys
  <2>6. QED
    BY <2>1, <2>3, <2>5
<1>4. QED
  BY <1>1, <1>2, <1>3

(***************************************************************************)
(* send_text_msg puts a cable after whatever is queued: from there on the  *)
(* queue is no longer keys only, and the counting argument claims nothing  *)
(* about what follows the cable.                                           *)
(***************************************************************************)
LEMMA TextStep ==
    ASSUME IInv, NEW a \in Slot, send_text_msg(a)
    PROVE  IInv'
<1> USE DEF IInv, KeysInPosition, send_text_msg, cvars, dvars
<1>1. TypeOK'
  <2>1. up' \in [Slot -> Seq(KeMsg \cup TextMsg)]
    <3>1. TextCable \in KeMsg \cup TextMsg
      BY DEF TextCable, TextMsg
    <3>2. QED
      BY <3>1 DEF TypeOK
  <2>2. texts' \in [Slot -> 0 .. MaxTexts]
    BY MaxTextsAssumption DEF TypeOK
  <2>3. QED
    BY <2>1, <2>2 DEF TypeOK
<1>2. DaemonInv'
  BY DEF DaemonInv
<1>3. ASSUME NEW c \in Slot
      PROVE  ClientInv(c)' /\ DownInv(c)' /\ UpInv(c)'
  <2>1. ClientInv(c)'
    BY DEF ClientInv
  <2>2. Rcvd(LeftOf(c))' = Rcvd(LeftOf(c)) /\ CtrlSent(c)' = CtrlSent(c)
    BY DEF Rcvd, CtrlSent
  <2>3. DownInv(c)'
    BY <2>2 DEF DownInv
  <2>4. Rcvd(c)' = Rcvd(c) /\ Sent(c)' = Sent(c)
    BY DEF Rcvd, Sent
  <2>5. UpInv(c)'
    <3>1. CASE c # a
      <4>1. up'[c] = up[c]
        BY <3>1 DEF TypeOK
      <4>2. QED
        BY <4>1, <2>4 DEF UpInv, OnlyKeys
    <3>2. CASE c = a
      <4>1. /\ Len(up'[c]) = Len(up[c]) + 1
            /\ Len(up[c]) \in Nat
            /\ \A p \in 1 .. Len(up[c]) : up'[c][p] = up[c][p]
            /\ up'[c][Len(up[c]) + 1].type = "text"
        BY <3>2 DEF TypeOK, TextCable
      <4>2. \A p \in 1 .. Len(up'[c]) : up'[c][p].type = "ke" =>
              \E k \in 0 .. N - 2 : up'[c][p].key = Pt(c, k)
        BY <4>1 DEF UpInv
      <4>3. ~OnlyKeys(c, Len(up[c]))'
        BY <4>1 DEF OnlyKeys
      <4>4. ASSUME dpc' # "failed", NEW p \in 1 .. Len(up'[c]), OnlyKeys(c, p)'
            PROVE  up'[c][p].key = Pt(c, Rcvd(c)' + p - 1)
        <5>1. p \in 1 .. Len(up[c]) /\ OnlyKeys(c, p)
          BY <4>1, <4>4 DEF OnlyKeys
        <5>2. QED
          BY <2>4, <4>1, <4>4, <5>1 DEF UpInv
      <4>5. QED
        BY <4>2, <4>3, <4>4 DEF UpInv
    <3>3. QED
      BY <3>1, <3>2
  <2>6. QED
    BY <2>1, <2>3, <2>5
<1>4. QED
  BY <1>1, <1>2, <1>3

(***************************************************************************)
(* server_send_ctrl_key: the CTRL cable is the first message of the        *)
(* exchange on its socket; no key has been received from anybody yet.      *)
(***************************************************************************)
LEMMA CtrlStep ==
    ASSUME IInv, server_send_ctrl_key
    PROVE  IInv'
<1> USE DEF IInv, KeysInPosition, server_send_ctrl_key, FirstSlot, LastSlot, cvars
<1>0. /\ di \in Slot /\ N \in Nat /\ N > 1 /\ round = 0
      /\ dpc' \in {"ctrl", "rotate"} /\ di' \in Slot
      /\ dpc' = "rotate" => di = N /\ di' = 1
      /\ dpc' = "ctrl" => di' = di + 1
  <2>1. di \in Slot /\ N \in Nat /\ N > 1 /\ round = 0
    BY NAssumption DEF TypeOK, DaemonInv, rounds
  <2>2. CASE di = N
    BY <2>1, <2>2 DEF Slot
  <2>3. CASE di # N
    BY <2>1, <2>3 DEF Slot
  <2>4. QED
    BY <2>1, <2>2, <2>3
<1>1. TypeOK'
  <2>1. Ctrl(rounds) \in KeMsg \cup CtrlMsg
    BY NAssumption DEF Ctrl, CtrlMsg, rounds
  <2>2. down' \in [Slot -> Seq(KeMsg \cup CtrlMsg)]
    BY <2>1 DEF TypeOK
  <2>3. QED
    BY <1>0, <2>2 DEF TypeOK
<1>2. DaemonInv'
  BY <1>0 DEF DaemonInv, rounds
<1>3. ASSUME NEW c \in Slot
      PROVE  ClientInv(c)' /\ DownInv(c)' /\ UpInv(c)'
  <2>1. ClientInv(c)'
    BY DEF ClientInv
  <2>2. \A x \in Slot : Rcvd(x) = 0 /\ Rcvd(x)' = 0
    BY <1>0 DEF Rcvd, Slot
  <2>3. UpInv(c)'
    <3>1. Sent(c)' = Sent(c)
      BY DEF Sent
    <3>2. QED
      BY <1>0, <2>2, <3>1 DEF UpInv, OnlyKeys
  <2>4. DownInv(c)'
    <3>1. CASE c = di
      <4>1. ~CtrlSent(c) /\ CtrlSent(c)'
        BY <1>0, <3>1 DEF CtrlSent, Slot
      <4>2. cpc'[c] = "idle" /\ down[c] = << >>
        BY <3>1, <4>1 DEF DownInv
      <4>3. Len(down'[c]) = 1 /\ down'[c][1] = Ctrl(rounds)
        <5>1. down[c] \in Seq(KeMsg \cup CtrlMsg) /\ Len(down[c]) = 0
          BY <4>2 DEF TypeOK
        <5>2. down'[c] = Append(down[c], Ctrl(rounds))
          BY <3>1 DEF TypeOK
        <5>3. QED
          BY <5>1, <5>2
      <4>4. Rcvd(LeftOf(c))' = 0
        BY <2>2, Ring
      <4>5. QED
        BY <4>1, <4>2, <4>3, <4>4 DEF DownInv
    <3>2. CASE c # di
      <4>1. CtrlSent(c)' = CtrlSent(c)
        BY <1>0, <3>2 DEF CtrlSent, Slot
      <4>2. down'[c] = down[c]
        BY <3>2 DEF TypeOK
      <4>3. Rcvd(LeftOf(c))' = Rcvd(LeftOf(c))
        BY <2>2, Ring
      <4>4. QED
        BY <4>1, <4>2, <4>3 DEF DownInv
    <3>3. QED
      BY <3>1, <3>2
  <2>5. QED
    BY <2>1, <2>3, <2>4
<1>4. QED
  BY <1>1, <1>2, <1>3

(***************************************************************************)
(* proc_ctrl: the client sends key number 0, its public key.               *)
(***************************************************************************)
LEMMA ProcCtrlStep ==
    ASSUME IInv, NEW a \in Slot, proc_ctrl(a)
    PROVE  IInv'
<1> USE DEF IInv, KeysInPosition, proc_ctrl, dvars
<1>0. /\ CtrlSent(a) /\ N \in Nat /\ N > 1
      /\ Len(down[a]) = 1 + Rcvd(LeftOf(a))
      /\ Head(down[a]) = Ctrl(rounds)
      /\ ci[a] = 0
  <2>1. CtrlSent(a)
    BY DEF DownInv
  <2>2. QED
    BY <2>1, NAssumption DEF DownInv, TypeOK, CtrlSent, ClientInv
<1>1. Ke(point_q(a)) = Ke(Pt(a, 0)) /\ Pt(a, 0) \in Point
  BY PtBase, PtType
<1>2. TypeOK'
  <2>1. Ke(point_q(a)) \in KeMsg \cup TextMsg
    BY <1>1 DEF Ke, KeMsg
  <2>2. up' \in [Slot -> Seq(KeMsg \cup TextMsg)]
    BY <2>1 DEF TypeOK
  <2>3. down' \in [Slot -> Seq(KeMsg \cup CtrlMsg)]
    BY DEF TypeOK
  <2>4. cnt' \in [Slot -> Nat]
    BY <1>0 DEF TypeOK, Ctrl, rounds
  <2>5. QED
    BY <2>2, <2>3, <2>4 DEF TypeOK
<1>3. DaemonInv'
  BY DEF DaemonInv
<1>4. ASSUME NEW c \in Slot
      PROVE  ClientInv(c)' /\ DownInv(c)' /\ UpInv(c)'
  <2>1. Rcvd(c)' = Rcvd(c) /\ Rcvd(LeftOf(c))' = Rcvd(LeftOf(c))
        /\ CtrlSent(c)' = CtrlSent(c)
    BY DEF Rcvd, CtrlSent
  <2>2. CASE c # a
    <3>1. /\ up'[c] = up[c] /\ down'[c] = down[c] /\ cpc'[c] = cpc[c]
          /\ cnt'[c] = cnt[c] /\ ci'[c] = ci[c] /\ session'[c] = session[c]
      BY <2>2 DEF TypeOK
    <3>2. QED
      BY <2>1, <3>1, Frame
  <2>3. CASE c = a
    <3>1. ClientInv(c)'
      BY <1>0, <2>3 DEF ClientInv, TypeOK, Ctrl, rounds
    <3>2. DownInv(c)'
      <4>1. /\ Len(down'[c]) = Rcvd(LeftOf(c))
            /\ \A p \in 1 .. Len(down'[c]) : down'[c][p] = down[c][p + 1]
        <5>1. down'[c] = Tail(down[c]) /\ down[c] \in Seq(KeMsg \cup CtrlMsg)
              /\ down[c] # << >> /\ Len(down[c]) = 1 + Rcvd(LeftOf(c))
          BY <1>0, <2>3 DEF TypeOK
        <5>2. Rcvd(LeftOf(c)) \in Nat
          BY NAssumption DEF Rcvd, TypeOK, rounds
        <5> HIDE DEF IInv, proc_ctrl
        <5>3. /\ Len(down[c]) = Len(Tail(down[c])) + 1
              /\ Len(Tail(down[c])) \in Nat
              /\ \A p \in 1 .. Len(Tail(down[c])) : Tail(down[c])[p] = down[c][p + 1]
          BY <5>1, ReadFacts
        <5>4. QED
          BY <5>1, <5>2, <5>3
      <4>2. \A p \in 1 .. Len(down'[c]) : down'[c][p] = Ke(Pt(LeftOf(c), p - 1))
        <5>1. \A p \in 2 .. Len(down[c]) : down[c][p] = Ke(Pt(LeftOf(c), p - 2))
          BY <1>0, <2>3 DEF DownInv
        <5>2. Len(down[c]) = Len(down'[c]) + 1 /\ Len(down'[c]) \in Nat
          BY <1>0, <2>3 DEF TypeOK
        <5>3. \A p \in 1 .. Len(down'[c]) :
                 p + 1 \in 2 .. Len(down[c]) /\ (p + 1) - 2 = p - 1
          BY <5>2
        <5>4. QED
          BY <4>1, <5>1, <5>3
      <4>3. ci'[c] = 0 /\ cpc'[c] = "recv"
        BY <1>0, <2>3 DEF TypeOK
      <4>4. QED
        BY <1>0, <2>1, <2>3, <4>1, <4>2, <4>3 DEF DownInv, TypeOK
    <3>3. UpInv(c)'
      <4>1. Sent(c) = 0 /\ Sent(c)' = 1 /\ Rcvd(c) \in Nat /\ 0 \in 0 .. N - 2
        BY <1>0, <2>3, NAssumption DEF Sent, TypeOK, Rcvd, rounds
      <4>2. up'[c] = Append(up[c], Ke(Pt(c, 0)))
        BY <1>1, <2>3 DEF TypeOK
      <4>3. TypeOK /\ UpInv(c) /\ dpc' = dpc
        OBVIOUS
      <4> HIDE DEF IInv, proc_ctrl
      <4>4. QED
        BY <2>1, <4>1, <4>2, <4>3, SendKey
    <3>4. QED
      BY <3>1, <3>2, <3>3
  <2>4. QED
    BY <2>2, <2>3
<1>5. QED
  BY <1>2, <1>3, <1>4

(***************************************************************************)
(* n_party_client: the client's ke_rcv yields the key its count calls for, *)
(* and what it passes on, or keeps, is one secret longer.                  *)
(***************************************************************************)
LEMMA ClientStep ==
    ASSUME IInv, NEW a \in Slot, n_party_client(a)
    PROVE  IInv'
<1> DEFINE shared == Pt(a, ci[a] + 1)
<1>1. /\ TypeOK /\ DaemonInv /\ N \in Nat
      /\ \A c \in Slot : ClientInv(c) /\ DownInv(c) /\ UpInv(c)
      /\ cpc[a] = "recv" /\ down[a] # << >>
      /\ \A c \in Slot : Rcvd(c) \in Nat
  BY NAssumption DEF IInv, KeysInPosition, n_party_client, Rcvd, TypeOK, rounds
<1>2. /\ CtrlSent(a) /\ cnt[a] = rounds /\ ci[a] \in Nat /\ ci[a] < rounds
      /\ rounds \in Nat
  BY <1>1, NAssumption DEF DownInv, ClientInv, TypeOK, rounds
<1>3. /\ down[a] \in Seq(KeMsg \cup CtrlMsg)
      /\ Len(down[a]) = Len(Tail(down[a])) + 1
      /\ Len(Tail(down[a])) \in Nat
      /\ \A p \in 1 .. Len(Tail(down[a])) : Tail(down[a])[p] = down[a][p + 1]
      /\ Head(down[a]) = down[a][1]
      /\ Tail(down[a]) \in Seq(KeMsg \cup CtrlMsg)
  <2>1. down[a] \in Seq(KeMsg \cup CtrlMsg)
    BY <1>1 DEF TypeOK
  <2>2. QED
    BY <2>1, <1>1, ReadFacts
<1>4. /\ Len(down[a]) + ci[a] = Rcvd(LeftOf(a))
      /\ \A p \in 1 .. Len(down[a]) : down[a][p] = Ke(Pt(LeftOf(a), ci[a] + p - 1))
  BY <1>1, <1>2 DEF DownInv
<1>5. Head(down[a]) = Ke(Pt(LeftOf(a), ci[a]))
  <2>1. 1 \in 1 .. Len(down[a]) /\ ci[a] + 1 - 1 = ci[a]
    BY <1>2, <1>3
  <2>2. QED
    BY <1>3, <1>4, <2>1
<1>6. Head(down[a]).type = "ke" /\ point_kx(a, Head(down[a]).key) = shared
  BY <1>2, <1>5, PtStep DEF Ke
<1>7. /\ down' = [down EXCEPT ![a] = Tail(@)]
      /\ ci' = [ci EXCEPT ![a] = @ + 1]
      /\ UNCHANGED <<dpc, di, round, cnt, texts>>
      /\ ci[a] = rounds - 1 =>
            /\ session' = [session EXCEPT ![a] = shared]
            /\ cpc' = [cpc EXCEPT ![a] = "done"]
            /\ up' = up
      /\ ci[a] # rounds - 1 =>
            /\ up' = [up EXCEPT ![a] = Append(@, Ke(shared))]
            /\ session' = session
            /\ cpc' = cpc
  BY <1>2, <1>6 DEF n_party_client, dvars
<1>8. shared \in Point
  BY <1>2, PtType
<1> HIDE DEF shared
<1>9. TypeOK'
  <2>1. Ke(shared) \in KeMsg \cup TextMsg
    BY <1>8 DEF Ke, KeMsg
  <2>2. up' \in [Slot -> Seq(KeMsg \cup TextMsg)]
    <3>1. CASE ci[a] = rounds - 1
      BY <1>1, <1>7, <3>1 DEF TypeOK
    <3>2. CASE ci[a] # rounds - 1
      <4>1. Append(up[a], Ke(shared)) \in Seq(KeMsg \cup TextMsg)
        BY <1>1, <2>1 DEF TypeOK
      <4>2. QED
        BY <1>1, <1>7, <3>2, <4>1 DEF TypeOK
    <3>3. QED
      BY <3>1, <3>2
  <2>3. down' \in [Slot -> Seq(KeMsg \cup CtrlMsg)]
    BY <1>1, <1>3, <1>7 DEF TypeOK
  <2>4. ci' \in [Slot -> 0 .. rounds]
    BY <1>1, <1>2, <1>7 DEF TypeOK
  <2>5. session' \in [Slot -> Point] /\ cpc' \in [Slot -> {"idle", "recv", "done", "failed"}]
    BY <1>1, <1>7, <1>8 DEF TypeOK
  <2>6. QED
    BY <1>1, <1>7, <2>2, <2>3, <2>4, <2>5 DEF TypeOK
<1>10. DaemonInv'
  BY <1>1, <1>7 DEF DaemonInv
<1>11. ASSUME NEW c \in Slot
       PROVE  ClientInv(c)' /\ DownInv(c)' /\ UpInv(c)'
  <2>1. /\ Rcvd(c)' = Rcvd(c) /\ Rcvd(LeftOf(c))' = Rcvd(LeftOf(c))
        /\ CtrlSent(c)' = CtrlSent(c)
    BY <1>7 DEF Rcvd, CtrlSent
  <2>2. CASE c # a
    <3>1. /\ up'[c] = up[c] /\ down'[c] = down[c] /\ cpc'[c] = cpc[c]
          /\ cnt'[c] = cnt[c] /\ ci'[c] = ci[c] /\ session'[c] = session[c]
          /\ dpc' = dpc
      BY <1>1, <1>7, <2>2 DEF TypeOK
    <3>2. QED
      BY <1>1, <2>1, <3>1, Frame
  <2>3. CASE c = a
    <3>1. /\ ci'[c] = ci[c] + 1 /\ cnt'[c] = rounds /\ down'[c] = Tail(down[c])
          /\ cpc'[c] = IF ci[c] = rounds - 1 THEN "done" ELSE "recv"
          /\ ci[c] = rounds - 1 => session'[c] = shared
      BY <1>1, <1>2, <1>7, <2>3 DEF TypeOK
    <3>2. ClientInv(c)'
      BY <1>2, <2>3, <3>1 DEF ClientInv, shared
    <3>3. DownInv(c)'
      <4>1. Len(down'[c]) + ci'[c] = Rcvd(LeftOf(c))'
        <5>1. Len(down'[c]) + ci'[c] = Len(down[a]) + ci[a]
          BY <1>2, <1>3, <2>3, <3>1
        <5>2. Rcvd(LeftOf(c))' = Rcvd(LeftOf(a))
          BY <2>1, <2>3
        <5>3. QED
          BY <1>4, <5>1, <5>2
      <4>2. \A p \in 1 .. Len(down'[c]) :
              down'[c][p] = Ke(Pt(LeftOf(c), ci'[c] + p - 1))
        <5>1. \A p \in 1 .. Len(down'[c]) :
                 p + 1 \in 1 .. Len(down[c]) /\ ci'[c] + p - 1 = ci[c] + (p + 1) - 1
          BY <1>2, <1>3, <2>3, <3>1
        <5>2. QED
          BY <1>3, <1>4, <2>3, <3>1, <5>1
      <4>3. CtrlSent(c)' /\ cpc'[c] # "idle"
        BY <1>2, <2>1, <2>3, <3>1
      <4>4. QED
        BY <4>1, <4>2, <4>3 DEF DownInv
    <3>4. UpInv(c)'
      <4>1. Sent(c) = ci[c] + 1
        BY <1>1, <2>3 DEF Sent
      <4>2. CASE ci[c] = rounds - 1
        <5>1. Sent(c)' = Sent(c)
          BY <1>2, <2>3, <3>1, <4>1, <4>2 DEF Sent
        <5>2. up'[c] = up[c] /\ dpc' = dpc /\ UpInv(c)
          BY <1>1, <1>7, <2>3, <4>2
        <5>3. QED
          BY <2>1, <5>1, <5>2 DEF UpInv, OnlyKeys
      <4>3. CASE ci[c] # rounds - 1
        <5>1. /\ Sent(c)' = Sent(c) + 1
              /\ Sent(c) \in 0 .. N - 2
          BY <1>1, <1>2, <2>3, <3>1, <4>1, <4>3 DEF Sent, rounds
        <5>2. up'[c] = Append(up[c], Ke(Pt(c, Sent(c)))) /\ dpc' = dpc
          BY <1>1, <1>7, <2>3, <4>1, <4>3 DEF TypeOK, shared
        <5>3. QED
          BY <1>1, <2>1, <5>1, <5>2, SendKey
      <4>4. QED
        BY <4>2, <4>3
    <3>5. QED
      BY <3>2, <3>3, <3>4
  <2>4. QED
    BY <2>2, <2>3
<1>12. QED
  BY <1>9, <1>10, <1>11 DEF IInv, KeysInPosition

(***************************************************************************)
(* rotate_intermediates: the daemon reads the key its round calls for and  *)
(* hands it to the right neighbour, or it meets a chat cable and fails.    *)
(***************************************************************************)
LEMMA RotateStep ==
    ASSUME IInv, rotate_intermediates
    PROVE  IInv'
<1> DEFINE m == Head(up[di])
           r == RightOf(di)
<1>1. /\ TypeOK /\ DaemonInv /\ N \in Nat
      /\ \A c \in Slot : ClientInv(c) /\ DownInv(c) /\ UpInv(c)
      /\ dpc = "rotate" /\ di \in Slot /\ up[di] # << >>
  BY NAssumption DEF IInv, KeysInPosition, rotate_intermediates, FirstSlot, TypeOK
<1>2. round \in Nat /\ round < rounds /\ rounds \in Nat /\ N > 1
      /\ Rcvd(di) = round /\ \A c \in Slot : CtrlSent(c) /\ Rcvd(c) \in Nat
  BY <1>1, NAssumption DEF DaemonInv, TypeOK, rounds, Rcvd, CtrlSent, Slot
<1>3. /\ up[di] \in Seq(KeMsg \cup TextMsg)
      /\ Tail(up[di]) \in Seq(KeMsg \cup TextMsg)
      /\ Len(up[di]) = Len(Tail(up[di])) + 1
      /\ Len(Tail(up[di])) \in Nat
      /\ \A p \in 1 .. Len(Tail(up[di])) : Tail(up[di])[p] = up[di][p + 1]
      /\ m = up[di][1] /\ m \in KeMsg \cup TextMsg
  <2>1. up[di] \in Seq(KeMsg \cup TextMsg)
    BY <1>1 DEF TypeOK
  <2>2. QED
    BY <2>1, <1>1, ReadFacts
<1>4. /\ up' = [up EXCEPT ![di] = Tail(@)]
      /\ UNCHANGED <<cpc, cnt, ci, session, texts>>
      /\ m.type # "ke" => dpc' = "failed" /\ UNCHANGED <<di, round, down>>
      /\ m.type = "ke" =>
           /\ down' = [down EXCEPT ![r] = Append(@, Ke(m.key))]
           /\ di = N => /\ di' = 1
                        /\ round' = round + 1
                        /\ dpc' = IF round + 1 < rounds THEN "rotate" ELSE "done"
           /\ di # N => di' = di + 1 /\ UNCHANGED <<round, dpc>>
  BY DEF rotate_intermediates, FirstSlot, cvars
<1> HIDE DEF m, r
<1>5. up' \in [Slot -> Seq(KeMsg \cup TextMsg)]
  BY <1>1, <1>3, <1>4 DEF TypeOK
<1>6. \A c \in Slot : CtrlSent(c)'
  BY <1>1, <1>2, <1>4 DEF CtrlSent
<1>7. ASSUME NEW p \in 1 .. Len(up'[di]), up'[di][p].type = "ke"
      PROVE  \E k \in 0 .. N - 2 : up'[di][p].key = Pt(di, k)
  <2>1. up'[di] = Tail(up[di])
    BY <1>1, <1>4 DEF TypeOK
  <2>2. p + 1 \in 1 .. Len(up[di]) /\ up'[di][p] = up[di][p + 1]
    BY <1>3, <2>1
  <2>3. QED
    BY <1>1, <1>7, <2>2 DEF UpInv
<1>8. CASE m.type # "ke"
  <2>1. TypeOK'
    BY <1>1, <1>4, <1>5, <1>8 DEF TypeOK
  <2>2. DaemonInv'
    BY <1>1, <1>2, <1>4, <1>8 DEF DaemonInv
  <2>3. ASSUME NEW c \in Slot
        PROVE  ClientInv(c)' /\ DownInv(c)' /\ UpInv(c)'
    <3>1. Rcvd(LeftOf(c))' = Rcvd(LeftOf(c)) /\ Rcvd(c)' = Rcvd(c)
      BY <1>1, <1>4, <1>8 DEF Rcvd
    <3>2. CASE c # di
      <4>1. /\ up'[c] = up[c] /\ down'[c] = down[c]
            /\ cpc'[c] = cpc[c] /\ cnt'[c] = cnt[c] /\ ci'[c] = ci[c]
            /\ session'[c] = session[c]
        BY <1>1, <1>4, <1>8, <3>2 DEF TypeOK
      <4>2. CtrlSent(c)' = CtrlSent(c)
        BY <1>1, <1>2, <1>4, <1>8 DEF CtrlSent
      <4>3. QED
        BY <1>1, <3>1, <4>1, <4>2, Frame
    <3>3. CASE c = di
      <4>1. ClientInv(c)'
        BY <1>1, <1>4 DEF ClientInv
      <4>2. DownInv(c)'
        BY <1>1, <1>2, <1>4, <1>6, <1>8, <3>1 DEF DownInv
      <4>3. UpInv(c)'
        <5>1. dpc' = "failed"
          BY <1>4, <1>8
        <5>2. QED
          BY <1>7, <3>3, <5>1 DEF UpInv
      <4>4. QED
        BY <4>1, <4>2, <4>3
    <3>4. QED
      BY <3>2, <3>3
  <2>4. QED
    BY <2>1, <2>2, <2>3 DEF IInv, KeysInPosition
<1>9. CASE m.type = "ke"
  <2>1. m.key = Pt(di, round) /\ Ke(m.key) \in KeMsg \cup CtrlMsg
    <3>1. OnlyKeys(di, 1) /\ 1 \in 1 .. Len(up[di])
      BY <1>3, <1>9 DEF OnlyKeys
    <3>2. m.key = Pt(di, Rcvd(di) + 1 - 1)
      BY <1>1, <1>3, <3>1 DEF UpInv
    <3>3. Rcvd(di) + 1 - 1 = round
      BY <1>2
    <3>4. Pt(di, round) \in Point
      BY <1>1, <1>2, PtType
    <3>5. QED
      BY <3>2, <3>3, <3>4 DEF Ke, KeMsg
  <2>2. /\ r \in Slot /\ LeftOf(r) = di
        /\ \A c \in Slot : LeftOf(c) \in Slot /\ (LeftOf(c) = di => c = r)
    BY <1>1, Ring DEF r
  <2>3. /\ dpc' \in {"rotate", "done"} /\ di' \in Slot
        /\ round' \in 0 .. rounds
        /\ dpc' = "rotate" => round' < rounds
        /\ dpc' = "done" => round' = rounds /\ di' = 1
    <3>1. CASE di = N
      BY <1>1, <1>2, <1>4, <1>9, <3>1 DEF Slot
    <3>2. CASE di # N
      BY <1>1, <1>2, <1>4, <1>9, <3>2 DEF Slot
    <3>3. QED
      BY <3>1, <3>2
  <2>4. /\ \A x \in Slot : x # di =>
             (IF x < di' THEN round' + 1 ELSE round') = (IF x < di THEN round + 1 ELSE round)
        /\ (IF di < di' THEN round' + 1 ELSE round') = round + 1
    BY <1>1, <1>2, <1>4, <1>9 DEF Slot
  <2>5. TypeOK'
    <3>1. down' \in [Slot -> Seq(KeMsg \cup CtrlMsg)]
      <4>1. Append(down[r], Ke(m.key)) \in Seq(KeMsg \cup CtrlMsg)
        BY <1>1, <2>1, <2>2 DEF TypeOK
      <4>2. QED
        BY <1>1, <1>4, <1>9, <4>1 DEF TypeOK
    <3>2. QED
      BY <1>1, <1>4, <1>5, <2>3, <3>1 DEF TypeOK
  <2>6. DaemonInv'
    BY <2>3 DEF DaemonInv
  <2>7. ASSUME NEW c \in Slot
        PROVE  ClientInv(c)' /\ DownInv(c)' /\ UpInv(c)'
    <3>1. /\ c # di => Rcvd(c)' = Rcvd(c)
          /\ c = di => Rcvd(c)' = Rcvd(c) + 1
      BY <1>1, <1>2, <2>3, <2>4 DEF Rcvd
    <3>2. /\ c # r => Rcvd(LeftOf(c))' = Rcvd(LeftOf(c))
          /\ c = r => Rcvd(LeftOf(c))' = round + 1 /\ Rcvd(LeftOf(c)) = round
      BY <1>1, <1>2, <2>2, <2>3, <2>4 DEF Rcvd
    <3>3. ClientInv(c)'
      BY <1>1, <1>4 DEF ClientInv
    <3>4. UpInv(c)'
      <4>1. Sent(c)' = Sent(c)
        BY <1>4 DEF Sent
      <4>2. CASE c # di
        <5>1. up'[c] = up[c]
          BY <1>1, <1>4, <4>2 DEF TypeOK
        <5>2. QED
          BY <1>1, <3>1, <4>1, <4>2, <5>1 DEF UpInv, OnlyKeys
      <4>3. CASE c = di
        <5>1. /\ Len(up[c]) = Len(up'[c]) + 1 /\ Len(up'[c]) \in Nat
              /\ \A p \in 1 .. Len(up'[c]) : up'[c][p] = up[c][p + 1]
              /\ up[c][1].type = "ke"
          BY <1>1, <1>3, <1>4, <1>9, <4>3 DEF TypeOK
        <5>2. \A p \in 0 .. Len(up'[c]) :
                (\A q \in 1 .. p : up'[c][q].type = "ke") => OnlyKeys(c, p + 1)
          <6>1. SUFFICES ASSUME NEW p \in 0 .. Len(up'[c]),
                                \A q \in 1 .. p : up'[c][q].type = "ke",
                                NEW q \in 1 .. p + 1
                         PROVE  up[c][q].type = "ke"
            BY DEF OnlyKeys
          <6>2. CASE q = 1
            BY <5>1, <6>2
          <6>3. CASE q # 1
            <7>1. q - 1 \in 1 .. p /\ q - 1 \in 1 .. Len(up'[c]) /\ (q - 1) + 1 = q
              BY <5>1, <6>1, <6>3
            <7>2. QED
              BY <5>1, <6>1, <7>1
          <6>4. QED
            BY <6>2, <6>3
        <5>3. ASSUME OnlyKeys(c, Len(up[c]))'
              PROVE  Rcvd(c)' + Len(up'[c]) = Sent(c)'
          <6>1. \A q \in 1 .. Len(up'[c]) : up'[c][q].type = "ke"
            BY <5>3 DEF OnlyKeys
          <6>2. OnlyKeys(c, Len(up[c]))
            BY <5>1, <5>2, <6>1
          <6>3. QED
            BY <1>1, <1>2, <3>1, <4>1, <4>3, <5>1, <6>2 DEF UpInv
        <5>4. ASSUME NEW p \in 1 .. Len(up'[c]), OnlyKeys(c, p)'
              PROVE  up'[c][p].key = Pt(c, Rcvd(c)' + p - 1)
          <6>1. p + 1 \in 1 .. Len(up[c]) /\ OnlyKeys(c, p + 1)
            <7>1. p \in 0 .. Len(up'[c]) /\ p + 1 \in 1 .. Len(up[c])
              BY <5>1
            <7>2. \A q \in 1 .. p : up'[c][q].type = "ke"
              BY <5>4 DEF OnlyKeys
            <7>3. QED
              BY <5>2, <7>1, <7>2
          <6>2. Rcvd(c)' + p - 1 = Rcvd(c) + (p + 1) - 1
            BY <1>2, <3>1, <4>3
          <6>3. QED
            BY <1>1, <5>1, <6>1, <6>2 DEF UpInv
        <5>5. QED
          BY <1>7, <4>3, <5>3, <5>4 DEF UpInv
      <4>4. QED
        BY <4>2, <4>3
    <3>5. DownInv(c)'
      <4>1. CtrlSent(c) /\ CtrlSent(c)' /\ cpc' = cpc /\ ci' = ci
        BY <1>2, <1>4, <1>6
      <4>2. CASE c # r
        <5>1. down'[c] = down[c]
          BY <1>1, <1>4, <1>9, <4>2 DEF TypeOK
        <5>2. QED
          BY <1>1, <3>2, <4>1, <4>2, <5>1 DEF DownInv
      <4>3. CASE c = r
        <5>1. /\ Len(down'[c]) = Len(down[c]) + 1 /\ Len(down[c]) \in Nat
              /\ \A p \in 1 .. Len(down[c]) : down'[c][p] = down[c][p]
              /\ down'[c][Len(down[c]) + 1] = Ke(Pt(LeftOf(c), round))
          <6>1. /\ down'[c] = Append(down[c], Ke(m.key))
                /\ down[c] \in Seq(KeMsg \cup CtrlMsg)
            BY <1>1, <1>4, <1>9, <4>3 DEF TypeOK
          <6>2. QED
            BY <2>1, <2>2, <4>3, <6>1, WriteFacts
        <5>2. CASE cpc[c] = "idle"
          <6>1. /\ Len(down[c]) = 1 + round
                /\ down[c][1] = Ctrl(rounds)
                /\ \A p \in 2 .. Len(down[c]) : down[c][p] = Ke(Pt(LeftOf(c), p - 2))
            BY <1>1, <3>2, <4>1, <4>3, <5>2 DEF DownInv
          <6>2. Len(down[c]) + 1 - 2 = round /\ 1 \in 1 .. Len(down[c])
            BY <1>2, <6>1
          <6>3. \A p \in 2 .. Len(down'[c]) : down'[c][p] = Ke(Pt(LeftOf(c), p - 2))
            BY <5>1, <6>1, <6>2
          <6>4. Len(down'[c]) = 1 + Rcvd(LeftOf(c))'
            BY <1>2, <3>2, <4>3, <5>1, <6>1
          <6>5. QED
            BY <4>1, <5>1, <5>2, <6>1, <6>2, <6>3, <6>4 DEF DownInv
        <5>3. CASE cpc[c] # "idle"
          <6>1. /\ Len(down[c]) + ci[c] = round /\ ci[c] \in Nat
                /\ \A p \in 1 .. Len(down[c]) :
                      down[c][p] = Ke(Pt(LeftOf(c), ci[c] + p - 1))
            BY <1>1, <1>2, <3>2, <4>1, <4>3, <5>3 DEF DownInv, TypeOK
          <6>2. ci[c] + (Len(down[c]) + 1) - 1 = round
            BY <5>1, <6>1
          <6>3. \A p \in 1 .. Len(down'[c]) :
                  down'[c][p] = Ke(Pt(LeftOf(c), ci[c] + p - 1))
            BY <5>1, <6>1, <6>2
          <6>4. Len(down'[c]) + ci[c] = Rcvd(LeftOf(c))'
            BY <1>2, <3>2, <4>3, <5>1, <6>1
          <6>5. QED
            BY <4>1, <5>3, <6>3, <6>4 DEF DownInv
        <5>4. QED
          BY <5>2, <5>3
      <4>4. QED
        BY <4>2, <4>3
    <3>6. QED
      BY <3>3, <3>4, <3>5
  <2>8. QED
    BY <2>5, <2>6, <2>7 DEF IInv, KeysInPosition
<1>10. QED
  BY <1>8, <1>9

-----------------------------------------------------------------------------
(***************************************************************************)
(* The invariant is inductive.                                             *)
(***************************************************************************)
LEMMA NextIInv == IInv /\ [Next]_vars => IInv'
<1> SUFFICES ASSUME IInv, [Next]_vars PROVE IInv'
  OBVIOUS
<1>1. CASE n_party_server
  BY <1>1, StartStep
<1>2. CASE server_send_ctrl_key
  BY <1>2, CtrlStep
<1>3. CASE rotate_intermediates
  BY <1>3, RotateStep
<1>4. ASSUME NEW c \in Slot, proc_ctrl(c) PROVE IInv'
  BY <1>4, ProcCtrlStep
<1>5. ASSUME NEW c \in Slot, n_party_client(c) PROVE IInv'
  BY <1>5, ClientStep
<1>6. ASSUME NEW c \in Slot, send_text_msg(c) PROVE IInv'
  BY <1>6, TextStep
<1>7. CASE UNCHANGED vars
  BY <1>7 DEF vars, IInv, TypeOK, KeysInPosition, DaemonInv, ClientInv,
              DownInv, UpInv, OnlyKeys, CtrlSent, Rcvd, Sent
<1>8. QED
  BY <1>1, <1>2, <1>3, <1>4, <1>5, <1>6, <1>7 DEF Next, Daemon, Client

(***************************************************************************)
(* In every run of the exchange every variable has its type and every key  *)
(* under way is the one its position calls for.                            *)
(***************************************************************************)
THEOREM PositionTheorem == Spec => [](TypeOK /\ KeysInPosition)
<1>1. Spec => []IInv
  BY InitIInv, NextIInv, PTL DEF Spec
<1>2. IInv => TypeOK /\ KeysInPosition
  BY DEF IInv
<1>3. QED
  BY <1>1, <1>2, PTL

(***************************************************************************)
(* Any two clients that return from n_party_client agree on the key, for   *)
(* every number of clients and whatever chat cables get in the way.        *)
(***************************************************************************)
THEOREM AgreementTheorem == Spec => []KeyAgreement
<1>1. TypeOK /\ KeysInPosition => KeyAgreement
  BY PtFull DEF KeysInPosition, ClientInv, KeyAgreement
<1>2. QED
  BY <1>1, PositionTheorem, PTL

(***************************************************************************)
(* n_party_client never meets a message of the wrong kind.                 *)
(***************************************************************************)
THEOREM InStepTheorem == Spec => []ClientInStep
<1>1. TypeOK /\ KeysInPosition => ClientInStep
  <2> SUFFICES ASSUME TypeOK, KeysInPosition, NEW c \in Slot
               PROVE  /\ cpc[c] # "failed"
                      /\ (cpc[c] = "idle" /\ down[c] # << >>)
                            => Head(down[c]).type = "ctrl"
    BY DEF ClientInStep
  <2>1. cpc[c] # "failed"
    BY DEF KeysInPosition, ClientInv
  <2>2. ASSUME cpc[c] = "idle", down[c] # << >>
        PROVE  Head(down[c]).type = "ctrl"
    <3>1. CtrlSent(c)
      BY <2>2 DEF KeysInPosition, DownInv
    <3>2. down[c][1] = Ctrl(rounds)
      BY <2>2, <3>1 DEF KeysInPosition, DownInv
    <3>3. Head(down[c]) = down[c][1]
      BY <2>2, ReadFacts DEF TypeOK
    <3>4. QED
      BY <3>2, <3>3 DEF Ctrl
  <2>3. QED
    BY <2>1, <2>2
<1>2. QED
  BY <1>1, PositionTheorem, PTL

(***************************************************************************)
(* The daemon, which relays every key, never relays the group key.         *)
(***************************************************************************)
THEOREM BlindTheorem == Spec => []DaemonBlind
<1>1. TypeOK /\ KeysInPosition => DaemonBlind
  <2> SUFFICES ASSUME TypeOK, KeysInPosition, NEW c \in Slot
               PROVE  /\ \A p \in 1 .. Len(up[c]) : Lacks(up[c][p])
                      /\ \A p \in 1 .. Len(down[c]) : Lacks(down[c][p])
    BY DEF DaemonBlind
  <2>1. \A x \in Slot, k \in 0 .. N - 2 : \E j \in Slot : Pt(x, k)[j] = 0
    BY PtLacks, NAssumption DEF rounds
  <2>2. ASSUME NEW p \in 1 .. Len(up[c]) PROVE Lacks(up[c][p])
    BY <2>1 DEF Lacks, KeysInPosition, UpInv
  <2>3. ASSUME NEW p \in 1 .. Len(down[c]) PROVE Lacks(down[c][p])
    <3>1. CASE ~CtrlSent(c)
      BY <3>1 DEF KeysInPosition, DownInv
    <3>2. LeftOf(c) \in Slot /\ Len(down[c]) \in Nat /\ ci[c] \in Nat
      BY Ring DEF TypeOK
    <3>3. Rcvd(LeftOf(c)) \in 0 .. N - 1
      BY NAssumption, <3>2 DEF KeysInPosition, DaemonInv, Rcvd, TypeOK, rounds, Slot
    <3>4. CASE CtrlSent(c) /\ cpc[c] = "idle"
      <4>1. Len(down[c]) = 1 + Rcvd(LeftOf(c))
        BY <3>4 DEF KeysInPosition, DownInv
      <4>2. CASE p = 1
        BY <3>4, <4>2 DEF KeysInPosition, DownInv, Ctrl, Lacks
      <4>3. CASE p # 1
        <5>1. p \in 2 .. Len(down[c]) /\ p - 2 \in 0 .. N - 2
          BY <3>2, <3>3, <4>1, <4>3, NAssumption
        <5>2. down[c][p] = Ke(Pt(LeftOf(c), p - 2))
          BY <3>4, <5>1 DEF KeysInPosition, DownInv
        <5>3. QED
          BY <2>1, <3>2, <5>1, <5>2 DEF Lacks, Ke
      <4>4. QED
        BY <4>2, <4>3
    <3>5. CASE CtrlSent(c) /\ cpc[c] # "idle"
      <4>1. /\ Len(down[c]) + ci[c] = Rcvd(LeftOf(c))
            /\ down[c][p] = Ke(Pt(LeftOf(c), ci[c] + p - 1))
        BY <3>5 DEF KeysInPosition, DownInv
      <4>2. ci[c] + p - 1 \in 0 .. N - 2
        BY <3>2, <3>3, <4>1, NAssumption
      <4>3. QED
        BY <2>1, <3>2, <4>1, <4>2 DEF Lacks, Ke
    <3>6. QED
      BY <3>1, <3>4, <3>5
  <2>4. QED
    BY <2>2, <2>3
<1>2. QED
  BY <1>1, PositionTheorem, PTL

=============================================================================
