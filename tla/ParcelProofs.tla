---------------------------- MODULE ParcelProofs ----------------------------
(***************************************************************************)
(* Proofs about Parcel for any number of clients and messages, whichever   *)
(* clients leave, and calm or not.                                         *)
(***************************************************************************)
EXTENDS Parcel, FiniteSetTheorems, SequenceTheorems, TLAPS

-----------------------------------------------------------------------------
(***************************************************************************)
(* Types.                                                                  *)
(***************************************************************************)
Up == [type : {"pub"}] \cup [type : {"ke"}, ex : Nat] \cup [type : {"cable"}, under : Nat]
Down == [type : {"skey"}, key : Nat] \cup [type : {"ke"}, ex : Nat]
          \cup [type : {"ctrl"}, under : Nat, renewed : Nat, cnt : Nat]
          \cup [type : {"cable"}, under : Nat, current : BOOLEAN]

Types ==
    /\ dpc \in {"scan", "twoparty", "ctrl", "rotate", "spin", "exited", "aborted"}
    /\ rdy \subseteq Conn \cup {Listener}
    /\ sfds \in [Slots -> Conn \cup {NoSock}]
    /\ cnt \in Nat /\ cnt <= Cardinality(Conn) /\ round \in Nat
    /\ di \in Nat /\ 1 <= di /\ di <= Cardinality(Conn) + 1
    /\ cur \in Conn \cup {NoSock}
    /\ members \in Seq(SUBSET Conn) /\ srvkey = Len(members) /\ srvkey > 0
    /\ backlog \in Seq(Conn)
    /\ up \in [Conn -> Seq(Up)] /\ down \in [Conn -> Seq(Down)]
    /\ cpc \in [Conn -> {"out", "connected", "joining", "idle", "kx", "gone"}]
    /\ ctrl \in [Conn -> Nat] /\ session \in [Conn -> Nat]
    /\ ex \in [Conn -> [type : {"ctrl"}, under : Nat, renewed : Nat, cnt : Nat]]
    /\ ci \in [Conn -> Nat]
    /\ announced \in [Conn -> BOOLEAN]
    /\ snap \in [Conn -> SUBSET Nat]
    /\ texts \in Nat /\ texts <= MaxTexts

-----------------------------------------------------------------------------
(***************************************************************************)
(* One client and its socket, whatever the daemon does.                    *)
(***************************************************************************)

\* intermediate keys that n_party_client still waits for
Rem(c) == IF cpc[c] = "kx" THEN ex[c].cnt - ci[c] ELSE 0

\* the control key the client will have when it reaches the next CTRL cable
Promised(c) ==
    IF cpc[c] = "kx" THEN ex[c].renewed
    ELSE IF cpc[c] = "joining" THEN down[c][1].key
    ELSE ctrl[c]

HasCtrl(c) == \E p \in 1 .. Len(down[c]) : down[c][p].type = "ctrl"

\* What the message in place p of the stream to c may be.
CableFits(c, p) ==
    /\ cpc[c] # "joining" /\ p > Rem(c)
    /\ cpc[c] = "idle" => announced[c]
    /\ down[c][p].current => down[c][p].under = Promised(c)

KeFits(c, p) ==
    \/ p <= Rem(c) /\ down[c][p].ex = Promised(c)
    \/ \E q \in 1 .. p - 1 : down[c][q].type = "ctrl"

CtrlFits(c, p) ==
    /\ p > Rem(c) /\ down[c][p].under = Promised(c) /\ down[c][p].renewed = Promised(c) + 1
    /\ down[c][p].cnt \in 1 .. Cardinality(Conn) /\ Len(down[c]) - p <= down[c][p].cnt
    /\ down[c][p].renewed <= Len(members) /\ c \in members[down[c][p].renewed]
    /\ \A q \in p + 1 .. Len(down[c]) :
          down[c][q].type = "ke" /\ down[c][q].ex = Promised(c) + 1

Fits(c, p) ==
    /\ down[c][p].type = "skey" <=> p = 1 /\ cpc[c] = "joining"
    /\ down[c][p].type = "cable" => CableFits(c, p)
    /\ down[c][p].type = "ke" => KeFits(c, p)
    /\ down[c][p].type = "ctrl" => CtrlFits(c, p)

\* A client is a member for the keys it uses.
Member(c, k) == k \in 1 .. Len(members) /\ c \in members[k]

Holding(c) ==
    /\ IF announced[c] THEN Member(c, session[c]) ELSE session[c] = 0
    /\ \A k \in snap[c] : Member(c, k) /\ announced[c]
    /\ \A p \in 1 .. Len(up[c]) : up[c][p].type = "cable" => Member(c, up[c][p].under)
    /\ cpc[c] \in {"out", "connected", "joining"} => ~announced[c]
    /\ cpc[c] \in {"out", "connected"} => up[c] = << >> /\ down[c] = << >>
    /\ cpc[c] = "gone" => down[c] = << >>
    /\ cpc[c] \in {"idle", "kx"} /\ announced[c] => session[c] = ctrl[c]
    /\ cpc[c] = "kx" => /\ Member(c, ex[c].renewed) /\ ex[c].renewed = ctrl[c] + 1
                        /\ ex[c].cnt <= Cardinality(Conn) /\ ci[c] < ex[c].cnt
    /\ ci[c] <= Cardinality(Conn) /\ ctrl[c] <= Len(members)

\* Every exchange the client was part of is behind it, or under way, or announced.
Aware(c) ==
    \A k \in 1 .. Len(members) :
        c \in members[k] /\ k > session[c] /\ ~Gone(c) =>
            (cpc[c] = "kx" /\ k = ex[c].renewed) \/ (HasCtrl(c) /\ k = Promised(c) + 1)

\* Keys have numbers that have been given out.
Number(k) == k <= Len(members)

Numbered(c) ==
    /\ Number(ctrl[c]) /\ Number(session[c])
    /\ \A p \in 1 .. Len(up[c]) : up[c][p].type = "ke" => Number(up[c][p].ex)
    /\ \A p \in 1 .. Len(down[c]) :
          /\ down[c][p].type = "skey" => Number(down[c][p].key)
          /\ down[c][p].type = "ke" => Number(down[c][p].ex)
          /\ down[c][p].type \in {"ctrl", "cable"} => Number(down[c][p].under)

Stream(c) == \A p \in 1 .. Len(down[c]) : Fits(c, p)

Local(c) == Holding(c) /\ Aware(c) /\ Stream(c) /\ Numbered(c)

-----------------------------------------------------------------------------
(***************************************************************************)
(* The daemon's table, its listen queue and its pass over rdy.             *)
(***************************************************************************)
Table ==
    /\ \A i \in Slots : sfds[i] # NoSock <=> i <= cnt
    /\ \A i, j \in 1 .. cnt : sfds[i] = sfds[j] => i = j

InQueue(c) == \E i \in 1 .. Len(backlog) : backlog[i] = c

Queue ==
    /\ \A i, j \in 1 .. Len(backlog) : backlog[i] = backlog[j] => i = j
    /\ Listener \in rdy => backlog # << >>

\* new_client in the middle of add_client
Fresh(c) == dpc = "twoparty" /\ c = cur

\* Before the two-party exchange.
New(c) ==
    /\ InQueue(c) => c \notin Connected
    /\ InQueue(c) \/ Fresh(c) =>
          /\ cpc[c] \in {"connected", "joining", "gone"}
          /\ down[c] = << >> /\ up[c] \in {<< >>, << ClientPublic >>}
    /\ c \in Connected => cpc[c] # "out"

Pass(c) ==
    c \in rdy => /\ c \in Connected /\ ~Fresh(c)
                 /\ Gone(c) \/ (up[c] # << >> /\ up[c][1].type = "cable")

Control ==
    /\ dpc = "twoparty" => cur \in Connected
    /\ dpc = "ctrl" => cnt > 1
    /\ dpc = "rotate" => cnt > 1 /\ di <= cnt /\ round < cnt - 1
    /\ dpc = "rotate" \/ (dpc = "scan" /\ cnt > 1) => members[srvkey] = Connected

-----------------------------------------------------------------------------
(***************************************************************************)
(* The exchange: how many intermediate keys have gone each way.            *)
(***************************************************************************)
KeSet(s) == {p \in 1 .. Len(s) : s[p].type = "ke"}
KeCount(s) == Cardinality(KeSet(s))

Taken(i) == round + IF i < di THEN 1 ELSE 0            \* read from slot i
Given(i) == round + IF 1 < i /\ i <= di THEN 1 ELSE 0  \* written to slot i

\* c has not read the CTRL cable yet, is in the exchange, or through with it.
Waiting(i, c) ==
    /\ \E p \in 1 .. Len(down[c]) : /\ down[c][p].type = "ctrl" /\ down[c][p].cnt = cnt - 1
                                    /\ Len(down[c]) = p + Given(i)
    /\ Promised(c) = srvkey - 1 /\ (cpc[c] = "kx" => Rem(c) = 1)
    /\ KeCount(up[c]) = 0 /\ Taken(i) = 0

Running(i, c) ==
    /\ cpc[c] = "kx" /\ ex[c].renewed = srvkey /\ ex[c].cnt = cnt - 1
    /\ Len(down[c]) + ci[c] = Given(i) /\ ~HasCtrl(c)
    /\ KeCount(up[c]) + Taken(i) = ci[c] + 1

Done(i, c) ==
    /\ cpc[c] = "idle" /\ announced[c] /\ ctrl[c] = srvkey
    /\ down[c] = << >> /\ Given(i) = cnt - 1
    /\ KeCount(up[c]) + Taken(i) = cnt - 1

Exchange(i, c) ==
    /\ \A p \in 1 .. Len(up[c]) :
          up[c][p].type # "pub" /\ (up[c][p].type = "ke" => up[c][p].ex = srvkey)
    /\ KeCount(up[c]) + Taken(i) <= cnt - 1
    /\ ~Gone(c) => Waiting(i, c) \/ Running(i, c) \/ Done(i, c)

\* Between exchanges.
Settled(c) ==
    /\ \A p \in 1 .. Len(up[c]) : up[c][p].type = "cable"
    /\ ~Gone(c) =>
          /\ cpc[c] \in {"joining", "idle", "kx"} /\ ~HasCtrl(c)
          /\ Promised(c) = srvkey
          /\ cpc[c] = "joining" => Len(down[c]) = 1
          /\ cpc[c] = "kx" => Rem(c) = 1 /\ Len(down[c]) > 0
          /\ dpc = "scan" /\ cnt > 1 => cpc[c] # "joining" /\ (cpc[c] = "idle" => announced[c])

Progress(c) ==
    \A i \in 1 .. cnt : sfds[i] = c =>
        IF dpc = "rotate" THEN Exchange(i, c) ELSE Fresh(c) \/ Settled(c)

Served(c) == New(c) /\ Pass(c) /\ Progress(c)

ParcelInv ==
    /\ Types
    /\ OnlyStaleLost
    /\ \A c \in Conn : Local(c)
    /\ ~Dead => Table /\ Queue /\ Control /\ \A c \in Conn : Served(c)

-----------------------------------------------------------------------------
(***************************************************************************)
(* Counting the intermediate keys in a stream.                             *)
(***************************************************************************)

\* Appending a message and removing the first one, place by place.
LEMMA SeqFacts ==
    ASSUME NEW S, NEW s \in Seq(S)
    PROVE  /\ Len(s) \in Nat
           /\ s = << >> <=> Len(s) = 0
           /\ \A p \in 1 .. Len(s) : s[p] \in S
           /\ \A m \in S : /\ Append(s, m) \in Seq(S)
                           /\ Len(Append(s, m)) = Len(s) + 1
                           /\ Append(s, m)[Len(s) + 1] = m
                           /\ \A p \in 1 .. Len(s) : Append(s, m)[p] = s[p]
           /\ s # << >> => /\ Head(s) = s[1] /\ s[1] \in S
                           /\ Tail(s) \in Seq(S) /\ Len(Tail(s)) = Len(s) - 1
                           /\ \A p \in 1 .. Len(s) - 1 : Tail(s)[p] = s[p + 1]
  BY SMT

\* The intermediate keys of a stream are finitely many, and none are counted
\* exactly when none are there.
LEMMA KeNone ==
    ASSUME NEW S, NEW s \in Seq(S)
    PROVE  /\ IsFiniteSet(KeSet(s)) /\ KeCount(s) \in Nat
           /\ KeCount(s) = 0 <=> \A p \in 1 .. Len(s) : s[p].type # "ke"
<1>1. Len(s) \in Nat
  BY SeqFacts
<1>2. IsFiniteSet(1 .. Len(s))
  BY <1>1, FS_Interval
<1>3. KeSet(s) \in SUBSET (1 .. Len(s))
  BY DEF KeSet
<1>4. IsFiniteSet(KeSet(s)) /\ KeCount(s) \in Nat
  BY <1>2, <1>3, FS_Subset, FS_CardinalityType DEF KeCount
<1>5. KeCount(s) = 0 <=> KeSet(s) = {}
  BY <1>4, FS_EmptySet DEF KeCount
<1> QED
  BY <1>4, <1>5 DEF KeSet

\* A message that a client sends adds one intermediate key if it is one.
LEMMA KeAppend ==
    ASSUME NEW S, NEW s \in Seq(S), NEW m \in S
    PROVE  KeCount(Append(s, m)) = KeCount(s) + IF m.type = "ke" THEN 1 ELSE 0
<1> DEFINE n == Len(s) + 1
<1>1. Len(s) \in Nat /\ n \notin KeSet(s) /\ IsFiniteSet(KeSet(s))
  BY SeqFacts, KeNone DEF KeSet
<1>2. CASE m.type = "ke"
  <2>1. KeSet(Append(s, m)) = KeSet(s) \cup {n}
    BY <1>1, <1>2, SeqFacts DEF KeSet
  <2> QED
    BY <1>1, <1>2, <2>1, FS_AddElement DEF KeCount
<1>3. CASE m.type # "ke"
  <2>1. KeSet(Append(s, m)) = KeSet(s)
    BY <1>1, <1>3, SeqFacts DEF KeSet
  <2> QED
    BY <1>3, <2>1, KeNone DEF KeCount
<1> QED
  BY <1>2, <1>3

\* A message that the daemon reads takes one away if it is one.
LEMMA KeTail ==
    ASSUME NEW S, NEW s \in Seq(S), s # << >>
    PROVE  KeCount(s) = KeCount(Tail(s)) + IF s[1].type = "ke" THEN 1 ELSE 0
<1> DEFINE T == KeSet(Tail(s))
           R == KeSet(s) \ {1}
           f == [p \in T |-> p + 1]
<1>1. /\ Len(s) \in Nat /\ Len(s) > 0 /\ Tail(s) \in Seq(S) /\ Len(Tail(s)) = Len(s) - 1
      /\ \A p \in 1 .. Len(s) - 1 : Tail(s)[p] = s[p + 1]
  BY SeqFacts
<1>2. IsFiniteSet(T) /\ IsFiniteSet(KeSet(s))
  BY <1>1, KeNone
<1>3. \A p \in T : p \in Nat /\ p + 1 \in R
  BY <1>1 DEF KeSet
<1>4. \A q \in R : q - 1 \in T /\ q \in Nat
  BY <1>1 DEF KeSet
<1>5. f \in Bijection(T, R)
  <2>1. f \in [T -> R]
    BY <1>3
  <2>2. \A a, b \in T : f[a] = f[b] => a = b
    BY <1>3
  <2>3. \A q \in R : \E p \in T : f[p] = q
    BY <1>4
  <2> QED
    BY <2>1, <2>2, <2>3 DEF Bijection, Injection, Surjection, IsInjective
<1>6. Cardinality(R) = Cardinality(T)
  BY <1>2, <1>5, FS_Bijection DEF ExistsBijection
<1>7. Cardinality(R) = IF 1 \in KeSet(s) THEN Cardinality(KeSet(s)) - 1 ELSE Cardinality(KeSet(s))
  BY <1>2, FS_RemoveElement
<1>8. 1 \in KeSet(s) <=> s[1].type = "ke"
  BY <1>1 DEF KeSet
<1>9. Cardinality(T) \in Nat /\ Cardinality(KeSet(s)) \in Nat
  BY <1>2, FS_CardinalityType
<1> QED
  BY <1>6, <1>7, <1>8, <1>9 DEF KeCount

-----------------------------------------------------------------------------
(***************************************************************************)
(* What a step leaves alone.                                               *)
(***************************************************************************)
SameReceiver(c) ==
    /\ up'[c] = up[c] /\ down'[c] = down[c] /\ cpc'[c] = cpc[c]
    /\ ctrl'[c] = ctrl[c] /\ session'[c] = session[c] /\ ex'[c] = ex[c] /\ ci'[c] = ci[c]
    /\ announced'[c] = announced[c]

SameClient(c) == SameReceiver(c) /\ snap'[c] = snap[c]

ClientStep(c) ==
    UNCHANGED dvars /\ \A d \in Conn \ {c} : SameClient(d) /\ (InQueue(d)' <=> InQueue(d))

\* A client that a step does not touch stays as it is, while no exchange begins.
LEMMA LocalFrame ==
    ASSUME NEW c \in Conn, Local(c), SameClient(c), members' = members
    PROVE  Local(c)'
<1>1. Rem(c)' = Rem(c) /\ Promised(c)' = Promised(c) /\ (HasCtrl(c)' <=> HasCtrl(c))
  BY DEF SameClient, SameReceiver, Rem, Promised, HasCtrl
<1>2. Holding(c)'
  BY DEF SameClient, SameReceiver, Local, Holding, Member
<1>3. Aware(c)'
  BY <1>1 DEF SameClient, SameReceiver, Local, Aware, Gone
<1>4. Stream(c)'
  BY <1>1 DEF SameClient, SameReceiver, Local, Stream, Fits, CableFits, KeFits, CtrlFits
<1>5. Numbered(c)'
  BY DEF SameClient, SameReceiver, Local, Numbered, Number
<1> QED
  BY <1>2, <1>3, <1>4, <1>5 DEF Local

\* So does its place in the daemon's work, while the daemon does nothing.
LEMMA ServedFrame ==
    ASSUME NEW c \in Conn, Served(c), SameReceiver(c), UNCHANGED dvars, InQueue(c)' <=> InQueue(c)
    PROVE  Served(c)'
<1>1. Rem(c)' = Rem(c) /\ Promised(c)' = Promised(c) /\ (HasCtrl(c)' <=> HasCtrl(c))
  BY DEF SameReceiver, Rem, Promised, HasCtrl
<1>2. (Fresh(c)' <=> Fresh(c)) /\ Connected' = Connected /\ (InQueue(c)' <=> InQueue(c))
  BY DEF Fresh, Connected, dvars
<1>3. \A i \in 1 .. cnt : Exchange(i, c) => Exchange(i, c)'
  BY <1>1 DEF SameReceiver, dvars, Exchange, Waiting, Running, Done, Taken, Given, Gone
<1>4. Settled(c) => Settled(c)'
  BY <1>1 DEF SameReceiver, dvars, Settled, Gone
<1> QED
  BY <1>2, <1>3, <1>4 DEF SameReceiver, dvars, Served, New, Pass, Progress, Gone

\* A step of client c keeps the invariant if it does so for c.
LEMMA ClientKeeps ==
    ASSUME ParcelInv, Types', OnlyStaleLost', NEW c \in Conn, ClientStep(c),
           Local(c)', ~Dead => Served(c)' /\ Queue'
    PROVE  ParcelInv'
<1>1. \A d \in Conn : Local(d)'
  BY LocalFrame DEF ParcelInv, ClientStep, dvars
<1>2. ASSUME ~Dead' PROVE Table' /\ Queue' /\ Control' /\ \A d \in Conn : Served(d)'
  <2>1. ~Dead
    BY <1>2 DEF ClientStep, dvars, Dead
  <2>2. \A d \in Conn : Served(d)'
    BY <2>1, ServedFrame DEF ParcelInv, ClientStep, SameClient
  <2> QED
    BY <2>1, <2>2 DEF ParcelInv, ClientStep, dvars, Table, Control, Connected
<1> QED
  BY <1>1, <1>2 DEF ParcelInv

-----------------------------------------------------------------------------
(***************************************************************************)
(* The steps of a client.                                                  *)
(***************************************************************************)

\* What clients and daemon send has the type of its direction.
LEMMA Messages ==
    /\ ClientPublic \in Up /\ ClientPublic.type = "pub"
    /\ \A k \in Nat : /\ Ke(k) \in Up /\ Ke(k).type = "ke" /\ Ke(k).ex = k
                      /\ Cable(k) \in Up /\ Cable(k).type = "cable" /\ Cable(k).under = k
                      /\ SessionKey(k) \in Down /\ SessionKey(k).type = "skey" /\ SessionKey(k).key = k
                      /\ \A r \in Nat : /\ Ctrl(k, r) \in Down /\ Ctrl(k, r).type = "ctrl"
                                        /\ Ctrl(k, r).under = k /\ Ctrl(k, r).renewed = k + 1
                                        /\ Ctrl(k, r).cnt = r
  BY DEF Up, Down, ClientPublic, Ke, Cable, SessionKey, Ctrl

\* The fields of a message that the daemon has sent.
LEMMA DownFields ==
    ASSUME NEW m \in Down
    PROVE  /\ m.type \in {"skey", "ke", "ctrl", "cable"}
           /\ m.type = "skey" => m.key \in Nat
           /\ m.type = "ke" => m.ex \in Nat /\ m \in Up
           /\ m.type = "ctrl" => /\ m \in [type : {"ctrl"}, under : Nat, renewed : Nat, cnt : Nat]
                                 /\ m.under \in Nat /\ m.renewed \in Nat /\ m.cnt \in Nat
           /\ m.type = "cable" => m.under \in Nat /\ m.current \in BOOLEAN
  BY DEF Down, Up

\* The fields of a message that a client has sent.
LEMMA UpFields ==
    ASSUME NEW m \in Up
    PROVE  /\ m.type \in {"pub", "ke", "cable"}
           /\ m.type = "ke" => m.ex \in Nat /\ m \in Down
           /\ m.type = "cable" => m.under \in Nat
  BY DEF Up, Down

\* What the daemon has read from a slot and written to it
LEMMA CountTypes ==
    ASSUME Types, NEW i
    PROVE  Taken(i) \in Nat /\ Given(i) \in Nat /\ cnt \in Nat
<1>1. round \in Nat /\ cnt \in Nat
  BY DEF Types
<1> QED
  BY <1>1 DEF Taken, Given

\* The streams of a client in a state of the invariant.
LEMMA Streams ==
    ASSUME Types, NEW c \in Conn
    PROVE  /\ up[c] \in Seq(Up) /\ down[c] \in Seq(Down)
           /\ Len(up[c]) \in Nat /\ Len(down[c]) \in Nat
           /\ up[c] # << >> => Len(up[c]) > 0 /\ up[c][1] \in Up /\ Head(up[c]) = up[c][1]
           /\ down[c] # << >> => Len(down[c]) > 0 /\ down[c][1] \in Down /\ Head(down[c]) = down[c][1]
<1>1. up[c] \in Seq(Up) /\ down[c] \in Seq(Down)
  BY DEF Types
<1> QED
  BY <1>1, SeqFacts

\* two_party_client's public key waits for the daemon; nothing else has happened yet.
LEMMA PublicKeyStep ==
    ASSUME ParcelInv, NEW c \in Conn, send_public_key(c)
    PROVE  ParcelInv'
<1>1. Types'
  <2>1. << ClientPublic >> \in Seq(Up)
    BY Messages
  <2>2. up' \in [Conn -> Seq(Up)] /\ cpc' \in [Conn -> {"out", "connected", "joining", "idle", "kx", "gone"}]
    BY <2>1 DEF ParcelInv, Types, send_public_key
  <2> QED
    BY <2>2 DEF ParcelInv, Types, send_public_key, dvars, kvars
<1>2. OnlyStaleLost'
  BY DEF ParcelInv, OnlyStaleLost, send_public_key
<1>3. ClientStep(c)
  BY DEF ParcelInv, Types, ClientStep, SameClient, SameReceiver, InQueue, send_public_key, kvars
<1>4. /\ cpc[c] = "connected" /\ cpc'[c] = "joining" /\ up[c] = << >> /\ down[c] = << >>
      /\ down'[c] = << >> /\ up'[c] = << ClientPublic >> /\ ~announced[c] /\ session[c] = 0
      /\ ctrl'[c] = ctrl[c] /\ session'[c] = session[c] /\ ex'[c] = ex[c] /\ ci'[c] = ci[c]
      /\ announced'[c] = announced[c] /\ snap'[c] = snap[c] /\ members' = members
      /\ Len(down[c]) = 0 /\ Len(up'[c]) = 1 /\ up'[c][1].type = "pub"
  BY Messages DEF ParcelInv, Types, Local, Holding, send_public_key, kvars, dvars
<1>5. Local(c)'
  <2>1. Holding(c)'
    BY <1>4 DEF ParcelInv, Local, Holding, Member
  <2>2. Aware(c)'
    BY <1>4 DEF ParcelInv, Local, Aware, Gone, HasCtrl
  <2>3. Stream(c)' /\ Numbered(c)'
    BY <1>4 DEF ParcelInv, Local, Stream, Numbered, Number
  <2> QED
    BY <2>1, <2>2, <2>3 DEF Local
<1>6. ASSUME ~Dead PROVE Served(c)' /\ Queue'
  <2>1. Served(c) /\ Queue
    BY <1>6 DEF ParcelInv
  <2>6. Queue'
    BY <2>1 DEF Queue, send_public_key, dvars
  <2>2. (Fresh(c)' <=> Fresh(c)) /\ Connected' = Connected /\ (InQueue(c)' <=> InQueue(c))
        /\ cnt' = cnt /\ sfds' = sfds /\ rdy' = rdy /\ dpc' = dpc
    BY DEF Fresh, Connected, InQueue, dvars, send_public_key
  <2>3. c \notin rdy
    BY <1>4, <2>1 DEF Served, Pass, Gone
  <2>4. ~Settled(c)
    BY <1>4 DEF Settled, Gone
  <2>5. \A i \in 1 .. cnt : ~Exchange(i, c)
    BY <1>4 DEF Exchange, Waiting, Running, Done, Gone
  <2> QED
    BY <1>4, <2>1, <2>2, <2>3, <2>4, <2>5, <2>6 DEF Served, New, Pass, Progress
<1> QED
  BY <1>1, <1>2, <1>3, <1>5, <1>6, ClientKeeps

(***************************************************************************)
(* A client reads a message that is no CTRL cable: the rest of its stream  *)
(* moves up by one place and fits as before.                               *)
(***************************************************************************)
LEMMA TailStream ==
    ASSUME Types, NEW c \in Conn, Stream(c), down[c] # << >>, down[c][1].type # "ctrl",
           down'[c] = Tail(down[c]), members' = members,
           Rem(c) \in Int, Rem(c)' \in Int,
           Rem(c)' = Rem(c) - 1 \/ (Rem(c) = 0 /\ Rem(c)' = 0),
           Promised(c)' = Promised(c), cpc[c] \in {"joining", "idle", "kx"}, cpc'[c] \in {"idle", "kx"},
           cpc'[c] = "idle" /\ cpc[c] # "joining" => announced'[c] \/ announced'[c] = announced[c],
           cpc'[c] = "idle" /\ cpc[c] = "kx" => announced'[c]
    PROVE  Stream(c)' /\ (HasCtrl(c)' <=> HasCtrl(c))
<1>1. /\ Len(down[c]) \in Nat /\ Len(down[c]) > 0 /\ Len(down'[c]) = Len(down[c]) - 1
      /\ \A p \in 1 .. Len(down'[c]) : down'[c][p] = down[c][p + 1] /\ p + 1 \in 1 .. Len(down[c])
  <2>1. down[c] \in Seq(Down)
    BY DEF Types
  <2> QED
    BY <2>1, SeqFacts
<1>2. ASSUME NEW p \in 1 .. Len(down'[c]) PROVE Fits(c, p)'
  <2>1. Fits(c, p + 1) /\ p \in Nat /\ p + 1 \in 1 .. Len(down[c]) /\ down'[c][p] = down[c][p + 1]
    BY <1>1 DEF Stream
  <2>2. down'[c][p].type # "skey"
    BY <2>1 DEF Fits
  <2>3. ASSUME down'[c][p].type = "cable" PROVE CableFits(c, p)'
    BY <2>1, <2>3 DEF Fits, CableFits
  <2>4. ASSUME down'[c][p].type = "ke" PROVE KeFits(c, p)'
    <3>1. CASE p + 1 <= Rem(c) /\ down[c][p + 1].ex = Promised(c)
      BY <2>1, <3>1 DEF KeFits
    <3>2. CASE \E q \in 1 .. p : down[c][q].type = "ctrl"
      <4>1. PICK q \in 1 .. p : down[c][q].type = "ctrl"
        BY <3>2
      <4>2. q - 1 \in 1 .. p - 1 /\ down'[c][q - 1].type = "ctrl"
        BY <1>1, <2>1, <4>1
      <4> QED
        BY <4>2 DEF KeFits
    <3> QED
      BY <2>1, <2>4, <3>1, <3>2 DEF Fits, KeFits
  <2>5. ASSUME down'[c][p].type = "ctrl" PROVE CtrlFits(c, p)'
    <3>1. \A q \in p + 1 .. Len(down'[c]) : q + 1 \in (p + 1) + 1 .. Len(down[c]) /\ q \in 1 .. Len(down'[c])
      BY <1>1, <2>1
    <3>2. CtrlFits(c, p + 1)
      BY <2>1, <2>5 DEF Fits
    <3>3. Len(down'[c]) - p <= down'[c][p].cnt
      BY <1>1, <2>1, <3>2 DEF CtrlFits
    <3> QED
      BY <1>1, <2>1, <3>1, <3>2, <3>3 DEF CtrlFits
  <2> QED
    BY <2>2, <2>3, <2>4, <2>5 DEF Fits
<1>3. HasCtrl(c)' => HasCtrl(c)
  BY <1>1 DEF HasCtrl
<1>4. ASSUME HasCtrl(c) PROVE HasCtrl(c)'
  <2>1. PICK p \in 1 .. Len(down[c]) : down[c][p].type = "ctrl"
    BY <1>4 DEF HasCtrl
  <2>2. p - 1 \in 1 .. Len(down'[c]) /\ down'[c][p - 1] = down[c][p]
    BY <1>1, <2>1
  <2> QED
    BY <2>1, <2>2 DEF HasCtrl
<1> QED
  BY <1>2, <1>3, <1>4 DEF Stream

\* A client that waits for the CTRL cable reads what is before it.
LEMMA WaitingMovesUp ==
    ASSUME Types, NEW c \in Conn, down[c] # << >>, down[c][1].type # "ctrl",
           down'[c] = Tail(down[c]), KeCount(up[c])' = KeCount(up[c]), Promised(c)' = Promised(c),
           cpc'[c] # "kx", UNCHANGED dvars, NEW i \in 1 .. cnt, Waiting(i, c)
    PROVE  Waiting(i, c)'
<1>1. PICK p \in 1 .. Len(down[c]) : /\ down[c][p].type = "ctrl" /\ down[c][p].cnt = cnt - 1
                                     /\ Len(down[c]) = p + Given(i)
  BY DEF Waiting
<1>2. /\ Len(down[c]) \in Nat /\ Len(down[c]) > 0 /\ Len(down'[c]) = Len(down[c]) - 1
      /\ \A q \in 1 .. Len(down[c]) - 1 : down'[c][q] = down[c][q + 1]
  BY Streams, SeqFacts
<1>3. p # 1 /\ p \in Nat /\ (p - 1) + 1 = p
  <2>1. p # 1
    BY <1>1
  <2> QED
    BY <1>2, <2>1
<1>4. p - 1 \in 1 .. Len(down[c]) - 1
  BY <1>1, <1>2, <1>3
<1>5. down'[c][p - 1] = down[c][(p - 1) + 1]
  BY <1>2, <1>4
<1>6. Given(i) \in Nat /\ Given(i)' = Given(i) /\ Taken(i)' = Taken(i)
  BY DEF Types, Given, Taken, dvars
<1>7. p - 1 \in 1 .. Len(down'[c]) /\ Len(down'[c]) = (p - 1) + Given(i)
  <2>1. Len(down[c]) = p + Given(i) /\ Len(down'[c]) = Len(down[c]) - 1
    BY <1>1, <1>2
  <2>2. \A n, m, g \in Nat : n = m + g => n - 1 = (m - 1) + g
    OBVIOUS
  <2>3. Len(down[c]) - 1 = (p - 1) + Given(i)
    BY <1>2, <1>3, <1>6, <2>1, <2>2
  <2> QED
    BY <1>4, <2>1, <2>3
<1>8. down'[c][p - 1].type = "ctrl" /\ down'[c][p - 1].cnt = cnt - 1
  BY <1>1, <1>3, <1>5
<1> QED
  BY <1>6, <1>7, <1>8 DEF Waiting, dvars

\* two_party_client ends: the promised control key becomes the control key.
LEMMA JoinedStep ==
    ASSUME ParcelInv, NEW c \in Conn, two_party_client(c)
    PROVE  ParcelInv'
<1>1. /\ cpc[c] = "joining" /\ down[c] # << >> /\ down[c][1].type = "skey" /\ down[c][1] \in Down
      /\ Len(down[c]) \in Nat /\ Len(down[c]) > 0 /\ Head(down[c]) = down[c][1] /\ down[c][1].key \in Nat
  BY Streams, DownFields DEF ParcelInv, two_party_client
<1>2. Types'
  <2>1. Tail(down[c]) \in Seq(Down)
    BY <1>1, Streams, SeqFacts DEF ParcelInv
  <2>2. /\ down' \in [Conn -> Seq(Down)] /\ ctrl' \in [Conn -> Nat]
        /\ cpc' \in [Conn -> {"out", "connected", "joining", "idle", "kx", "gone"}]
    BY <1>1, <2>1 DEF ParcelInv, Types, two_party_client
  <2> QED
    BY <2>2 DEF ParcelInv, Types, two_party_client, dvars
<1>3. OnlyStaleLost'
  BY DEF ParcelInv, OnlyStaleLost, two_party_client
<1>4. ClientStep(c)
  BY DEF ParcelInv, Types, ClientStep, SameClient, SameReceiver, InQueue, two_party_client
<1>5. /\ cpc'[c] = "idle" /\ down'[c] = Tail(down[c]) /\ ctrl'[c] = down[c][1].key
      /\ up'[c] = up[c] /\ session'[c] = session[c] /\ ex'[c] = ex[c] /\ ci'[c] = ci[c]
      /\ announced'[c] = announced[c] /\ snap'[c] = snap[c] /\ members' = members
      /\ UNCHANGED dvars /\ UNCHANGED backlog
  BY <1>1 DEF ParcelInv, Types, two_party_client, dvars
<1>6. /\ Len(down'[c]) = Len(down[c]) - 1
      /\ \A p \in 1 .. Len(down'[c]) : down'[c][p] = down[c][p + 1] /\ p + 1 \in 1 .. Len(down[c])
  BY <1>1, <1>5, Streams, SeqFacts DEF ParcelInv
<1>7. Rem(c) = 0 /\ Rem(c)' = 0 /\ Promised(c)' = Promised(c) /\ Promised(c) = ctrl'[c]
  BY <1>1, <1>5 DEF Rem, Promised
<1>8. Stream(c)' /\ (HasCtrl(c)' <=> HasCtrl(c))
  BY <1>1, <1>5, <1>7, TailStream DEF ParcelInv, Local
<1>9. Local(c)'
  <2>1. Holding(c)'
    BY <1>1, <1>5 DEF ParcelInv, Local, Holding, Member, Numbered, Number
  <2>2. Aware(c)'
    BY <1>1, <1>5, <1>7, <1>8 DEF ParcelInv, Local, Aware, Gone
  <2>3. Numbered(c)'
    BY <1>1, <1>5, <1>6 DEF ParcelInv, Local, Numbered, Number
  <2> QED
    BY <1>8, <2>1, <2>2, <2>3 DEF Local
<1>10. ASSUME ~Dead PROVE Served(c)' /\ Queue'
  <2>1. Served(c) /\ Queue
    BY <1>10 DEF ParcelInv
  <2>2. /\ (Fresh(c)' <=> Fresh(c)) /\ Connected' = Connected /\ (InQueue(c)' <=> InQueue(c))
        /\ cnt' = cnt /\ sfds' = sfds /\ rdy' = rdy /\ dpc' = dpc /\ srvkey' = srvkey
        /\ \A i \in 1 .. cnt : Taken(i)' = Taken(i) /\ Given(i)' = Given(i)
    BY <1>5 DEF Fresh, Connected, InQueue, dvars, Taken, Given
  <2>3. ~Fresh(c) /\ ~InQueue(c)
    BY <1>1, <2>1 DEF Served, New
  <2>4. ASSUME NEW i \in 1 .. cnt, Exchange(i, c) PROVE Exchange(i, c)'
    <3>1. Waiting(i, c)
      BY <1>1, <2>4 DEF Exchange, Running, Done, Gone
    <3>2. Waiting(i, c)'
      BY <1>1, <1>5, <1>7, <3>1, WaitingMovesUp DEF ParcelInv, KeCount, KeSet
    <3> QED
      BY <1>5, <2>2, <2>4, <3>2 DEF Exchange
  <2>5. ASSUME Settled(c) PROVE Settled(c)'
    BY <1>1, <1>5, <1>7, <1>8, <2>2, <2>5 DEF Settled, Gone
  <2>6. Queue'
    BY <1>5, <2>1, <2>2 DEF Queue
  <2> QED
    BY <1>1, <1>5, <2>1, <2>2, <2>3, <2>4, <2>5, <2>6 DEF Served, New, Pass, Progress, Gone
<1> QED
  BY <1>2, <1>3, <1>4, <1>9, <1>10, ClientKeeps

\* recv_thread reads a cable from another client, whether it decrypts or not.
LEMMA CableStep ==
    ASSUME ParcelInv, NEW c \in Conn, recv_thread(c), down[c][1].type # "ctrl"
    PROVE  ParcelInv'
<1>1. /\ cpc[c] = "idle" /\ down[c] # << >> /\ down[c][1] \in Down
      /\ Len(down[c]) \in Nat /\ Len(down[c]) > 0 /\ Head(down[c]) = down[c][1]
  BY Streams DEF ParcelInv, recv_thread
<1>2. Rem(c) = 0 /\ Promised(c) = ctrl[c]
  BY <1>1 DEF Rem, Promised
<1>3. Fits(c, 1)
  BY <1>1 DEF ParcelInv, Local, Stream
<1>4. down[c][1].type = "cable" /\ CableFits(c, 1)
  BY <1>1, <1>2, <1>3, DownFields DEF Fits, KeFits
<1>5. announced[c] /\ session[c] = ctrl[c]
  BY <1>1, <1>4 DEF CableFits, ParcelInv, Local, Holding
<1>6. OnlyStaleLost'
  BY <1>1, <1>2, <1>4, <1>5 DEF ParcelInv, OnlyStaleLost, recv_thread, Decrypts, CableFits
<1>7. /\ down' = [down EXCEPT ![c] = Tail(@)]
      /\ UNCHANGED <<dvars, backlog, up, cpc, ex, ci, ctrl, session, announced, snap, texts>>
  BY <1>1, <1>4 DEF recv_thread
<1>8. Types'
  <2>1. Tail(down[c]) \in Seq(Down)
    BY <1>1, Streams, SeqFacts DEF ParcelInv
  <2>2. down' \in [Conn -> Seq(Down)]
    BY <1>7, <2>1 DEF ParcelInv, Types
  <2> QED
    BY <1>7, <2>2 DEF ParcelInv, Types, dvars
<1>9. ClientStep(c)
  BY <1>7 DEF ParcelInv, Types, ClientStep, SameClient, SameReceiver, InQueue
<1>10. down'[c] = Tail(down[c]) /\ members' = members
  BY <1>7 DEF ParcelInv, Types, dvars
<1>11. /\ Len(down'[c]) = Len(down[c]) - 1
       /\ \A p \in 1 .. Len(down'[c]) : down'[c][p] = down[c][p + 1] /\ p + 1 \in 1 .. Len(down[c])
  BY <1>1, <1>10, Streams, SeqFacts DEF ParcelInv
<1>12. Rem(c)' = 0 /\ Promised(c)' = Promised(c)
  BY <1>1, <1>2, <1>7 DEF Rem, Promised
<1>13. Stream(c)' /\ (HasCtrl(c)' <=> HasCtrl(c))
  BY <1>1, <1>2, <1>5, <1>7, <1>10, <1>12, TailStream DEF ParcelInv, Local
<1>14. Local(c)'
  <2>1. Holding(c)'
    BY <1>1, <1>7, <1>10 DEF ParcelInv, Local, Holding, Member
  <2>2. Aware(c)'
    BY <1>1, <1>7, <1>10, <1>12, <1>13 DEF ParcelInv, Local, Aware, Gone
  <2>3. Numbered(c)'
    BY <1>1, <1>7, <1>10, <1>11 DEF ParcelInv, Local, Numbered, Number
  <2> QED
    BY <1>13, <2>1, <2>2, <2>3 DEF Local
<1>15. ASSUME ~Dead PROVE Served(c)' /\ Queue'
  <2>1. Served(c) /\ Queue
    BY <1>15 DEF ParcelInv
  <2>2. /\ (Fresh(c)' <=> Fresh(c)) /\ Connected' = Connected /\ (InQueue(c)' <=> InQueue(c))
        /\ cnt' = cnt /\ sfds' = sfds /\ rdy' = rdy /\ dpc' = dpc /\ srvkey' = srvkey
        /\ \A i \in 1 .. cnt : Taken(i)' = Taken(i) /\ Given(i)' = Given(i)
    BY <1>7 DEF Fresh, Connected, InQueue, dvars, Taken, Given
  <2>3. ~Fresh(c) /\ ~InQueue(c)
    BY <1>1, <2>1 DEF Served, New
  <2>4. ASSUME NEW i \in 1 .. cnt, Exchange(i, c) PROVE Exchange(i, c)'
    <3>1. Waiting(i, c)
      BY <1>1, <2>4 DEF Exchange, Running, Done, Gone
    <3>2. Waiting(i, c)'
      BY <1>1, <1>7, <1>10, <1>12, <3>1, WaitingMovesUp DEF ParcelInv, KeCount, KeSet
    <3> QED
      BY <1>7, <2>2, <2>4, <3>2 DEF Exchange
  <2>5. ASSUME Settled(c) PROVE Settled(c)'
    BY <1>1, <1>7, <1>12, <1>13, <2>2, <2>5 DEF Settled, Gone
  <2>6. Queue'
    BY <1>7, <2>1, <2>2 DEF Queue
  <2> QED
    BY <1>1, <1>7, <2>1, <2>2, <2>3, <2>4, <2>5, <2>6 DEF Served, New, Pass, Progress, Gone
<1> QED
  BY <1>6, <1>8, <1>9, <1>14, <1>15, ClientKeeps

\* The first message of a client's stream keeps its place when it sends another.
LEMMA PassKept ==
    ASSUME Types, NEW c \in Conn, NEW m \in Up, up'[c] = Append(up[c], m), cpc'[c] = cpc[c],
           UNCHANGED dvars, Pass(c)
    PROVE  Pass(c)'
<1>1. up[c] # << >> => up'[c] # << >> /\ up'[c][1] = up[c][1]
  BY Streams, SeqFacts
<1> QED
  BY <1>1 DEF Pass, Connected, Fresh, Gone, dvars

\* proc_ctrl: the CTRL cable decrypts, and the client enters n_party_client.
LEMMA CtrlStep ==
    ASSUME ParcelInv, NEW c \in Conn, recv_thread(c), down[c][1].type = "ctrl"
    PROVE  ParcelInv'
<1> DEFINE m == down[c][1]
<1>1. /\ cpc[c] = "idle" /\ down[c] # << >> /\ m \in Down /\ m.type = "ctrl"
      /\ Len(down[c]) \in Nat /\ Len(down[c]) > 0 /\ Head(down[c]) = m
      /\ m \in [type : {"ctrl"}, under : Nat, renewed : Nat, cnt : Nat]
      /\ m.under \in Nat /\ m.renewed \in Nat /\ m.cnt \in Nat
  BY Streams, DownFields DEF ParcelInv, recv_thread
<1>2. Rem(c) = 0 /\ Promised(c) = ctrl[c] /\ ctrl[c] \in Nat
  BY <1>1 DEF Rem, Promised, ParcelInv, Types
<1>3. CtrlFits(c, 1)
  BY <1>1 DEF ParcelInv, Local, Stream, Fits
<1>4. /\ m.under = ctrl[c] /\ m.renewed = ctrl[c] + 1
      /\ m.cnt \in 1 .. Cardinality(Conn) /\ Len(down[c]) - 1 <= m.cnt
      /\ Member(c, m.renewed)
      /\ \A q \in 2 .. Len(down[c]) : down[c][q].type = "ke" /\ down[c][q].ex = m.renewed
  BY <1>1, <1>2, <1>3 DEF CtrlFits, Member
<1>5. /\ down' = [down EXCEPT ![c] = Tail(@)] /\ ex' = [ex EXCEPT ![c] = m]
      /\ ci' = [ci EXCEPT ![c] = 0] /\ up' = [up EXCEPT ![c] = Append(@, Ke(m.renewed))]
      /\ cpc' = [cpc EXCEPT ![c] = "kx"]
      /\ UNCHANGED <<dvars, backlog, ctrl, session, announced, snap, texts, lost>>
  BY <1>1, <1>4 DEF recv_thread, Decrypts
<1>6. /\ Tail(down[c]) \in Seq(Down) /\ Append(up[c], Ke(m.renewed)) \in Seq(Up)
      /\ Ke(m.renewed) \in Up /\ Ke(m.renewed).type = "ke" /\ Ke(m.renewed).ex = m.renewed
  BY <1>1, Streams, SeqFacts, Messages DEF ParcelInv
<1>7. Types'
  <2>1. down' \in [Conn -> Seq(Down)] /\ up' \in [Conn -> Seq(Up)]
    BY <1>5, <1>6 DEF ParcelInv, Types
  <2>2. /\ ex' \in [Conn -> [type : {"ctrl"}, under : Nat, renewed : Nat, cnt : Nat]]
        /\ ci' \in [Conn -> Nat]
        /\ cpc' \in [Conn -> {"out", "connected", "joining", "idle", "kx", "gone"}]
    BY <1>1, <1>5 DEF ParcelInv, Types
  <2> QED
    BY <1>5, <2>1, <2>2 DEF ParcelInv, Types, dvars
<1>8. OnlyStaleLost'
  BY <1>5 DEF ParcelInv, OnlyStaleLost
<1>9. ClientStep(c)
  BY <1>5 DEF ParcelInv, Types, ClientStep, SameClient, SameReceiver, InQueue
<1>10. /\ down'[c] = Tail(down[c]) /\ ex'[c] = m /\ ci'[c] = 0 /\ cpc'[c] = "kx"
       /\ up'[c] = Append(up[c], Ke(m.renewed))
       /\ members' = members /\ ctrl'[c] = ctrl[c] /\ session'[c] = session[c]
       /\ announced'[c] = announced[c] /\ snap'[c] = snap[c]
  BY <1>5 DEF ParcelInv, Types, dvars
<1>11. /\ Len(down'[c]) = Len(down[c]) - 1
       /\ \A p \in 1 .. Len(down'[c]) : down'[c][p] = down[c][p + 1] /\ p + 1 \in 2 .. Len(down[c])
  BY <1>1, <1>10, Streams, SeqFacts DEF ParcelInv
<1>12. /\ Len(up[c]) \in Nat /\ Len(up'[c]) = Len(up[c]) + 1 /\ up'[c][Len(up[c]) + 1] = Ke(m.renewed)
       /\ \A p \in 1 .. Len(up[c]) : up'[c][p] = up[c][p]
  BY <1>6, <1>10, Streams, SeqFacts DEF ParcelInv
<1>13. Rem(c)' = m.cnt /\ Promised(c)' = m.renewed
  BY <1>1, <1>10 DEF Rem, Promised
<1>14. \A p \in 1 .. Len(down'[c]) : down'[c][p].type = "ke" /\ down'[c][p].ex = m.renewed
  BY <1>4, <1>11
<1>15. Local(c)'
  <2>1. Holding(c)'
    <3>1. (\A p \in 1 .. Len(up[c]) : up[c][p].type = "cable" => Member(c, up[c][p].under))'
      BY <1>6, <1>10, <1>12 DEF ParcelInv, Local, Holding, Member
    <3>2. 0 < m.cnt /\ m.cnt <= Cardinality(Conn) /\ 0 <= Cardinality(Conn)
      BY <1>4, ConnAssumption, FS_CardinalityType
    <3>3. Member(c, ex[c].renewed)' /\ ex'[c].renewed = ctrl'[c] + 1
      BY <1>4, <1>10 DEF Member
    <3>4. /\ IF announced'[c] THEN Member(c, session[c])' ELSE session'[c] = 0
          /\ (\A k \in snap[c] : Member(c, k) /\ announced[c])'
          /\ ctrl'[c] <= Len(members')
          /\ announced'[c] => session'[c] = ctrl'[c]
      BY <1>1, <1>10 DEF ParcelInv, Local, Holding, Member
    <3> QED
      BY <1>10, <3>1, <3>2, <3>3, <3>4 DEF Holding
  <2>2. Aware(c)'
    BY <1>1, <1>2, <1>4, <1>10 DEF ParcelInv, Local, Aware, Gone
  <2>3. Stream(c)'
    <3>1. \A p \in 1 .. Len(down'[c]) : p <= Rem(c)'
      BY <1>1, <1>4, <1>11, <1>13
    <3> QED
      BY <1>10, <1>13, <1>14, <3>1 DEF Stream, Fits, KeFits
  <2>4. Numbered(c)'
    <3>1. m.renewed <= Len(members')
      BY <1>4, <1>10 DEF Member
    <3>2. \A p \in 1 .. Len(up'[c]) : up'[c][p].type = "ke" => up'[c][p].ex <= Len(members')
      BY <1>6, <1>10, <1>12, <3>1 DEF ParcelInv, Local, Numbered, Number
    <3> QED
      BY <1>10, <1>14, <3>1, <3>2 DEF ParcelInv, Local, Numbered, Number
  <2> QED
    BY <2>1, <2>2, <2>3, <2>4 DEF Local
<1>16. ASSUME ~Dead PROVE Served(c)' /\ Queue'
  <2>1. Served(c) /\ Queue
    BY <1>16 DEF ParcelInv
  <2>2. /\ (Fresh(c)' <=> Fresh(c)) /\ Connected' = Connected /\ (InQueue(c)' <=> InQueue(c))
        /\ cnt' = cnt /\ sfds' = sfds /\ rdy' = rdy /\ dpc' = dpc /\ srvkey' = srvkey
        /\ \A i \in 1 .. cnt : Taken(i)' = Taken(i) /\ Given(i)' = Given(i)
    BY <1>5 DEF Fresh, Connected, InQueue, dvars, Taken, Given
  <2>3. ~Fresh(c) /\ ~InQueue(c)
    BY <1>1, <2>1 DEF Served, New
  <2>4. ~Settled(c)
    BY <1>1 DEF Settled, HasCtrl, Gone
  <2>5. ASSUME NEW i \in 1 .. cnt, Exchange(i, c) PROVE Exchange(i, c)'
    <3>1. Waiting(i, c)
      BY <1>1, <2>5 DEF Exchange, Running, Done, Gone
    <3>2. PICK p \in 1 .. Len(down[c]) : /\ down[c][p].type = "ctrl" /\ down[c][p].cnt = cnt - 1
                                         /\ Len(down[c]) = p + Given(i)
      BY <3>1 DEF Waiting
    <3>3. p = 1 /\ Given(i) \in Nat /\ cnt \in Nat
      <4>1. p \notin 2 .. Len(down[c])
        BY <1>4, <3>2
      <4>2. Given(i) \in Nat /\ cnt \in Nat
        BY CountTypes DEF ParcelInv
      <4> QED
        BY <1>1, <4>1, <4>2
    <3>4. m.cnt = cnt - 1 /\ Len(down[c]) = 1 + Given(i)
      BY <3>2, <3>3
    <3>5. Len(down'[c]) + 0 = Given(i) /\ srvkey = m.renewed
      <4>1. Len(down'[c]) + 0 = Given(i)
        BY <1>1, <1>11, <3>3, <3>4
      <4>2. srvkey \in Nat /\ ctrl[c] = srvkey - 1
        BY <1>2, <3>1 DEF Waiting, ParcelInv, Types
      <4> QED
        BY <1>2, <1>4, <4>1, <4>2
    <3>6. KeCount(up'[c]) = 1 /\ Taken(i) = 0
      BY <1>6, <1>10, <3>1, KeAppend, Streams DEF Waiting, ParcelInv
    <3>7. ~HasCtrl(c)'
      BY <1>14 DEF HasCtrl
    <3>8. Running(i, c)'
      BY <1>10, <2>2, <3>4, <3>5, <3>6, <3>7 DEF Running
    <3>9. \A q \in 1 .. Len(up'[c]) :
             up'[c][q].type # "pub" /\ (up'[c][q].type = "ke" => up'[c][q].ex = srvkey)
      <4> TAKE q \in 1 .. Len(up'[c])
      <4>1. q \in 1 .. Len(up[c]) \/ q = Len(up[c]) + 1
        BY <1>12
      <4>2. CASE q \in 1 .. Len(up[c])
        BY <1>12, <2>5, <4>2 DEF Exchange
      <4>3. CASE q = Len(up[c]) + 1
        <5>1. up'[c][q] = Ke(m.renewed)
          BY <1>12, <4>3
        <5> QED
          BY <1>6, <3>5, <5>1
      <4> QED
        BY <4>1, <4>2, <4>3
    <3>10. KeCount(up'[c]) + Taken(i)' <= cnt' - 1
      BY <1>4, <2>2, <3>3, <3>4, <3>6
    <3> QED
      BY <2>2, <3>8, <3>9, <3>10 DEF Exchange
  <2>6. Pass(c)'
    BY <1>1, <1>5, <1>6, <1>10, <1>12, <2>1, Streams DEF Served, Pass, Connected, Fresh, Gone, dvars, ParcelInv
  <2>7. Queue'
    BY <1>5, <2>1, <2>2 DEF Queue
  <2> QED
    BY <1>1, <1>10, <2>1, <2>2, <2>3, <2>4, <2>5, <2>6, <2>7 DEF Served, New, Progress, Gone
<1> QED
  BY <1>7, <1>8, <1>9, <1>15, <1>16, ClientKeeps

\* In an exchange, the next message is an intermediate key of this exchange.
LEMMA NextIsKe ==
    ASSUME ParcelInv, NEW c \in Conn, cpc[c] = "kx", down[c] # << >>
    PROVE  /\ down[c][1] \in Down /\ down[c][1].type = "ke" /\ down[c][1].ex = ex[c].renewed
           /\ Len(down[c]) \in Nat /\ Len(down[c]) > 0 /\ Head(down[c]) = down[c][1]
           /\ ci[c] \in Nat /\ ex[c].cnt \in Nat /\ ex[c].renewed \in Nat /\ ctrl[c] \in Nat
           /\ ci[c] < ex[c].cnt /\ Rem(c) = ex[c].cnt - ci[c] /\ Promised(c) = ex[c].renewed
           /\ Member(c, ex[c].renewed) /\ ex[c].renewed = ctrl[c] + 1
           /\ ex[c].cnt <= Cardinality(Conn)
<1>1. /\ down[c][1] \in Down /\ Len(down[c]) \in Nat /\ Len(down[c]) > 0
      /\ Head(down[c]) = down[c][1]
  BY Streams DEF ParcelInv
<1>2. ci[c] \in Nat /\ ex[c].cnt \in Nat /\ ex[c].renewed \in Nat /\ ctrl[c] \in Nat
  BY DEF ParcelInv, Types
<1>3. /\ ci[c] < ex[c].cnt /\ Member(c, ex[c].renewed) /\ ex[c].renewed = ctrl[c] + 1
      /\ ex[c].cnt <= Cardinality(Conn)
  BY DEF ParcelInv, Local, Holding
<1>4. Rem(c) = ex[c].cnt - ci[c] /\ Promised(c) = ex[c].renewed
  BY DEF Rem, Promised
<1>5. Fits(c, 1)
  BY <1>1 DEF ParcelInv, Local, Stream
<1>6. Rem(c) >= 1 /\ Rem(c) \in Nat
  BY <1>2, <1>3, <1>4
<1>7. ~CableFits(c, 1) /\ ~CtrlFits(c, 1)
  BY <1>6 DEF CableFits, CtrlFits
<1>8. down[c][1].type = "ke" /\ KeFits(c, 1)
  BY <1>1, <1>5, <1>7, DownFields DEF Fits
<1>9. down[c][1].ex = ex[c].renewed
  BY <1>4, <1>8 DEF KeFits
<1> QED
  BY <1>1, <1>2, <1>3, <1>4, <1>8, <1>9

\* A round of n_party_client that is not the last.
LEMMA RoundStep ==
    ASSUME ParcelInv, NEW c \in Conn, n_party_client(c), ci[c] # ex[c].cnt - 1
    PROVE  ParcelInv'
<1> DEFINE k == ex[c].renewed
           m == Ke(k)
<1>1. cpc[c] = "kx" /\ down[c] # << >>
  BY DEF n_party_client
<1>2. /\ down[c][1] \in Down /\ down[c][1].type = "ke" /\ down[c][1].ex = k
      /\ Len(down[c]) \in Nat /\ Len(down[c]) > 0 /\ Head(down[c]) = down[c][1]
      /\ ci[c] \in Nat /\ ex[c].cnt \in Nat /\ k \in Nat /\ ctrl[c] \in Nat
      /\ ci[c] < ex[c].cnt /\ Rem(c) = ex[c].cnt - ci[c] /\ Promised(c) = k
      /\ Member(c, k) /\ k = ctrl[c] + 1
      /\ ex[c].cnt <= Cardinality(Conn)
  BY <1>1, NextIsKe
<1>3. /\ down' = [down EXCEPT ![c] = Tail(@)] /\ ci' = [ci EXCEPT ![c] = @ + 1]
      /\ up' = [up EXCEPT ![c] = Append(@, m)]
      /\ UNCHANGED <<dvars, backlog, cpc, ex, ctrl, session, announced, snap, texts, lost>>
  BY <1>2 DEF n_party_client
<1>4. /\ Tail(down[c]) \in Seq(Down) /\ Append(up[c], m) \in Seq(Up)
      /\ m \in Up /\ m.type = "ke" /\ m.ex = k
  BY <1>1, <1>2, Streams, SeqFacts, Messages DEF ParcelInv
<1>5. Types'
  <2>1. down' \in [Conn -> Seq(Down)] /\ up' \in [Conn -> Seq(Up)]
    BY <1>3, <1>4 DEF ParcelInv, Types
  <2>2. ci' \in [Conn -> Nat]
    <3>1. ci[c] + 1 \in Nat
      BY <1>2
    <3> QED
      BY <1>3, <3>1 DEF ParcelInv, Types
  <2> QED
    BY <1>3, <2>1, <2>2 DEF ParcelInv, Types, dvars
<1>6. OnlyStaleLost'
  BY <1>3 DEF ParcelInv, OnlyStaleLost
<1>7. ClientStep(c)
  BY <1>3 DEF ParcelInv, Types, ClientStep, SameClient, SameReceiver, InQueue
<1>8. /\ down'[c] = Tail(down[c]) /\ ex'[c] = ex[c] /\ ci'[c] = ci[c] + 1 /\ cpc'[c] = "kx"
      /\ up'[c] = Append(up[c], m)
      /\ members' = members /\ ctrl'[c] = ctrl[c] /\ session'[c] = session[c]
      /\ announced'[c] = announced[c] /\ snap'[c] = snap[c]
  BY <1>1, <1>3 DEF ParcelInv, Types, dvars
<1>9. /\ Len(down'[c]) = Len(down[c]) - 1
      /\ \A p \in 1 .. Len(down'[c]) : down'[c][p] = down[c][p + 1] /\ p + 1 \in 1 .. Len(down[c])
  BY <1>1, <1>2, <1>8, Streams, SeqFacts DEF ParcelInv
<1>10. /\ Len(up[c]) \in Nat /\ Len(up'[c]) = Len(up[c]) + 1 /\ up'[c][Len(up[c]) + 1] = m
       /\ \A p \in 1 .. Len(up[c]) : up'[c][p] = up[c][p]
  BY <1>4, <1>8, Streams, SeqFacts DEF ParcelInv
<1>11. /\ Rem(c)' = ex[c].cnt - (ci[c] + 1) /\ Promised(c)' = k
       /\ Rem(c)' = Rem(c) - 1 /\ Rem(c) \in Int /\ Rem(c)' \in Int
  <2>1. Rem(c)' = ex[c].cnt - (ci[c] + 1) /\ Promised(c)' = k
    BY <1>8 DEF Rem, Promised
  <2> QED
    BY <1>2, <2>1
<1>12. Stream(c)' /\ (HasCtrl(c)' <=> HasCtrl(c))
  BY <1>1, <1>2, <1>8, <1>11, TailStream DEF ParcelInv, Local
<1>13. Local(c)'
  <2>1. Holding(c)'
    <3>1. (\A p \in 1 .. Len(up[c]) : up[c][p].type = "cable" => Member(c, up[c][p].under))'
      BY <1>4, <1>8, <1>10 DEF ParcelInv, Local, Holding, Member
    <3>2. ci'[c] < ex[c].cnt /\ ci'[c] <= Cardinality(Conn)
      <4>1. \A a, b, d \in Nat : a < b /\ a # b - 1 /\ b <= d => a + 1 < b /\ a + 1 <= d
        OBVIOUS
      <4>2. Cardinality(Conn) \in Nat
        BY ConnAssumption, FS_CardinalityType
      <4>3. ci[c] + 1 < ex[c].cnt /\ ci[c] + 1 <= Cardinality(Conn)
        BY ONLY <1>2, <4>1, <4>2, ci[c] # ex[c].cnt - 1
      <4> QED
        BY <1>8, <4>3
    <3> QED
      BY <1>1, <1>8, <3>1, <3>2 DEF ParcelInv, Local, Holding, Member
  <2>2. Aware(c)'
    BY <1>1, <1>2, <1>8, <1>11, <1>12 DEF ParcelInv, Local, Aware, Gone
  <2>3. Numbered(c)'
    <3>1. k <= Len(members')
      BY <1>2, <1>8 DEF Member
    <3>2. \A p \in 1 .. Len(up'[c]) : up'[c][p].type = "ke" => up'[c][p].ex <= Len(members')
      BY <1>4, <1>8, <1>10, <3>1 DEF ParcelInv, Local, Numbered, Number
    <3> QED
      BY <1>8, <1>9, <3>2 DEF ParcelInv, Local, Numbered, Number
  <2> QED
    BY <1>12, <2>1, <2>2, <2>3 DEF Local
<1>14. ASSUME ~Dead PROVE Served(c)' /\ Queue'
  <2>1. Served(c) /\ Queue
    BY <1>14 DEF ParcelInv
  <2>2. /\ (Fresh(c)' <=> Fresh(c)) /\ Connected' = Connected /\ (InQueue(c)' <=> InQueue(c))
        /\ cnt' = cnt /\ sfds' = sfds /\ rdy' = rdy /\ dpc' = dpc /\ srvkey' = srvkey
        /\ \A i \in 1 .. cnt : Taken(i)' = Taken(i) /\ Given(i)' = Given(i)
    BY <1>3 DEF Fresh, Connected, InQueue, dvars, Taken, Given
  <2>3. ~Fresh(c) /\ ~InQueue(c)
    BY <1>1, <2>1 DEF Served, New
  <2>4. ~Settled(c)
    BY <1>1, <1>2 DEF Settled, Gone
  <2>5. ASSUME NEW i \in 1 .. cnt, Exchange(i, c) PROVE Exchange(i, c)'
    <3>1. CASE Waiting(i, c)
      BY <1>1, <1>2, <3>1 DEF Waiting
    <3>2. CASE Running(i, c)
      <4>1. KeCount(up'[c]) = KeCount(up[c]) + 1 /\ KeCount(up[c]) \in Nat
        BY <1>4, <1>8, KeAppend, KeNone, Streams DEF ParcelInv
      <4>2. /\ ex[c].renewed = srvkey /\ ex[c].cnt = cnt - 1
            /\ Len(down[c]) + ci[c] = Given(i) /\ ~HasCtrl(c)
            /\ KeCount(up[c]) + Taken(i) = ci[c] + 1
        BY <3>2 DEF Running
      <4>3. Taken(i) \in Nat /\ Given(i) \in Nat /\ cnt \in Nat
        BY CountTypes DEF ParcelInv
      <4>4. /\ Len(down'[c]) + ci'[c] = Given(i) /\ KeCount(up'[c]) + Taken(i) = ci'[c] + 1
            /\ KeCount(up'[c]) + Taken(i) <= cnt - 1
        <5>2. ci[c] < cnt - 1 /\ ci[c] # cnt - 2
          BY <1>2, <4>2, <4>3
        <5>3. Len(down[c]) \in Nat /\ ci[c] \in Nat /\ KeCount(up[c]) \in Nat
          BY <1>2, <4>1
        <5>4. (Len(down[c]) - 1) + (ci[c] + 1) = Given(i)
          <6>1. \A x, y, z \in Nat : x + y = z => (x - 1) + (y + 1) = z
            OBVIOUS
          <6>2. Len(down[c]) + ci[c] = Given(i)
            BY <4>2
          <6>3. Len(down[c]) \in Nat /\ ci[c] \in Nat /\ Given(i) \in Nat
            BY <4>3, <5>3
          <6> QED
            BY ONLY <6>1, <6>2, <6>3
        <5>5. (KeCount(up[c]) + 1) + Taken(i) = (ci[c] + 1) + 1
          BY <4>2, <4>3, <5>3
        <5>6. (ci[c] + 1) + 1 <= cnt - 1
          BY <4>3, <5>2, <5>3
        <5> QED
          BY <1>8, <1>9, <4>1, <5>4, <5>5, <5>6
      <4>5. Running(i, c)'
        BY <1>8, <1>12, <2>2, <4>2, <4>4 DEF Running
      <4>6. \A q \in 1 .. Len(up'[c]) :
               up'[c][q].type # "pub" /\ (up'[c][q].type = "ke" => up'[c][q].ex = srvkey)
        <5> TAKE q \in 1 .. Len(up'[c])
        <5>1. q \in 1 .. Len(up[c]) \/ q = Len(up[c]) + 1
          BY <1>10
        <5>2. CASE q \in 1 .. Len(up[c])
          BY <1>10, <2>5, <5>2 DEF Exchange
        <5>3. CASE q = Len(up[c]) + 1
          <6>1. up'[c][q] = m
            BY <1>10, <5>3
          <6> QED
            BY <1>4, <4>2, <6>1
        <5> QED
          BY <5>1, <5>2, <5>3
      <4> QED
        BY <2>2, <4>4, <4>5, <4>6 DEF Exchange
    <3> QED
      BY <1>1, <2>5, <3>1, <3>2 DEF Exchange, Done, Gone
  <2>6. Pass(c)'
    BY <1>1, <1>3, <1>4, <1>8, <2>1, PassKept DEF Served, ParcelInv
  <2>7. Queue'
    BY <1>3, <2>1, <2>2 DEF Queue
  <2> QED
    BY <1>1, <1>8, <2>1, <2>2, <2>3, <2>4, <2>5, <2>6, <2>7 DEF Served, New, Progress, Gone
<1> QED
  BY <1>5, <1>6, <1>7, <1>13, <1>14, ClientKeeps

LastRound(c) == ci[c] = ex[c].cnt - 1

\* The last round of n_party_client, and the rest of proc_ctrl.
LEMMA FinishStep ==
    ASSUME ParcelInv, NEW c \in Conn, n_party_client(c), LastRound(c)
    PROVE  ParcelInv'
<1> DEFINE k == ex[c].renewed
           m == Cable(k)
<1>1. cpc[c] = "kx" /\ down[c] # << >>
  BY DEF n_party_client
<1>2. /\ down[c][1] \in Down /\ down[c][1].type = "ke" /\ down[c][1].ex = k
      /\ Len(down[c]) \in Nat /\ Len(down[c]) > 0 /\ Head(down[c]) = down[c][1]
      /\ ci[c] \in Nat /\ ex[c].cnt \in Nat /\ k \in Nat /\ ctrl[c] \in Nat
      /\ ci[c] < ex[c].cnt /\ Rem(c) = ex[c].cnt - ci[c] /\ Promised(c) = k
      /\ Member(c, k) /\ k = ctrl[c] + 1
      /\ ex[c].cnt <= Cardinality(Conn)
  BY <1>1, NextIsKe
<1>3. /\ down' = [down EXCEPT ![c] = Tail(@)] /\ ci' = [ci EXCEPT ![c] = @ + 1]
      /\ ctrl' = [ctrl EXCEPT ![c] = k] /\ session' = [session EXCEPT ![c] = k]
      /\ cpc' = [cpc EXCEPT ![c] = "idle"] /\ announced' = [announced EXCEPT ![c] = TRUE]
      /\ up' = IF announced[c] THEN up ELSE [up EXCEPT ![c] = Append(@, m)]
      /\ UNCHANGED <<dvars, backlog, ex, snap, texts, lost>>
  BY <1>2 DEF n_party_client, RenewedCtrl, AnnounceKey, LastRound
<1>4. /\ Tail(down[c]) \in Seq(Down) /\ Append(up[c], m) \in Seq(Up)
      /\ m \in Up /\ m.type = "cable" /\ m.under = k
  BY <1>1, <1>2, Streams, SeqFacts, Messages DEF ParcelInv
<1>5. Types'
  <2>1. down' \in [Conn -> Seq(Down)]
    BY <1>3, <1>4 DEF ParcelInv, Types
  <2>2. up' \in [Conn -> Seq(Up)]
    BY <1>3, <1>4 DEF ParcelInv, Types
  <2>3. ci' \in [Conn -> Nat]
    <3>1. ci[c] + 1 \in Nat
      BY <1>2
    <3> QED
      BY <1>3, <3>1 DEF ParcelInv, Types
  <2>4. /\ ctrl' \in [Conn -> Nat] /\ session' \in [Conn -> Nat]
        /\ cpc' \in [Conn -> {"out", "connected", "joining", "idle", "kx", "gone"}]
    BY <1>2, <1>3 DEF ParcelInv, Types
  <2>5. announced' \in [Conn -> BOOLEAN]
    BY <1>3 DEF ParcelInv, Types
  <2> QED
    BY <1>3, <2>1, <2>2, <2>3, <2>4, <2>5 DEF ParcelInv, Types, dvars
<1>6. OnlyStaleLost'
  BY <1>3 DEF ParcelInv, OnlyStaleLost
<1>7. ClientStep(c)
  BY <1>3 DEF ParcelInv, Types, ClientStep, SameClient, SameReceiver, InQueue
<1>8. /\ down'[c] = Tail(down[c]) /\ ex'[c] = ex[c] /\ ci'[c] = ci[c] + 1 /\ cpc'[c] = "idle"
      /\ members' = members /\ ctrl'[c] = k /\ session'[c] = k /\ snap'[c] = snap[c]
  BY <1>1, <1>3 DEF ParcelInv, Types, dvars
<1>16. announced'[c] /\ (up'[c] = up[c] \/ up'[c] = Append(up[c], m))
  BY <1>3 DEF ParcelInv, Types
<1>9. /\ Len(down'[c]) = Len(down[c]) - 1
      /\ \A p \in 1 .. Len(down'[c]) : down'[c][p] = down[c][p + 1] /\ p + 1 \in 1 .. Len(down[c])
  BY <1>1, <1>2, <1>8, Streams, SeqFacts DEF ParcelInv
<1>10. /\ Len(up[c]) \in Nat /\ up[c] # << >> => up'[c] # << >>
       /\ \A p \in 1 .. Len(up[c]) : up'[c][p] = up[c][p]
       /\ \A p \in 1 .. Len(up'[c]) : p \in 1 .. Len(up[c]) \/ up'[c][p] = m
  BY <1>4, <1>16, Streams, SeqFacts DEF ParcelInv
<1>11. KeCount(up[c])' = KeCount(up[c]) /\ KeCount(up[c]) \in Nat
  <2>1. KeCount(up[c]) \in Nat /\ KeCount(Append(up[c], m)) = KeCount(up[c])
    BY <1>4, KeAppend, KeNone, Streams DEF ParcelInv
  <2>2. KeCount(up[c])' = KeCount(up'[c])
    BY DEF KeCount, KeSet
  <2> QED
    BY <1>16, <2>1, <2>2
<1>12. Rem(c)' = 0 /\ Rem(c) = 1 /\ Promised(c)' = k /\ Promised(c) = k
  BY <1>2, <1>8 DEF Rem, Promised, LastRound
<1>13. Stream(c)' /\ (HasCtrl(c)' <=> HasCtrl(c))
  <2>1. Rem(c) \in Int /\ Rem(c)' \in Int /\ Rem(c)' = Rem(c) - 1 /\ Promised(c)' = Promised(c)
    BY <1>12
  <2>2. Types /\ Stream(c) /\ down[c][1].type # "ctrl"
    BY <1>2 DEF ParcelInv, Local
  <2>3. cpc[c] = "kx" /\ cpc'[c] = "idle" /\ down'[c] = Tail(down[c]) /\ members' = members
    BY <1>1, <1>8
  <2> QED
    BY <1>1, <1>16, <2>1, <2>2, <2>3, TailStream
<1>14. Local(c)'
  <2>1. Holding(c)'
    <3>1. (\A p \in 1 .. Len(up[c]) : up[c][p].type = "cable" => Member(c, up[c][p].under))'
      <4>1. \A p \in 1 .. Len(up'[c]) : up'[c][p].type = "cable" =>
               up'[c][p].under = k \/ (p \in 1 .. Len(up[c]) /\ up'[c][p] = up[c][p])
        BY <1>2, <1>4, <1>10
      <4>2. \A p \in 1 .. Len(up[c]) : up[c][p].type = "cable" => Member(c, up[c][p].under)
        BY DEF ParcelInv, Local, Holding
      <4> QED
        BY <1>2, <1>8, <4>1, <4>2 DEF Member
    <3>2. ci'[c] <= Cardinality(Conn)
      <4>1. ci[c] + 1 = ex[c].cnt
        BY <1>2 DEF LastRound
      <4> QED
        BY <1>2, <1>8, <4>1
    <3>3. Member(c, session[c])' /\ (\A q \in snap[c] : Member(c, q))'
      BY <1>2, <1>8 DEF ParcelInv, Local, Holding, Member
    <3>4. ctrl'[c] <= Len(members')
      BY <1>2, <1>8 DEF Member
    <3> QED
      BY <1>8, <1>16, <3>1, <3>2, <3>3, <3>4 DEF Holding
  <2>2. Aware(c)'
    <3>1. ASSUME NEW j \in 1 .. Len(members'), c \in members'[j], j > session'[c]
          PROVE  HasCtrl(c)' /\ j = Promised(c)' + 1
      <4>1. j > session[c]
        <5>1. session[c] \in Nat /\ (session[c] = ctrl[c] \/ session[c] = 0)
          BY <1>1 DEF ParcelInv, Types, Local, Holding
        <5> QED
          BY <1>2, <1>8, <3>1, <5>1
      <4>2. j # k
        BY <1>2, <1>8, <3>1
      <4> QED
        BY <1>1, <1>8, <1>12, <1>13, <3>1, <4>1, <4>2 DEF ParcelInv, Local, Aware, Gone
    <3> QED
      BY <3>1 DEF Aware
  <2>3. Numbered(c)'
    <3>1. k <= Len(members')
      BY <1>2, <1>8 DEF Member
    <3>2. \A p \in 1 .. Len(up'[c]) : up'[c][p].type = "ke" => up'[c][p].ex <= Len(members')
      BY <1>4, <1>8, <1>10 DEF ParcelInv, Local, Numbered, Number
    <3> QED
      BY <1>8, <1>9, <3>1, <3>2 DEF ParcelInv, Local, Numbered, Number
  <2> QED
    BY <1>13, <2>1, <2>2, <2>3 DEF Local
<1>15. ASSUME ~Dead PROVE Served(c)' /\ Queue'
  <2>1. Served(c) /\ Queue /\ Control
    BY <1>15 DEF ParcelInv
  <2>2. /\ (Fresh(c)' <=> Fresh(c)) /\ Connected' = Connected /\ (InQueue(c)' <=> InQueue(c))
        /\ cnt' = cnt /\ sfds' = sfds /\ rdy' = rdy /\ dpc' = dpc /\ srvkey' = srvkey
        /\ \A i \in 1 .. cnt : Taken(i)' = Taken(i) /\ Given(i)' = Given(i)
    BY <1>3 DEF Fresh, Connected, InQueue, dvars, Taken, Given
  <2>3. ~Fresh(c) /\ ~InQueue(c)
    BY <1>1, <2>1 DEF Served, New
  <2>4. ASSUME Settled(c) PROVE Settled(c)'
    <3>1. \A p \in 1 .. Len(up'[c]) : up'[c][p].type = "cable"
      BY <1>4, <1>10, <2>4 DEF Settled
    <3> QED
      BY <1>1, <1>8, <1>12, <1>13, <1>16, <2>2, <2>4, <3>1 DEF Settled, Gone
  <2>5. ASSUME NEW i \in 1 .. cnt, Exchange(i, c), dpc = "rotate" PROVE Exchange(i, c)'
    <3>1. \A q \in 1 .. Len(up'[c]) :
             up'[c][q].type # "pub" /\ (up'[c][q].type = "ke" => up'[c][q].ex = srvkey)
      BY <1>4, <1>10, <2>5 DEF Exchange
    <3>2. KeCount(up[c])' + Taken(i)' <= cnt' - 1
      BY <1>11, <2>2, <2>5 DEF Exchange
    <3>3. CASE Waiting(i, c)
      <4>1. Waiting(i, c)'
        BY <1>1, <1>2, <1>3, <1>8, <1>11, <1>12, <3>3, WaitingMovesUp DEF ParcelInv
      <4> QED
        BY <2>2, <3>1, <3>2, <4>1 DEF Exchange
    <3>4. CASE Running(i, c)
      <4>1. /\ k = srvkey /\ ex[c].cnt = cnt - 1
            /\ Len(down[c]) + ci[c] = Given(i)
            /\ KeCount(up[c]) + Taken(i) = ci[c] + 1
        BY <3>4 DEF Running
      <4>2. Taken(i) \in Nat /\ Given(i) \in Nat /\ cnt \in Nat /\ Given(i) <= cnt - 1
        BY <2>1, <2>5 DEF ParcelInv, Types, Taken, Given, Control
      <4>3. ci[c] = (cnt - 1) - 1
        BY <4>1 DEF LastRound
      <4>4. Len(down[c]) = 1 /\ Given(i) = cnt - 1
        <5>1. Len(down[c]) \in Nat /\ Len(down[c]) > 0
          BY <1>2
        <5>2. Len(down[c]) + ((cnt - 1) - 1) = Given(i)
          BY <4>1, <4>3
        <5>3. \A n, g, r \in Nat : n > 0 /\ n + ((r - 1) - 1) = g /\ g <= r - 1 => n = 1 /\ g = r - 1
          OBVIOUS
        <5> QED
          BY <4>2, <5>1, <5>2, <5>3
      <4>5. KeCount(up[c]) + Taken(i) = cnt - 1
        BY <1>11, <4>1, <4>2, <4>3
      <4>6. down'[c] = << >>
        <5>1. Len(down'[c]) = 0
          BY <1>9, <4>4
        <5> QED
          BY <1>4, <1>8, <5>1, SeqFacts
      <4>7. Done(i, c)'
        BY <1>8, <1>11, <1>16, <2>2, <4>1, <4>4, <4>5, <4>6 DEF Done
      <4> QED
        BY <2>2, <3>1, <3>2, <4>7 DEF Exchange
    <3> QED
      BY <1>1, <2>5, <3>3, <3>4 DEF Exchange, Done, Gone
  <2>6. Pass(c)'
    <3>1. up[c] # << >> => up'[c] # << >> /\ up'[c][1] = up[c][1]
      BY <1>10, Streams DEF ParcelInv
    <3> QED
      BY <1>1, <1>8, <2>1, <2>2, <3>1 DEF Served, Pass, Gone
  <2>7. Queue'
    BY <1>3, <2>1, <2>2 DEF Queue
  <2> QED
    BY <1>1, <1>8, <2>1, <2>2, <2>3, <2>4, <2>5, <2>6, <2>7 DEF Served, New, Progress, Gone
<1> QED
  BY <1>5, <1>6, <1>7, <1>14, <1>15, ClientKeeps

\* A cable that a client sends changes nothing but its stream to the daemon.
LEMMA CableSent ==
    ASSUME Types, NEW c \in Conn, Local(c), NEW k \in Nat, Member(c, k),
           up'[c] = Append(up[c], Cable(k)), members' = members
    PROVE  /\ Append(up[c], Cable(k)) \in Seq(Up)
           /\ (\A p \in 1 .. Len(up[c]) : up[c][p].type = "cable" => Member(c, up[c][p].under))'
           /\ \A p \in 1 .. Len(up'[c]) : up'[c][p].type = "ke" => up'[c][p].ex <= Len(members')
           /\ KeCount(up[c])' = KeCount(up[c])
           /\ up[c] # << >> => up'[c] # << >> /\ up'[c][1] = up[c][1]
           /\ \A p \in 1 .. Len(up'[c]) :
                 up'[c][p].type = "cable" \/ (p \in 1 .. Len(up[c]) /\ up'[c][p] = up[c][p])
<1> DEFINE m == Cable(k)
<1>1. m \in Up /\ m.type = "cable" /\ m.under = k /\ up[c] \in Seq(Up)
  BY Messages DEF Types
<1>2. /\ Append(up[c], m) \in Seq(Up) /\ Len(up[c]) \in Nat
      /\ Len(up'[c]) = Len(up[c]) + 1 /\ up'[c][Len(up[c]) + 1] = m
      /\ \A p \in 1 .. Len(up[c]) : up'[c][p] = up[c][p]
  BY <1>1, SeqFacts
<1>3. KeCount(up[c])' = KeCount(up[c])
  <2>1. KeCount(Append(up[c], m)) = KeCount(up[c]) /\ KeCount(up[c])' = KeCount(up'[c])
    BY <1>1, KeAppend, KeNone DEF KeCount, KeSet
  <2> QED
    BY <2>1
<1>4. up[c] # << >> => up'[c] # << >> /\ up'[c][1] = up[c][1]
  BY <1>1, <1>2, SeqFacts
<1>5. \A p \in 1 .. Len(up'[c]) :
         (up'[c][p].type = "cable" /\ up'[c][p].under = k) \/ (p \in 1 .. Len(up[c]) /\ up'[c][p] = up[c][p])
  BY <1>1, <1>2
<1>6. (\A p \in 1 .. Len(up[c]) : up[c][p].type = "cable" => Member(c, up[c][p].under))'
  <2>1. \A p \in 1 .. Len(up[c]) : up[c][p].type = "cable" => Member(c, up[c][p].under)
    BY DEF Local, Holding
  <2> QED
    BY <1>5, <2>1 DEF Member
<1>7. \A p \in 1 .. Len(up'[c]) : up'[c][p].type = "ke" => up'[c][p].ex <= Len(members')
  BY <1>5 DEF Local, Numbered, Number
<1> QED
  BY <1>2, <1>3, <1>4, <1>5, <1>6, <1>7

\* connect_server: the client enters the listen queue.
LEMMA ConnectStep ==
    ASSUME ParcelInv, NEW c \in Conn, connect_server(c)
    PROVE  ParcelInv'
<1>1. /\ cpc[c] = "out" /\ cpc'[c] = "connected" /\ backlog' = Append(backlog, c)
      /\ up'[c] = up[c] /\ down'[c] = down[c] /\ ctrl'[c] = ctrl[c] /\ session'[c] = session[c]
      /\ ex'[c] = ex[c] /\ ci'[c] = ci[c] /\ announced'[c] = announced[c] /\ snap'[c] = snap[c]
      /\ UNCHANGED dvars
  BY DEF connect_server, kvars, ParcelInv, Types
<1>2. /\ backlog \in Seq(Conn) /\ Len(backlog) \in Nat /\ backlog' \in Seq(Conn)
      /\ Len(backlog') = Len(backlog) + 1 /\ backlog'[Len(backlog) + 1] = c /\ backlog' # << >>
      /\ \A i \in 1 .. Len(backlog) : backlog'[i] = backlog[i]
  <2>1. backlog \in Seq(Conn)
    BY DEF ParcelInv, Types
  <2> QED
    BY <1>1, <2>1, SeqFacts
<1>3. Types'
  BY <1>2 DEF connect_server, kvars, dvars, ParcelInv, Types
<1>4. OnlyStaleLost'
  BY DEF connect_server, ParcelInv, OnlyStaleLost
<1>5. ClientStep(c)
  <2>1. \A d \in Conn \ {c} : SameClient(d)
    BY DEF ParcelInv, Types, SameClient, SameReceiver, connect_server, kvars
  <2>2. \A d \in Conn \ {c} : InQueue(d)' <=> InQueue(d)
    BY <1>2 DEF InQueue
  <2> QED
    BY <1>1, <2>1, <2>2 DEF ClientStep
<1>6. up[c] = << >> /\ down[c] = << >> /\ Len(down[c]) = 0 /\ Len(up[c]) = 0 /\ ~announced[c]
  BY <1>1 DEF ParcelInv, Local, Holding
<1>7. Local(c)'
  <2>1. Holding(c)'
    BY <1>1, <1>6 DEF ParcelInv, Local, Holding, Member, dvars
  <2>2. Aware(c)'
    BY <1>1, <1>6 DEF ParcelInv, Local, Aware, Gone, HasCtrl, dvars
  <2>3. Stream(c)' /\ Numbered(c)'
    BY <1>1, <1>6 DEF ParcelInv, Local, Stream, Numbered, Number, dvars
  <2> QED
    BY <2>1, <2>2, <2>3 DEF Local
<1>8. ASSUME ~Dead PROVE Served(c)' /\ Queue'
  <2>1. New(c) /\ Pass(c) /\ Queue
    BY <1>8 DEF ParcelInv, Served
  <2>2. c \notin Connected /\ ~Fresh(c) /\ ~InQueue(c)
    BY <1>1, <2>1 DEF New
  <2>3. Connected' = Connected /\ (Fresh(c)' <=> Fresh(c)) /\ rdy' = rdy /\ cnt' = cnt /\ sfds' = sfds
    BY <1>1 DEF Connected, Fresh, dvars
  <2>4. Queue'
    BY <1>2, <2>1, <2>2, <2>3 DEF Queue, InQueue
  <2>5. New(c)'
    BY <1>1, <1>6, <2>2, <2>3 DEF New
  <2>6. Pass(c)' /\ Progress(c)'
    BY <2>1, <2>2, <2>3 DEF Pass, Progress, Connected
  <2> QED
    BY <2>4, <2>5, <2>6 DEF Served
<1> QED
  BY <1>3, <1>4, <1>5, <1>7, <1>8, ClientKeeps

\* send_thread reads the session key of a client that is a member for it.
LEMMA KeysStep ==
    ASSUME ParcelInv, NEW c \in Conn, transmit_wire_keys(c)
    PROVE  ParcelInv'
<1>1. /\ SameReceiver(c) /\ snap'[c] = {session[c]} /\ announced[c] /\ announced'[c]
      /\ UNCHANGED <<dvars, backlog, lost>>
  BY DEF transmit_wire_keys, kvars, SameReceiver, ParcelInv, Types
<1>2. Types'
  <2>1. session[c] \in Nat
    BY DEF ParcelInv, Types
  <2>2. snap' \in [Conn -> SUBSET Nat] /\ texts' \in Nat /\ texts' <= MaxTexts
    BY <2>1, BoundAssumption DEF transmit_wire_keys, ParcelInv, Types
  <2> QED
    BY <2>2 DEF transmit_wire_keys, kvars, dvars, ParcelInv, Types
<1>3. OnlyStaleLost'
  BY <1>1 DEF ParcelInv, OnlyStaleLost
<1>4. ClientStep(c)
  BY DEF ParcelInv, Types, ClientStep, SameClient, SameReceiver, InQueue, transmit_wire_keys, kvars
<1>5. Local(c)'
  <2>1. Rem(c)' = Rem(c) /\ Promised(c)' = Promised(c) /\ (HasCtrl(c)' <=> HasCtrl(c))
    BY <1>1 DEF SameReceiver, Rem, Promised, HasCtrl
  <2>2. Holding(c)'
    BY <1>1 DEF SameReceiver, dvars, ParcelInv, Local, Holding, Member
  <2>3. Aware(c)'
    BY <1>1, <2>1 DEF SameReceiver, dvars, ParcelInv, Local, Aware, Gone
  <2>4. Stream(c)'
    BY <1>1, <2>1 DEF SameReceiver, dvars, ParcelInv, Local, Stream, Fits, CableFits, KeFits, CtrlFits
  <2>5. Numbered(c)'
    BY <1>1 DEF SameReceiver, dvars, ParcelInv, Local, Numbered, Number
  <2> QED
    BY <2>2, <2>3, <2>4, <2>5 DEF Local
<1>6. ASSUME ~Dead PROVE Served(c)' /\ Queue'
  <2>1. Served(c) /\ Queue
    BY <1>6 DEF ParcelInv
  <2>2. Served(c)'
    BY <1>1, <2>1, ServedFrame DEF InQueue
  <2> QED
    BY <1>1, <2>1, <2>2 DEF Queue, dvars
<1> QED
  BY <1>2, <1>3, <1>4, <1>5, <1>6, ClientKeeps

\* transmit_wire sends under the key that it has read before.
LEMMA SendStep ==
    ASSUME ParcelInv, NEW c \in Conn, transmit_wire_send(c)
    PROVE  ParcelInv'
<1>1. PICK k \in snap[c] : up' = [up EXCEPT ![c] = Append(@, Cable(k))]
  BY DEF transmit_wire_send
<1>2. k \in Nat /\ Member(c, k) /\ announced[c]
  BY DEF ParcelInv, Types, Local, Holding
<1>3. /\ up'[c] = Append(up[c], Cable(k)) /\ down'[c] = down[c] /\ cpc'[c] = cpc[c] /\ ~Gone(c)
      /\ ctrl'[c] = ctrl[c] /\ session'[c] = session[c] /\ ex'[c] = ex[c] /\ ci'[c] = ci[c]
      /\ announced'[c] = announced[c] /\ snap'[c] = {} /\ UNCHANGED <<dvars, backlog, lost>>
      /\ members' = members
  BY <1>1 DEF transmit_wire_send, kvars, dvars, ParcelInv, Types
<1>4. /\ Append(up[c], Cable(k)) \in Seq(Up)
      /\ (\A p \in 1 .. Len(up[c]) : up[c][p].type = "cable" => Member(c, up[c][p].under))'
      /\ \A p \in 1 .. Len(up'[c]) : up'[c][p].type = "ke" => up'[c][p].ex <= Len(members')
      /\ KeCount(up[c])' = KeCount(up[c])
      /\ up[c] # << >> => up'[c] # << >> /\ up'[c][1] = up[c][1]
      /\ \A p \in 1 .. Len(up'[c]) :
            up'[c][p].type = "cable" \/ (p \in 1 .. Len(up[c]) /\ up'[c][p] = up[c][p])
  BY <1>2, <1>3, CableSent DEF ParcelInv
<1>5. Types'
  <2>1. up' \in [Conn -> Seq(Up)] /\ snap' \in [Conn -> SUBSET Nat]
    BY <1>1, <1>4 DEF transmit_wire_send, ParcelInv, Types
  <2> QED
    BY <2>1 DEF transmit_wire_send, kvars, dvars, ParcelInv, Types
<1>6. OnlyStaleLost'
  BY <1>3 DEF ParcelInv, OnlyStaleLost
<1>7. ClientStep(c)
  BY <1>1 DEF ParcelInv, Types, ClientStep, SameClient, SameReceiver, InQueue, transmit_wire_send, kvars
<1>8. Rem(c)' = Rem(c) /\ Promised(c)' = Promised(c) /\ (HasCtrl(c)' <=> HasCtrl(c))
  BY <1>3 DEF Rem, Promised, HasCtrl
<1>9. cpc[c] \notin {"out", "connected", "joining"}
  BY <1>2 DEF ParcelInv, Local, Holding
<1>10. Local(c)'
  <2>1. Holding(c)'
    BY <1>3, <1>4, <1>9 DEF ParcelInv, Local, Holding, Member
  <2>2. Aware(c)'
    BY <1>3, <1>8 DEF ParcelInv, Local, Aware, Gone
  <2>3. Stream(c)'
    BY <1>3, <1>8 DEF ParcelInv, Local, Stream, Fits, CableFits, KeFits, CtrlFits
  <2>4. Numbered(c)'
    BY <1>3, <1>4 DEF ParcelInv, Local, Numbered, Number
  <2> QED
    BY <2>1, <2>2, <2>3, <2>4 DEF Local
<1>11. ASSUME ~Dead PROVE Served(c)' /\ Queue'
  <2>1. Served(c) /\ Queue
    BY <1>11 DEF ParcelInv
  <2>2. /\ (Fresh(c)' <=> Fresh(c)) /\ Connected' = Connected /\ (InQueue(c)' <=> InQueue(c))
        /\ cnt' = cnt /\ sfds' = sfds /\ rdy' = rdy /\ dpc' = dpc /\ srvkey' = srvkey
        /\ \A i \in 1 .. cnt : Taken(i)' = Taken(i) /\ Given(i)' = Given(i)
    BY <1>3 DEF Fresh, Connected, InQueue, dvars, Taken, Given
  <2>3. ~Fresh(c) /\ ~InQueue(c)
    BY <1>3, <1>9, <2>1 DEF Served, New, Gone
  <2>4. ASSUME NEW i \in 1 .. cnt, Exchange(i, c) PROVE Exchange(i, c)'
    <3>1. \A q \in 1 .. Len(up'[c]) :
             up'[c][q].type # "pub" /\ (up'[c][q].type = "ke" => up'[c][q].ex = srvkey)
      BY <1>4, <2>4 DEF Exchange
    <3>2. Waiting(i, c) => Waiting(i, c)'
      BY <1>3, <1>4, <1>8, <2>2 DEF Waiting
    <3>3. Running(i, c) => Running(i, c)'
      BY <1>3, <1>4, <1>8, <2>2 DEF Running
    <3>4. Done(i, c) => Done(i, c)'
      BY <1>3, <1>4, <2>2 DEF Done
    <3> QED
      BY <1>3, <1>4, <2>2, <2>4, <3>1, <3>2, <3>3, <3>4 DEF Exchange
  <2>5. ASSUME Settled(c) PROVE Settled(c)'
    <3>1. \A p \in 1 .. Len(up'[c]) : up'[c][p].type = "cable"
      BY <1>4, <2>5 DEF Settled
    <3> QED
      BY <1>3, <1>8, <2>2, <2>5, <3>1 DEF Settled, Gone
  <2>6. Queue'
    BY <1>3, <2>1, <2>2 DEF Queue
  <2> QED
    BY <1>3, <1>4, <2>1, <2>2, <2>3, <2>4, <2>5, <2>6 DEF Served, New, Pass, Progress, Gone
<1> QED
  BY <1>5, <1>6, <1>7, <1>10, <1>11, ClientKeeps

\* A client leaves, with or without a farewell.
LEMMA LeaveStep ==
    ASSUME ParcelInv, NEW c \in Conn, cmd_exit(c) \/ crash(c)
    PROVE  ParcelInv'
<1>1. /\ down'[c] = << >> /\ cpc'[c] = "gone" /\ Len(down'[c]) = 0
      /\ ctrl'[c] = ctrl[c] /\ session'[c] = session[c] /\ ex'[c] = ex[c] /\ ci'[c] = ci[c]
      /\ UNCHANGED <<dvars, backlog, lost>> /\ members' = members
  BY DEF cmd_exit, crash, kvars, dvars, ParcelInv, Types
<1>2. announced'[c] = announced[c] /\ snap'[c] \subseteq snap[c]
  BY DEF cmd_exit, crash, kvars, ParcelInv, Types
<1>3. \/ up' = up
      \/ announced[c] /\ ~Gone(c) /\ up' = [up EXCEPT ![c] = Append(@, Cable(session[c]))]
  BY DEF cmd_exit, crash
<1>4. announced[c] => session[c] \in Nat /\ Member(c, session[c]) /\ cpc[c] \notin {"out", "connected", "joining"}
  BY DEF ParcelInv, Types, Local, Holding
<1>5. /\ (\A p \in 1 .. Len(up[c]) : up[c][p].type = "cable" => Member(c, up[c][p].under))'
      /\ \A p \in 1 .. Len(up'[c]) : up'[c][p].type = "ke" => up'[c][p].ex <= Len(members')
      /\ KeCount(up[c])' = KeCount(up[c])
      /\ \A p \in 1 .. Len(up'[c]) :
            up'[c][p].type = "cable" \/ (p \in 1 .. Len(up[c]) /\ up'[c][p] = up[c][p])
      /\ up' \in [Conn -> Seq(Up)]
  <2>1. CASE up' = up
    BY <1>1, <2>1 DEF ParcelInv, Types, Local, Holding, Member, Numbered, Number, KeCount, KeSet
  <2>2. CASE announced[c] /\ up' = [up EXCEPT ![c] = Append(@, Cable(session[c]))]
    <3>1. up'[c] = Append(up[c], Cable(session[c])) /\ Types /\ Local(c)
      BY <2>2 DEF ParcelInv, Types
    <3>2. /\ Append(up[c], Cable(session[c])) \in Seq(Up)
          /\ (\A p \in 1 .. Len(up[c]) : up[c][p].type = "cable" => Member(c, up[c][p].under))'
          /\ \A p \in 1 .. Len(up'[c]) : up'[c][p].type = "ke" => up'[c][p].ex <= Len(members')
          /\ KeCount(up[c])' = KeCount(up[c])
          /\ \A p \in 1 .. Len(up'[c]) :
                up'[c][p].type = "cable" \/ (p \in 1 .. Len(up[c]) /\ up'[c][p] = up[c][p])
      BY <1>1, <1>4, <2>2, <3>1, CableSent
    <3> QED
      BY <2>2, <3>2 DEF ParcelInv, Types
  <2> QED
    BY <1>3, <2>1, <2>2
<1>6. Types'
  <2>1. << >> \in Seq(Down)
    BY EmptySeq
  <2>2. down' \in [Conn -> Seq(Down)]
    BY <2>1 DEF cmd_exit, crash, ParcelInv, Types
  <2>3. snap' \in [Conn -> SUBSET Nat]
    BY DEF cmd_exit, crash, ParcelInv, Types
  <2>4. cpc' \in [Conn -> {"out", "connected", "joining", "idle", "kx", "gone"}]
    BY DEF cmd_exit, crash, ParcelInv, Types
  <2> QED
    BY <1>5, <2>2, <2>3, <2>4 DEF cmd_exit, crash, kvars, dvars, ParcelInv, Types
<1>7. OnlyStaleLost'
  BY <1>1 DEF ParcelInv, OnlyStaleLost
<1>8. ClientStep(c)
  BY DEF ParcelInv, Types, ClientStep, SameClient, SameReceiver, InQueue, cmd_exit, crash, kvars
<1>9. Local(c)'
  <2>1. Holding(c)'
    BY <1>1, <1>2, <1>5 DEF ParcelInv, Local, Holding, Member
  <2>2. Aware(c)' /\ Stream(c)'
    BY <1>1 DEF Aware, Gone, Stream
  <2>3. Numbered(c)'
    BY <1>1, <1>5 DEF ParcelInv, Local, Numbered, Number
  <2> QED
    BY <2>1, <2>2, <2>3 DEF Local
<1>10. ASSUME ~Dead PROVE Served(c)' /\ Queue'
  <2>1. Served(c) /\ Queue
    BY <1>10 DEF ParcelInv
  <2>2. /\ (Fresh(c)' <=> Fresh(c)) /\ Connected' = Connected /\ (InQueue(c)' <=> InQueue(c))
        /\ cnt' = cnt /\ sfds' = sfds /\ rdy' = rdy /\ dpc' = dpc /\ srvkey' = srvkey
        /\ \A i \in 1 .. cnt : Taken(i)' = Taken(i) /\ Given(i)' = Given(i)
    BY <1>1 DEF Fresh, Connected, InQueue, dvars, Taken, Given
  <2>3. InQueue(c) \/ Fresh(c) => up'[c] = up[c]
    BY <1>3, <1>4, <2>1 DEF Served, New, Gone
  <2>4. ASSUME NEW i \in 1 .. cnt, Exchange(i, c) PROVE Exchange(i, c)'
    <3>1. \A q \in 1 .. Len(up'[c]) :
             up'[c][q].type # "pub" /\ (up'[c][q].type = "ke" => up'[c][q].ex = srvkey)
      BY <1>5, <2>4 DEF Exchange
    <3> QED
      BY <1>1, <1>5, <2>2, <2>4, <3>1 DEF Exchange, Gone
  <2>5. ASSUME Settled(c) PROVE Settled(c)'
    <3>1. \A p \in 1 .. Len(up'[c]) : up'[c][p].type = "cable"
      BY <1>5, <2>5 DEF Settled
    <3> QED
      BY <1>1, <3>1 DEF Settled, Gone
  <2>6. Queue'
    BY <1>1, <2>1, <2>2 DEF Queue
  <2>7. New(c)' /\ Pass(c)'
    BY <1>1, <2>1, <2>2, <2>3 DEF Served, New, Pass, Gone
  <2> QED
    BY <2>1, <2>2, <2>4, <2>5, <2>6, <2>7 DEF Served, Progress
<1> QED
  BY <1>6, <1>7, <1>8, <1>9, <1>10, ClientKeeps

\* Every step of a client keeps the invariant.
LEMMA ClientSteps ==
    ASSUME ParcelInv, NEW c \in Conn,
           \/ Receiver(c) \/ connect_server(c)
           \/ transmit_wire_keys(c) \/ transmit_wire_send(c)
           \/ cmd_exit(c) \/ crash(c)
    PROVE  ParcelInv'
<1>1. CASE n_party_client(c)
  BY <1>1, RoundStep, FinishStep DEF LastRound
<1>2. CASE recv_thread(c)
  BY <1>2, CtrlStep, CableStep
<1> QED
  BY <1>1, <1>2, PublicKeyStep, JoinedStep, ConnectStep, KeysStep, SendStep, LeaveStep DEF Receiver

-----------------------------------------------------------------------------
(***************************************************************************)
(* The steps of the daemon.                                                *)
(***************************************************************************)

\* The connections in the table are clients, one in each of the first slots.
LEMMA TableFacts ==
    ASSUME Types, Table
    PROVE  /\ Cardinality(Conn) \in Nat /\ cnt \in Nat /\ cnt <= Cardinality(Conn)
           /\ \A i \in 1 .. cnt : i \in Slots /\ sfds[i] \in Conn /\ sfds[i] \in Connected
           /\ Connected \subseteq Conn
           /\ \A c \in Connected : \E i \in 1 .. cnt : sfds[i] = c
<1>1. Cardinality(Conn) \in Nat
  BY ConnAssumption, FS_CardinalityType
<1>2. \A i \in 1 .. cnt : i \in Slots
  BY <1>1 DEF Types, Slots
<1>3. \A i \in 1 .. cnt : sfds[i] \in Conn
  BY <1>2 DEF Types, Table
<1> QED
  BY <1>1, <1>2, <1>3 DEF Types, Connected

\* A client outside the table leaves a slot for itself, the first after those in use.
LEMMA RoomLeft ==
    ASSUME Types, Table, NEW c \in Conn, c \notin Connected
    PROVE  cnt < Cardinality(Conn) /\ FirstFree(sfds) = cnt + 1
<1> DEFINE S == 1 .. cnt
           T == Conn \ {c}
           f == [i \in S |-> sfds[i]]
<1>1. /\ Cardinality(Conn) \in Nat /\ cnt \in Nat /\ cnt <= Cardinality(Conn)
      /\ \A i \in S : i \in Slots /\ sfds[i] \in Conn /\ sfds[i] \in Connected
  BY TableFacts
<1>2. f \in Injection(S, T)
  <2>1. \A i \in S : sfds[i] \in T
    BY <1>1
  <2>2. \A i, j \in S : sfds[i] = sfds[j] => i = j
    BY DEF Table
  <2> QED
    BY <2>1, <2>2 DEF Injection, IsInjective
<1>3. IsFiniteSet(T) /\ Cardinality(T) = Cardinality(Conn) - 1
  BY ConnAssumption, FS_RemoveElement
<1>4. Cardinality(S) = cnt
  BY <1>1, FS_Interval
<1>5. cnt < Cardinality(Conn)
  <2>1. Cardinality(S) <= Cardinality(T)
    BY <1>2, <1>3, FS_Injection
  <2> QED
    BY <1>1, <1>3, <1>4, <2>1
<1>6. cnt + 1 \in Slots /\ sfds[cnt + 1] = NoSock /\ \A j \in 1 .. (cnt + 1) - 1 : sfds[j] # NoSock
  BY <1>1, <1>5 DEF Slots, Table
<1>7. ASSUME NEW i \in Slots, sfds[i] = NoSock, \A j \in 1 .. i - 1 : sfds[j] # NoSock
      PROVE  i = cnt + 1
  <2>1. i \in Nat /\ i > cnt
    BY <1>1, <1>7 DEF Slots, Table
  <2>2. ~(cnt + 1 < i)
    BY <1>1, <1>6, <1>7, <2>1
  <2> QED
    BY <1>1, <2>1, <2>2
<1> QED
  BY <1>5, <1>6, <1>7 DEF FirstFree

\* A step that neither adds to a stream nor begins an exchange leaves the clients' part alone.
LEMMA ReadLocal ==
    ASSUME NEW c \in Conn, Local(c), UNCHANGED cvars, members' = members, down'[c] = down[c],
           up[c] = << >> => up'[c] = << >>,
           \A p \in 1 .. Len(up'[c]) : \E q \in 1 .. Len(up[c]) : up'[c][p] = up[c][q]
    PROVE  Local(c)'
<1>1. Rem(c)' = Rem(c) /\ Promised(c)' = Promised(c) /\ (HasCtrl(c)' <=> HasCtrl(c))
  BY DEF cvars, kvars, Rem, Promised, HasCtrl
<1>2. Holding(c)'
  <2>1. (\A p \in 1 .. Len(up[c]) : up[c][p].type = "cable" => Member(c, up[c][p].under))'
    BY DEF Local, Holding, Member
  <2> QED
    BY <2>1 DEF cvars, kvars, Local, Holding, Member
<1>3. Aware(c)'
  BY <1>1 DEF cvars, kvars, Local, Aware, Gone
<1>4. Stream(c)'
  BY <1>1 DEF cvars, kvars, Local, Stream, Fits, CableFits, KeFits, CtrlFits
<1>5. Numbered(c)'
  BY DEF cvars, kvars, Local, Numbered, Number
<1> QED
  BY <1>2, <1>3, <1>4, <1>5 DEF Local

\* The end of the daemon leaves nothing to keep but the clients' part.
LEMMA EndStep ==
    ASSUME ParcelInv, NEW c \in Conn, ReadEndsDaemon(c)
    PROVE  ParcelInv'
<1>1. dpc' \in {"spin", "exited"}
  BY DEF ReadEndsDaemon
<1>2. Types' /\ Dead'
  BY <1>1 DEF ReadEndsDaemon, ParcelInv, Types, Dead, cvars, kvars
<1>3. OnlyStaleLost'
  BY DEF ReadEndsDaemon, ParcelInv, OnlyStaleLost, cvars
<1>4. \A d \in Conn : Local(d)'
  BY ReadLocal DEF ReadEndsDaemon, ParcelInv
<1> QED
  BY <1>2, <1>3, <1>4 DEF ParcelInv

\* select reports sockets that are in the table and readable.
LEMMA SelectStep ==
    ASSUME ParcelInv, select
    PROVE  ParcelInv'
<1>1. /\ dpc = "scan" /\ dpc' = "scan" /\ rdy' = Ready /\ ~Dead
      /\ UNCHANGED <<sfds, cnt, cur, di, round, srvkey, members, backlog, up, down, cvars>>
  BY DEF select, Dead
<1>2. Types /\ Table /\ Queue /\ Control /\ \A c \in Conn : Served(c)
  BY <1>1 DEF ParcelInv
<1>3. Types'
  <2>1. rdy' \subseteq Conn \cup {Listener}
    BY <1>1, <1>2, TableFacts DEF Ready
  <2> QED
    BY <1>1, <2>1 DEF ParcelInv, Types, cvars, kvars
<1>4. OnlyStaleLost'
  BY <1>1 DEF ParcelInv, OnlyStaleLost, cvars
<1>5. \A d \in Conn : Local(d)'
  BY <1>1, ReadLocal DEF ParcelInv
<1>6. Table' /\ Control'
  BY <1>1, <1>2 DEF Table, Control, Connected
<1>7. Queue'
  BY <1>1, <1>2, ConnAssumption, TableFacts DEF Queue, Ready
<1>8. ASSUME NEW c \in Conn PROVE Served(c)'
  <2>1. Rem(c)' = Rem(c) /\ Promised(c)' = Promised(c) /\ (HasCtrl(c)' <=> HasCtrl(c))
    BY <1>1 DEF cvars, kvars, Rem, Promised, HasCtrl
  <2>2. (Fresh(c)' <=> Fresh(c)) /\ Connected' = Connected /\ (InQueue(c)' <=> InQueue(c)) /\ ~Fresh(c)
    BY <1>1 DEF Fresh, Connected, InQueue
  <2>3. Settled(c) => Settled(c)'
    BY <1>1, <2>1 DEF cvars, kvars, Settled, Gone
  <2>4. New(c)' /\ Progress(c)'
    BY <1>1, <1>2, <2>2, <2>3 DEF cvars, Served, New, Progress, Gone
  <2>5. ASSUME c \in rdy' PROVE c \in Connected /\ (Gone(c) \/ (up[c] # << >> /\ up[c][1].type = "cable"))
    <3>1. c \in Connected /\ Readable(c)
      BY <1>1, <2>5, ConnAssumption DEF Ready
    <3>2. PICK i \in 1 .. cnt : sfds[i] = c
      BY <1>2, <3>1, TableFacts
    <3>3. Settled(c)
      BY <1>1, <1>2, <2>2, <3>2 DEF Served, Progress
    <3> QED
      BY <1>2, <3>1, <3>3, Streams DEF Readable, Settled
  <2>6. Pass(c)'
    BY <1>1, <2>2, <2>5 DEF Pass, Gone, cvars
  <2> QED
    BY <2>4, <2>6 DEF Served
<1> QED
  BY <1>3, <1>4, <1>5, <1>6, <1>7, <1>8 DEF ParcelInv

\* add_client takes the first connection of the queue into the table.
LEMMA AddStep ==
    ASSUME ParcelInv, add_client
    PROVE  ParcelInv'
<1> DEFINE h == Head(backlog)
<1>1. /\ dpc = "scan" /\ Listener \in rdy /\ rdy' = rdy \ {Listener} /\ cur' = h /\ backlog' = Tail(backlog)
      /\ cnt' = cnt + 1 /\ UNCHANGED <<di, round, srvkey, members, up, down, cvars>> /\ ~Dead
      /\ \/ dpc' = "twoparty" /\ sfds' = [sfds EXCEPT ![FirstFree(sfds)] = h]
         \/ dpc' = "exited" /\ UNCHANGED sfds
  BY DEF add_client, Dead
<1>2. Types /\ Table /\ Queue /\ Control /\ \A c \in Conn : Served(c)
  BY <1>1 DEF ParcelInv
<1>3. /\ Len(backlog) \in Nat /\ Len(backlog) > 0 /\ h = backlog[1] /\ h \in Conn
      /\ Tail(backlog) \in Seq(Conn) /\ Len(Tail(backlog)) = Len(backlog) - 1
      /\ \A i \in 1 .. Len(backlog) - 1 : Tail(backlog)[i] = backlog[i + 1]
  <2>1. backlog \in Seq(Conn) /\ backlog # << >>
    BY <1>1, <1>2 DEF Types, Queue
  <2> QED
    BY <2>1, SeqFacts
<1>4. InQueue(h)
  BY <1>3 DEF InQueue
<1>5. /\ h \notin Connected /\ cpc[h] \in {"connected", "joining", "gone"}
      /\ down[h] = << >> /\ up[h] \in {<< >>, << ClientPublic >>}
  BY <1>2, <1>3, <1>4 DEF Served, New
<1>6. cnt < Cardinality(Conn) /\ FirstFree(sfds) = cnt + 1
  BY <1>2, <1>3, <1>5, RoomLeft
<1>7. /\ Cardinality(Conn) \in Nat /\ cnt \in Nat /\ cnt + 1 \in Slots
      /\ \A i \in 1 .. cnt : i \in Slots /\ sfds[i] \in Conn /\ sfds[i] \in Connected
  BY <1>2, <1>6, TableFacts DEF Slots
<1>8. Types'
  <2>1. sfds' \in [Slots -> Conn \cup {NoSock}]
    BY <1>1, <1>2, <1>3, <1>6, <1>7 DEF Types
  <2>2. cnt' \in Nat /\ cnt' <= Cardinality(Conn)
    BY <1>1, <1>6, <1>7
  <2> QED
    BY <1>1, <1>2, <1>3, <2>1, <2>2 DEF Types, cvars, kvars
<1>9. OnlyStaleLost'
  BY <1>1 DEF ParcelInv, OnlyStaleLost, cvars
<1>10. \A d \in Conn : Local(d)'
  BY <1>1, ReadLocal DEF ParcelInv
<1>11. ASSUME ~Dead' PROVE Table' /\ Queue' /\ Control' /\ \A c \in Conn : Served(c)'
  <2>1. dpc' = "twoparty" /\ sfds' = [sfds EXCEPT ![cnt + 1] = h]
    BY <1>1, <1>6, <1>11 DEF Dead
  <2>2. sfds'[cnt + 1] = h /\ \A i \in Slots : i # cnt + 1 => sfds'[i] = sfds[i]
    BY <1>2, <1>7, <2>1 DEF Types
  <2>3. h # NoSock
    BY <1>3, ConnAssumption
  <2>4. \A i \in 1 .. cnt' : i = cnt + 1 \/ i \in 1 .. cnt
    BY <1>1, <1>7
  <2>5. \A i \in 1 .. cnt : sfds'[i] = sfds[i] /\ sfds[i] # h /\ i \in 1 .. cnt'
    BY <1>1, <1>5, <1>7, <2>2
  <2>6. Table'
    <3>1. \A i \in Slots : sfds'[i] # NoSock <=> i <= cnt'
      BY <1>1, <1>2, <1>7, <2>2, <2>3 DEF Table, Slots
    <3>2. ASSUME NEW i \in 1 .. cnt', NEW j \in 1 .. cnt', sfds'[i] = sfds'[j] PROVE i = j
      <4>1. i \in 1 .. cnt /\ j \in 1 .. cnt => i = j
        BY <1>2, <2>5, <3>2 DEF Table
      <4> QED
        BY <2>2, <2>4, <2>5, <3>2, <4>1
    <3> QED
      BY <3>1, <3>2 DEF Table
  <2>7. Connected' = Connected \cup {h}
    <3>1. Connected' \subseteq Connected \cup {h}
      BY <2>2, <2>4, <2>5 DEF Connected
    <3>2. cnt + 1 \in 1 .. cnt'
      BY <1>1, <1>7
    <3>3. Connected \cup {h} \subseteq Connected'
      BY <2>2, <2>5, <3>2 DEF Connected
    <3> QED
      BY <3>1, <3>3
  <2>8. \A i \in 1 .. Len(backlog') : backlog'[i] = backlog[i + 1] /\ i + 1 \in 1 .. Len(backlog)
    BY <1>1, <1>3
  <2>9. Queue'
    <3>1. Listener \notin rdy'
      BY <1>1
    <3>2. \A i, j \in 1 .. Len(backlog') : backlog'[i] = backlog'[j] => i + 1 = j + 1
      BY <1>2, <2>8 DEF Queue
    <3>3. \A i, j \in 1 .. Len(backlog') : i + 1 = j + 1 => i = j
      OBVIOUS
    <3> QED
      BY <3>1, <3>2, <3>3 DEF Queue
  <2>10. Control'
    BY <1>1, <2>1, <2>7 DEF Control
  <2>11. ASSUME NEW c \in Conn PROVE Served(c)'
    <3>1. Rem(c)' = Rem(c) /\ Promised(c)' = Promised(c) /\ (HasCtrl(c)' <=> HasCtrl(c))
      BY <1>1 DEF cvars, kvars, Rem, Promised, HasCtrl
    <3>2. Fresh(c)' <=> c = h
      BY <1>1, <2>1 DEF Fresh
    <3>3. InQueue(c)' => InQueue(c) /\ c # h
      <4>1. InQueue(c)' => InQueue(c)
        BY <2>8 DEF InQueue
      <4>2. ASSUME NEW i \in 1 .. Len(backlog'), backlog'[i] = h PROVE FALSE
        <5>1. i + 1 \in 1 .. Len(backlog) /\ backlog[i + 1] = backlog[1] /\ i \in Nat /\ i > 0
          BY <1>3, <2>8, <4>2
        <5>2. i + 1 = 1
          BY <1>2, <1>3, <5>1 DEF Queue
        <5> QED
          BY <5>1, <5>2
      <4> QED
        BY <4>1, <4>2 DEF InQueue
    <3>4. Served(c) /\ ~Fresh(c)
      BY <1>1, <1>2 DEF Fresh
    <3>5. New(c)'
      BY <1>1, <1>5, <2>7, <3>2, <3>3, <3>4 DEF Served, New, cvars
    <3>6. Pass(c)'
      BY <1>1, <1>5, <2>7, <3>2, <3>4 DEF Served, Pass, Gone, cvars
    <3>7. Settled(c) => Settled(c)'
      BY <1>1, <2>1, <3>1 DEF Settled, Gone, cvars, kvars
    <3>8. Progress(c)'
      BY <1>1, <2>1, <2>2, <2>4, <2>5, <3>2, <3>4, <3>7 DEF Served, Progress
    <3> QED
      BY <3>5, <3>6, <3>8 DEF Served
  <2> QED
    BY <2>6, <2>9, <2>10, <2>11
<1> QED
  BY <1>8, <1>9, <1>10, <1>11 DEF ParcelInv

\* What Deliver puts into the streams.
LEMMA Delivered ==
    ASSUME Types, NEW S, NEW m \in Down, down' = Deliver(S, m)
    PROVE  /\ down' \in [Conn -> Seq(Down)]
           /\ \A c \in Conn : /\ c \in S /\ ~Gone(c) => down'[c] = Append(down[c], m)
                              /\ c \notin S \/ Gone(c) => down'[c] = down[c]
<1>1. \A c \in Conn : down[c] \in Seq(Down) /\ Append(down[c], m) \in Seq(Down)
  BY SeqFacts DEF Types
<1> QED
  BY <1>1 DEF Deliver

\* Streams of no message and of one.
LEMMA ShortStreams ==
    Len(<< >>) = 0 /\ \A m : Len(<< m >>) = 1 /\ << m >>[1] = m
  OBVIOUS

\* two_party_server: the new client gets the current control key.
LEMMA TwoPartyStep ==
    ASSUME ParcelInv, NEW c \in Conn, c = cur,
           dpc = "twoparty", up[c] # << >>, up' = [up EXCEPT ![c] = Tail(@)],
           down' = Deliver({c}, SessionKey(srvkey)),
           dpc' \in MayFail(c, n_party_server(cnt, "scan")),
           UNCHANGED <<rdy, sfds, cnt, cur, di, round, srvkey, members, backlog, cvars>>
    PROVE  ParcelInv'
<1> DEFINE m == SessionKey(srvkey)
<1>1. Types /\ Table /\ Queue /\ Control /\ (\A d \in Conn : Served(d)) /\ ~Dead
  BY DEF ParcelInv, Dead
<1>2. c \in Connected /\ c \in Conn /\ Fresh(c) /\ cnt \in Nat /\ cnt >= 1
  <2>1. c \in Connected
    BY <1>1 DEF Control
  <2>2. c \in Conn /\ cnt \in Nat /\ \E i \in 1 .. cnt : sfds[i] = c
    BY <1>1, <2>1, TableFacts
  <2> QED
    BY <2>1, <2>2 DEF Fresh
<1>3. down[c] = << >> /\ up[c] = << ClientPublic >> /\ cpc[c] \in {"joining", "gone"}
  BY <1>1, <1>2 DEF ParcelInv, Served, New, Local, Holding
<1>4. m \in Down /\ m.type = "skey" /\ m.key = srvkey /\ srvkey \in Nat /\ srvkey = Len(members)
  <2>1. srvkey \in Nat /\ srvkey = Len(members)
    BY <1>1 DEF Types
  <2> QED
    BY <2>1, Messages
<1>5. /\ down' \in [Conn -> Seq(Down)] /\ up' \in [Conn -> Seq(Up)] /\ up'[c] = << >>
      /\ \A d \in Conn : d # c => up'[d] = up[d] /\ down'[d] = down[d]
      /\ Gone(c) => down'[c] = << >>
      /\ ~Gone(c) => down'[c] = << m >>
  <2>1. /\ down' \in [Conn -> Seq(Down)]
        /\ \A d \in Conn : /\ d \in {c} /\ ~Gone(d) => down'[d] = Append(down[d], m)
                           /\ d \notin {c} \/ Gone(d) => down'[d] = down[d]
    BY <1>1, <1>4, Delivered
  <2>2. Tail(<< ClientPublic >>) = << >> /\ << >> \in Seq(Up) /\ Append(<< >>, m) = << m >>
    OBVIOUS
  <2>3. up' \in [Conn -> Seq(Up)] /\ up'[c] = << >> /\ \A d \in Conn : d # c => up'[d] = up[d]
    BY <1>1, <1>2, <1>3, <2>2 DEF Types
  <2> QED
    BY <1>2, <1>3, <2>1, <2>2, <2>3
<1>6. dpc' = "exited" \/ (cnt = 1 /\ dpc' = "scan") \/ (cnt > 1 /\ dpc' = "ctrl")
  BY <1>2 DEF MayFail, n_party_server
<1>7. Types'
  <2>1. dpc' \in {"scan", "twoparty", "ctrl", "rotate", "spin", "exited", "aborted"}
    BY <1>6
  <2> QED
    BY <1>1, <1>5, <2>1 DEF Types, cvars, kvars
<1>8. OnlyStaleLost'
  BY DEF ParcelInv, OnlyStaleLost, cvars
<1>9. ASSUME NEW d \in Conn PROVE Local(d)'
  <2>1. CASE d # c
    BY <1>5, <2>1, ReadLocal DEF ParcelInv
  <2>2. CASE d = c /\ Gone(c)
    <3>1. up'[d] = << >> /\ down'[d] = down[d]
      BY <1>3, <1>5, <2>2
    <3>2. \A p \in 1 .. Len(up'[d]) : \E q \in 1 .. Len(up[d]) : up'[d][p] = up[d][q]
      BY <3>1
    <3> QED
      BY <3>1, <3>2, ReadLocal DEF ParcelInv
  <2>3. CASE d = c /\ ~Gone(c)
    <3>6. /\ cpc[d] = "joining" /\ cpc'[d] = "joining" /\ up'[d] = << >> /\ down'[d] = << m >>
          /\ down[d] = << >>
      BY <1>3, <1>5, <2>3 DEF Gone, cvars
    <3>1. /\ cpc[d] = "joining" /\ cpc'[d] = "joining" /\ Len(up'[d]) = 0 /\ Len(down'[d]) = 1
          /\ down'[d][1] = m /\ ~HasCtrl(d)' /\ ~HasCtrl(d)
      <4> HIDE DEF m
      <4>1. Len(up'[d]) = 0 /\ Len(down'[d]) = 1 /\ Len(down[d]) = 0 /\ down'[d][1] = m
        BY ONLY <3>6, ShortStreams
      <4>2. ~HasCtrl(d)
        BY <4>1 DEF HasCtrl
      <4>3. ~HasCtrl(d)'
        BY <1>4, <4>1 DEF HasCtrl
      <4> QED
        BY <3>6, <4>1, <4>2, <4>3
    <3>2. Holding(d)'
      BY <3>1 DEF ParcelInv, Local, Holding, Member, cvars, kvars
    <3>3. Aware(d)'
      BY <3>1 DEF ParcelInv, Local, Aware, Gone, cvars, kvars
    <3>4. Stream(d)'
      BY <1>4, <3>1 DEF Stream, Fits
    <3>5. Numbered(d)'
      BY <1>4, <3>1 DEF ParcelInv, Local, Numbered, Number, cvars, kvars
    <3> QED
      BY <3>2, <3>3, <3>4, <3>5 DEF Local
  <2> QED
    BY <2>1, <2>2, <2>3
<1>10. ASSUME ~Dead' PROVE Table' /\ Queue' /\ Control' /\ \A d \in Conn : Served(d)'
  <2>1. (cnt = 1 /\ dpc' = "scan") \/ (cnt > 1 /\ dpc' = "ctrl")
    BY <1>6, <1>10 DEF Dead
  <2>2. Connected' = Connected
    BY DEF Connected
  <2>3. Table' /\ Queue' /\ Control'
    BY <1>1, <2>1, <2>2 DEF Table, Queue, Control
  <2>4. ASSUME NEW d \in Conn PROVE Served(d)'
    <3>1. Served(d) /\ ~Fresh(d)' /\ (InQueue(d)' <=> InQueue(d)) /\ (Fresh(d) <=> d = c)
      BY <1>1, <2>1 DEF Fresh, InQueue
    <3>2. ~InQueue(c)
      BY <1>1, <1>2 DEF Served, New
    <3>3. New(d)'
      BY <1>5, <2>2, <3>1, <3>2 DEF Served, New, cvars
    <3>4. Pass(d)'
      BY <1>5, <2>2, <3>1 DEF Served, Pass, Gone, cvars
    <3>5. ASSUME d # c, Settled(d) PROVE Settled(d)'
      <4>1. Rem(d)' = Rem(d) /\ Promised(d)' = Promised(d) /\ (HasCtrl(d)' <=> HasCtrl(d))
        BY <1>5, <3>5 DEF cvars, kvars, Rem, Promised, HasCtrl
      <4>2. ~(dpc' = "scan" /\ cnt' > 1) /\ srvkey' = srvkey
        BY <1>2, <2>1
      <4>3. up'[d] = up[d] /\ down'[d] = down[d] /\ cpc'[d] = cpc[d]
        BY <1>5, <3>5 DEF cvars
      <4> QED
        BY <3>5, <4>1, <4>2, <4>3 DEF Settled, Gone
    <3>6. Settled(c)'
      <4>1. \A p \in 1 .. Len(up'[c]) : up'[c][p].type = "cable"
        <5>1. up'[c] = << >>
          BY <1>5
        <5>2. Len(up'[c]) = 0
          BY <5>1, ShortStreams
        <5> QED
          BY <5>2
      <4>2. CASE Gone(c)
        BY <4>1, <4>2 DEF Settled, Gone, cvars
      <4>3. CASE ~Gone(c)
        <5>1. cpc[c] = "joining" /\ cpc'[c] = "joining" /\ Len(down'[c]) = 1 /\ down'[c][1] = m
          <6> HIDE DEF m
          <6>1. cpc[c] = "joining" /\ cpc'[c] = cpc[c] /\ down'[c] = << m >>
            BY <1>3, <1>5, <4>3 DEF Gone, cvars
          <6> QED
            BY ONLY <6>1, ShortStreams
        <5>2. ~HasCtrl(c)' /\ Promised(c)' = srvkey'
          BY <1>4, <5>1 DEF HasCtrl, Promised
        <5> QED
          BY <1>2, <2>1, <4>1, <5>1, <5>2 DEF Settled, Gone
      <4> QED
        BY <4>2, <4>3
    <3>7. Progress(d)'
      BY <2>1, <3>1, <3>5, <3>6 DEF Served, Progress
    <3> QED
      BY <3>3, <3>4, <3>7 DEF Served
  <2> QED
    BY <2>3, <2>4
<1> QED
  BY <1>7, <1>8, <1>9, <1>10 DEF ParcelInv

\* disconnect_client keeps the table dense and without duplicates.
LEMMA TableShrinks ==
    ASSUME Types, Table, NEW c \in Connected, cnt > 1,
           sfds' = disconnect_client(socket_index(c)), cnt' = cnt - 1
    PROVE  /\ sfds' \in [Slots -> Conn \cup {NoSock}]
           /\ Table'
           /\ Connected' = Connected \ {c}
           /\ \A j \in 1 .. cnt' : \E q \in 1 .. cnt : sfds'[j] = sfds[q]
<1> DEFINE i == socket_index(c)
<1>1. /\ Cardinality(Conn) \in Nat /\ cnt \in Nat /\ cnt <= Cardinality(Conn)
      /\ \A j \in 1 .. cnt : j \in Slots /\ sfds[j] \in Conn /\ sfds[j] \in Connected
      /\ \E j \in 1 .. cnt : sfds[j] = c
      /\ c \in Conn
  BY TableFacts
<1>2. c # NoSock
  BY <1>1, ConnAssumption
<1>3. i \in Slots /\ sfds[i] = c
  BY <1>1 DEF socket_index
<1>4. i \in 1 .. cnt
  BY <1>1, <1>2, <1>3 DEF Table, Slots
<1> HIDE DEF i
<1>5. sfds' = [[sfds EXCEPT ![i] = sfds[cnt]] EXCEPT ![cnt] = NoSock]
  BY <1>1 DEF disconnect_client, i
<1>6. cnt \in 1 .. cnt /\ cnt \in Slots /\ sfds[cnt] \in Conn
  BY <1>1
<1>7. /\ sfds' \in [Slots -> Conn \cup {NoSock}]
      /\ \A j \in Slots : sfds'[j] = IF j = cnt THEN NoSock ELSE IF j = i THEN sfds[cnt] ELSE sfds[j]
  BY <1>3, <1>5, <1>6 DEF Types
<1>8. \A j \in 1 .. cnt' : /\ j \in 1 .. cnt /\ j \in Slots /\ j # cnt
                           /\ sfds'[j] = IF j = i THEN sfds[cnt] ELSE sfds[j]
  BY <1>1, <1>7
<1>9. \A j, q \in 1 .. cnt : sfds[j] = sfds[q] => j = q
  BY DEF Table
<1>10. Table'
  <2>1. \A j \in Slots : sfds'[j] # NoSock <=> j <= cnt'
    <3>1. \A j \in Slots : j \in Nat /\ (sfds[j] # NoSock <=> j <= cnt)
      BY DEF Table, Slots
    <3>2. sfds[cnt] # NoSock
      BY <1>6, ConnAssumption
    <3>3. \A j, n \in Nat : j <= n - 1 <=> j <= n /\ j # n
      OBVIOUS
    <3>4. ASSUME NEW j \in Slots PROVE sfds'[j] # NoSock <=> j <= cnt'
      <4>1. j <= cnt' <=> j <= cnt /\ j # cnt
        BY ONLY <1>1, <3>1, <3>3, cnt' = cnt - 1
      <4>2. CASE j = i
        BY <1>1, <1>4, <1>7, <3>2, <4>1, <4>2
      <4>3. CASE j # i
        BY <1>7, <3>1, <4>1, <4>3
      <4> QED
        BY <4>2, <4>3
    <3> QED
      BY <3>4
  <2>2. \A j, q \in 1 .. cnt' : sfds'[j] = sfds'[q] => j = q
    BY <1>6, <1>8, <1>9
  <2> QED
    BY <2>1, <2>2 DEF Table
<1>11. Connected' = Connected \ {c}
  <2>1. ASSUME NEW d \in Connected' PROVE d \in Connected \ {c}
    <3>1. PICK j \in 1 .. cnt' : d = sfds'[j]
      BY <2>1 DEF Connected
    <3>2. CASE j = i
      <4>1. d = sfds[cnt] /\ i # cnt
        BY <1>8, <3>1, <3>2
      <4>2. sfds[cnt] # c
        BY <1>3, <1>4, <1>6, <1>9, <4>1
      <4> QED
        BY <1>1, <1>6, <4>1, <4>2
    <3>3. CASE j # i
      <4>1. d = sfds[j] /\ j \in 1 .. cnt
        BY <1>8, <3>1, <3>3
      <4>2. sfds[j] # c
        BY <1>3, <1>4, <1>9, <3>3, <4>1
      <4> QED
        BY <1>1, <4>1, <4>2
    <3> QED
      BY <3>2, <3>3
  <2>2. ASSUME NEW d \in Connected \ {c} PROVE d \in Connected'
    <3>1. PICK j \in 1 .. cnt : d = sfds[j]
      BY TableFacts
    <3>2. j # i
      BY <1>3, <3>1
    <3>3. CASE j = cnt
      <4>1. i \in 1 .. cnt' /\ sfds'[i] = d
        BY <1>1, <1>4, <1>8, <3>1, <3>2, <3>3
      <4> QED
        BY <4>1 DEF Connected
    <3>4. CASE j # cnt
      <4>1. j \in 1 .. cnt' /\ sfds'[j] = d
        BY <1>1, <1>8, <3>1, <3>2, <3>4
      <4> QED
        BY <4>1 DEF Connected
    <3> QED
      BY <3>3, <3>4
  <2> QED
    BY <2>1, <2>2
<1>12. \A j \in 1 .. cnt' : \E q \in 1 .. cnt : sfds'[j] = sfds[q]
  BY <1>6, <1>8
<1> QED
  BY <1>7, <1>10, <1>11, <1>12

\* daemon_handle_disconnect takes a client that is gone out of the table.
LEMMA DisconnectStep ==
    ASSUME ParcelInv, NEW c \in Conn, daemon_handle_disconnect(c)
    PROVE  ParcelInv'
<1>1. /\ dpc = "scan" /\ Listener \notin rdy /\ c \in rdy /\ Gone(c) /\ ~Dead
      /\ rdy' = rdy \ {c} /\ up' = [up EXCEPT ![c] = << >>]
      /\ sfds' = disconnect_client(socket_index(c)) /\ cnt' = cnt - 1
      /\ dpc' = n_party_server(cnt - 1, "scan")
      /\ UNCHANGED <<cur, di, round, srvkey, members, backlog, down, cvars>>
  BY DEF daemon_handle_disconnect, Dead
<1>2. Types /\ Table /\ Queue /\ Control /\ \A d \in Conn : Served(d)
  BY <1>1 DEF ParcelInv
<1>3. c \in Connected
  BY <1>1, <1>2 DEF Served, Pass
<1>4. cnt \in Nat /\ cnt >= 1 /\ cnt <= Cardinality(Conn) /\ Cardinality(Conn) \in Nat
  <2>1. cnt \in Nat /\ \E i \in 1 .. cnt : sfds[i] = c
    BY <1>2, <1>3, TableFacts
  <2> QED
    BY <1>2, <2>1, TableFacts
<1>5. dpc' = IF cnt = 1 THEN "aborted" ELSE IF cnt = 2 THEN "scan" ELSE "ctrl"
  BY <1>1, <1>4 DEF n_party_server
<1>6. /\ up' \in [Conn -> Seq(Up)] /\ up'[c] = << >>
      /\ \A d \in Conn : d # c => up'[d] = up[d]
  <2>1. << >> \in Seq(Up)
    BY EmptySeq
  <2> QED
    BY <1>1, <1>2, <2>1 DEF Types
<1>7. sfds' \in [Slots -> Conn \cup {NoSock}]
  <2>1. CASE cnt = 1
    BY <1>1, <1>2, <2>1 DEF disconnect_client, Types
  <2>2. CASE cnt > 1
    BY <1>1, <1>2, <1>3, <2>2, TableShrinks
  <2> QED
    BY <1>4, <2>1, <2>2
<1>8. Types'
  <2>1. /\ dpc' \in {"scan", "twoparty", "ctrl", "rotate", "spin", "exited", "aborted"}
        /\ cnt' \in Nat /\ cnt' <= Cardinality(Conn)
    BY <1>1, <1>4, <1>5
  <2> QED
    BY <1>1, <1>2, <1>6, <1>7, <2>1 DEF Types, cvars, kvars
<1>9. OnlyStaleLost'
  BY <1>1 DEF ParcelInv, OnlyStaleLost, cvars
<1>10. ASSUME NEW d \in Conn PROVE Local(d)'
  <2>1. CASE d # c
    BY <1>1, <1>6, <2>1, ReadLocal DEF ParcelInv
  <2>2. CASE d = c
    <3>1. up'[d] = << >> /\ down'[d] = down[d]
      BY <1>1, <1>6, <2>2
    <3>2. \A p \in 1 .. Len(up'[d]) : \E q \in 1 .. Len(up[d]) : up'[d][p] = up[d][q]
      BY <3>1
    <3> QED
      BY <1>1, <3>1, <3>2, ReadLocal DEF ParcelInv
  <2> QED
    BY <2>1, <2>2
<1>11. ASSUME ~Dead' PROVE Table' /\ Queue' /\ Control' /\ \A d \in Conn : Served(d)'
  <2>1. cnt > 1 /\ (dpc' = "scan" => cnt' = 1) /\ dpc' \in {"scan", "ctrl"} /\ (dpc' = "ctrl" => cnt' > 1)
    BY <1>1, <1>4, <1>5, <1>11 DEF Dead
  <2>2. /\ Table' /\ Connected' = Connected \ {c}
        /\ \A j \in 1 .. cnt' : \E q \in 1 .. cnt : sfds'[j] = sfds[q]
    BY <1>1, <1>2, <1>3, <2>1, TableShrinks
  <2>3. Queue'
    BY <1>1, <1>2 DEF Queue
  <2>4. Control'
    BY <1>1, <2>1 DEF Control
  <2>5. ASSUME NEW d \in Conn PROVE Served(d)'
    <3>1. Served(d) /\ ~Fresh(d)' /\ ~Fresh(d) /\ (InQueue(d)' <=> InQueue(d))
      BY <1>1, <1>2, <2>1 DEF Fresh, InQueue
    <3>2. New(d)'
      <4>1. InQueue(c) => FALSE
        BY <1>2, <1>3 DEF Served, New
      <4> QED
        BY <1>1, <1>6, <2>2, <3>1, <4>1 DEF Served, New, cvars
    <3>3. Pass(d)'
      BY <1>1, <1>6, <2>2, <3>1 DEF Served, Pass, Gone, cvars
    <3>4. ASSUME NEW j \in 1 .. cnt', sfds'[j] = d PROVE Settled(d)'
      <4>1. PICK q \in 1 .. cnt : sfds[q] = d
        BY <2>2, <3>4
      <4>2. Settled(d)
        BY <1>1, <3>1, <4>1 DEF Served, Progress
      <4>3. d # c
        BY <2>2, <3>4 DEF Connected
      <4>4. Rem(d)' = Rem(d) /\ Promised(d)' = Promised(d) /\ (HasCtrl(d)' <=> HasCtrl(d))
        BY <1>1 DEF cvars, kvars, Rem, Promised, HasCtrl
      <4>5. ~(dpc' = "scan" /\ cnt' > 1) /\ srvkey' = srvkey
        BY <1>1, <2>1
      <4>6. up'[d] = up[d] /\ down'[d] = down[d] /\ cpc'[d] = cpc[d]
        BY <1>1, <1>6, <4>3 DEF cvars
      <4> QED
        BY <4>2, <4>4, <4>5, <4>6 DEF Settled, Gone
    <3>5. Progress(d)'
      BY <2>1, <3>4 DEF Progress
    <3> QED
      BY <3>2, <3>3, <3>5 DEF Served
  <2> QED
    BY <2>2, <2>3, <2>4, <2>5
<1> QED
  BY <1>8, <1>9, <1>10, <1>11 DEF ParcelInv

\* What the rosters of the exchanges so far say does not change.
Growing ==
    /\ Len(members) <= Len(members')
    /\ \A k \in 1 .. Len(members) : k \in 1 .. Len(members') /\ members'[k] = members[k]

\* A message that fits the end of a client's stream, where no CTRL cable is
\* followed by anything but the intermediate keys of its exchange.
LEMMA AppendStream ==
    ASSUME Types, NEW c \in Conn, NEW m \in Down, Stream(c), down'[c] = Append(down[c], m),
           UNCHANGED cvars, Growing, Promised(c)' = Promised(c),
           NEW n \in Nat, n = Len(down[c]) + 1, Fits(c, n)',
           \A p \in 1 .. Len(down[c]) : down[c][p].type = "ctrl" =>
              m.type = "ke" /\ m.ex = Promised(c) + 1 /\ Len(down[c]) + 1 - p <= down[c][p].cnt
    PROVE  Stream(c)'
<1>1. /\ Len(down[c]) \in Nat /\ Len(down'[c]) = Len(down[c]) + 1 /\ down'[c][Len(down[c]) + 1] = m
      /\ \A p \in 1 .. Len(down[c]) : down'[c][p] = down[c][p] /\ down[c][p] \in Down
  <2>1. down[c] \in Seq(Down)
    BY DEF Types
  <2> QED
    BY <2>1, SeqFacts
<1>2. Rem(c)' = Rem(c)
  BY DEF Rem, cvars, kvars
<1>3. ASSUME NEW p \in 1 .. Len(down[c]) PROVE Fits(c, p)'
  <2>1. Fits(c, p) /\ down'[c][p] = down[c][p] /\ down[c][p] \in Down /\ p \in Nat
    BY <1>1 DEF Stream
  <2>2. \A q \in 1 .. p - 1 : down'[c][q] = down[c][q]
    BY <1>1
  <2>3. CableFits(c, p) => CableFits(c, p)'
    BY <1>2, <2>1 DEF CableFits, cvars, kvars
  <2>4. KeFits(c, p) => KeFits(c, p)'
    BY <1>2, <2>1, <2>2 DEF KeFits
  <2>5. ASSUME down[c][p].type = "ctrl", CtrlFits(c, p) PROVE CtrlFits(c, p)'
    <3>1. down[c][p].renewed \in 1 .. Len(members)
      BY <2>1, <2>5, DownFields DEF CtrlFits
    <3>2. down[c][p].renewed <= Len(members') /\ c \in members'[down[c][p].renewed]
      BY <2>5, <3>1 DEF CtrlFits, Growing
    <3>3. Len(down'[c]) - p <= down[c][p].cnt
      BY <1>1, <2>5
    <3>4. \A q \in p + 1 .. Len(down'[c]) : down'[c][q].type = "ke" /\ down'[c][q].ex = Promised(c) + 1
      <4>1. \A q \in p + 1 .. Len(down'[c]) : q \in p + 1 .. Len(down[c]) \/ q = Len(down[c]) + 1
        BY <1>1, <2>1
      <4>2. \A q \in p + 1 .. Len(down[c]) : q \in 1 .. Len(down[c])
        BY <2>1
      <4> QED
        BY <1>1, <2>5, <4>1, <4>2 DEF CtrlFits
    <3> QED
      BY <1>2, <2>1, <2>5, <3>2, <3>3, <3>4 DEF CtrlFits
  <2>6. cpc' = cpc
    BY DEF cvars
  <2> QED
    BY <2>1, <2>3, <2>4, <2>5, <2>6 DEF Fits
<1>4. \A p \in 1 .. Len(down'[c]) : p \in 1 .. Len(down[c]) \/ p = Len(down[c]) + 1
  BY <1>1
<1> QED
  BY <1>3, <1>4 DEF Stream

\* A client's keys and the messages it has sent, while messages arrive and exchanges begin.
LEMMA HoldingGrows ==
    ASSUME NEW c \in Conn, Holding(c), UNCHANGED cvars, Growing,
           up[c] = << >> => up'[c] = << >>,
           \A p \in 1 .. Len(up'[c]) : \E q \in 1 .. Len(up[c]) : up'[c][p] = up[c][q],
           cpc[c] \in {"out", "connected", "gone"} => down'[c] = down[c],
           Len(members) \in Nat, Len(members') \in Nat, ctrl[c] \in Nat
    PROVE  Holding(c)'
<1>1. \A k : Member(c, k) => k \in 1 .. Len(members') /\ c \in members'[k]
  BY DEF Member, Growing
<1>2. (\A p \in 1 .. Len(up[c]) : up[c][p].type = "cable" => Member(c, up[c][p].under))'
  BY <1>1 DEF Holding, Member
<1>3. ctrl'[c] <= Len(members')
  BY DEF Holding, Growing, cvars, kvars
<1>4. /\ IF announced'[c] THEN Member(c, session[c])' ELSE session'[c] = 0
      /\ (\A k \in snap[c] : Member(c, k) /\ announced[c])'
      /\ cpc'[c] = "kx" => Member(c, ex[c].renewed)'
  BY <1>1 DEF Holding, Member, cvars, kvars
<1> QED
  BY <1>2, <1>3, <1>4 DEF Holding, cvars, kvars

\* The rosters after server_send_ctrl_key.
LEMMA MembersGrow ==
    ASSUME Types, NEW S \in SUBSET Conn, members' = Append(members, S)
    PROVE  /\ members' \in Seq(SUBSET Conn) /\ Len(members) \in Nat /\ Len(members') = Len(members) + 1
           /\ members'[Len(members) + 1] = S /\ Growing
<1>1. members \in Seq(SUBSET Conn)
  BY DEF Types
<1>2. /\ members' \in Seq(SUBSET Conn) /\ Len(members) \in Nat /\ Len(members') = Len(members) + 1
      /\ members'[Len(members) + 1] = S
      /\ \A k \in 1 .. Len(members) : members'[k] = members[k]
  BY <1>1, SeqFacts
<1> QED
  BY <1>2 DEF Growing

\* server_send_ctrl_key: every client in the table waits for this CTRL cable.
LEMMA CtrlKeyStep ==
    ASSUME ParcelInv, server_send_ctrl_key
    PROVE  ParcelInv'
<1> DEFINE m == Ctrl(srvkey, cnt - 1)
<1>1. PICK T \in SUBSET Connected :
      /\ dpc = "ctrl" /\ down' = Deliver(T, m) /\ srvkey' = srvkey + 1
      /\ members' = Append(members, T) /\ di' = 1 /\ round' = 0
      /\ (dpc' = "rotate" /\ T = Connected) \/ dpc' = "exited"
      /\ ~Dead /\ UNCHANGED <<rdy, sfds, cnt, cur, backlog, up, cvars>>
  BY DEF server_send_ctrl_key, SendLoop, AnnouncedRounds, FirstSlot, Dead
<1>2. Types /\ Table /\ Queue /\ Control /\ \A d \in Conn : Served(d)
  BY <1>1 DEF ParcelInv
<1>3. /\ cnt \in Nat /\ cnt > 1 /\ cnt <= Cardinality(Conn) /\ Cardinality(Conn) \in Nat
      /\ T \in SUBSET Conn /\ cnt - 1 \in Nat
  <2>1. cnt > 1
    BY <1>1, <1>2 DEF Control
  <2> QED
    BY <1>2, <2>1, TableFacts
<1>4. /\ members' \in Seq(SUBSET Conn) /\ Len(members) \in Nat /\ Len(members') = Len(members) + 1
      /\ members'[Len(members) + 1] = T /\ Growing
  BY <1>1, <1>2, <1>3, MembersGrow
<1>5. srvkey = Len(members) /\ srvkey \in Nat
  BY <1>2, <1>4 DEF Types
<1>6. /\ m \in Down /\ m.type = "ctrl" /\ m.under = srvkey /\ m.renewed = srvkey + 1 /\ m.cnt = cnt - 1
  <2>1. PICK r \in Nat : r = cnt - 1
    BY <1>3
  <2>2. /\ Ctrl(srvkey, r) \in Down /\ Ctrl(srvkey, r).type = "ctrl" /\ Ctrl(srvkey, r).under = srvkey
        /\ Ctrl(srvkey, r).renewed = srvkey + 1 /\ Ctrl(srvkey, r).cnt = r
    <3>1. srvkey \in Nat
      BY <1>5
    <3> QED
      BY ONLY <3>1, r \in Nat, Messages
  <2> QED
    BY <2>1, <2>2
<1>7. /\ down' \in [Conn -> Seq(Down)]
      /\ \A c \in Conn : /\ c \in T /\ ~Gone(c) => down'[c] = Append(down[c], m)
                         /\ c \notin T \/ Gone(c) => down'[c] = down[c]
  BY <1>1, <1>2, <1>6, Delivered
<1> HIDE DEF m
<1>8. Types'
  <2>1. dpc' \in {"scan", "twoparty", "ctrl", "rotate", "spin", "exited", "aborted"}
    BY <1>1
  <2>2. /\ srvkey' = Len(members') /\ srvkey' > 0 /\ di' \in Nat /\ 1 <= di' /\ di' <= Cardinality(Conn) + 1
        /\ round' \in Nat
    BY <1>1, <1>3, <1>4, <1>5
  <2> QED
    BY <1>1, <1>2, <1>4, <1>7, <2>1, <2>2 DEF Types, cvars, kvars
<1>9. OnlyStaleLost'
  BY <1>1 DEF ParcelInv, OnlyStaleLost, cvars
<1>10. \A c \in Connected : c \in Conn /\ Settled(c) /\ \E i \in 1 .. cnt : sfds[i] = c
  <2> TAKE c \in Connected
  <2>1. c \in Conn /\ \E i \in 1 .. cnt : sfds[i] = c
    BY <1>2, TableFacts
  <2>2. ~Fresh(c) /\ dpc # "rotate" /\ Served(c)
    BY <1>1, <1>2, <2>1 DEF Fresh
  <2> QED
    BY <2>1, <2>2 DEF Served, Progress
<1>11. ASSUME NEW c \in T, ~Gone(c)
       PROVE  /\ Promised(c) = srvkey /\ ~HasCtrl(c) /\ Promised(c)' = Promised(c)
              /\ Rem(c) \in Nat /\ Rem(c)' = Rem(c) /\ Rem(c) < Len(down[c]) + 1
              /\ Len(down[c]) \in Nat /\ Len(down'[c]) = Len(down[c]) + 1
              /\ down'[c][Len(down[c]) + 1] = m
              /\ \A p \in 1 .. Len(down[c]) : down'[c][p] = down[c][p]
              /\ cpc[c] \in {"joining", "idle", "kx"} /\ cpc'[c] = cpc[c]
              /\ cpc[c] = "kx" => Rem(c) = 1
              /\ cpc[c] = "joining" => Len(down[c]) = 1
  <2>1. c \in Conn /\ Settled(c)
    BY <1>10
  <2>2. /\ Len(down[c]) \in Nat /\ Len(down'[c]) = Len(down[c]) + 1
        /\ down'[c][Len(down[c]) + 1] = m
        /\ \A p \in 1 .. Len(down[c]) : down'[c][p] = down[c][p]
    <3>1. down[c] \in Seq(Down) /\ down'[c] = Append(down[c], m)
      BY <1>2, <1>7, <1>11, <2>1, Streams
    <3> QED
      BY <1>6, <3>1, SeqFacts
  <2>3. /\ Promised(c) = srvkey /\ ~HasCtrl(c) /\ cpc[c] \in {"joining", "idle", "kx"}
        /\ cpc[c] = "kx" => Rem(c) = 1 /\ Len(down[c]) > 0
        /\ cpc[c] = "joining" => Len(down[c]) = 1
    BY <1>11, <2>1 DEF Settled
  <2>4. /\ cpc'[c] = cpc[c] /\ ex'[c] = ex[c] /\ ctrl'[c] = ctrl[c] /\ ci'[c] = ci[c]
    BY <1>1 DEF cvars, kvars
  <2>5. Promised(c)' = Promised(c) /\ Rem(c)' = Rem(c)
    BY <2>2, <2>3, <2>4 DEF Promised, Rem
  <2>6. cpc[c] # "kx" => Rem(c) = 0
    BY DEF Rem
  <2> QED
    BY <2>2, <2>3, <2>4, <2>5, <2>6
<1>12. ASSUME NEW c \in Conn PROVE Local(c)'
  <2>1. Local(c) /\ ctrl[c] \in Nat /\ session[c] \in Nat
    BY <1>2 DEF ParcelInv, Types
  <2>2. cpc[c] \in {"out", "connected", "gone"} => down'[c] = down[c]
    BY <1>7, <1>11 DEF Gone
  <2>3. Holding(c)'
    BY <1>1, <1>4, <2>1, <2>2, HoldingGrows DEF Local
  <2>4. CASE c \in T /\ ~Gone(c)
    <3>1. HasCtrl(c)'
      BY <1>6, <1>11, <2>4 DEF HasCtrl
    <3>2. Aware(c)'
      <4>1. ASSUME NEW k \in 1 .. Len(members'), c \in members'[k], k > session'[c]
            PROVE  (cpc[c] = "kx" /\ k = ex[c].renewed) \/ (HasCtrl(c)' /\ k = Promised(c)' + 1)
        <5>1. CASE k = Len(members) + 1
          BY <1>5, <1>11, <2>4, <3>1, <5>1
        <5>2. CASE k # Len(members) + 1
          <6>1. k \in 1 .. Len(members) /\ members'[k] = members[k]
            BY <1>4, <5>2 DEF Growing
          <6>2. k > session[c]
            BY <1>1, <4>1 DEF cvars, kvars
          <6> QED
            BY <1>11, <2>1, <2>4, <4>1, <6>1, <6>2 DEF Local, Aware
        <5> QED
          BY <5>1, <5>2
      <4> QED
        BY <1>1, <1>11, <2>4, <4>1 DEF Aware, cvars, kvars
    <3>3. Stream(c)'
      <4>1. PICK n \in Nat : n = Len(down[c]) + 1
        BY <1>11, <2>4
      <4>2. down'[c][n] = m /\ n = Len(down'[c]) /\ Promised(c)' = srvkey /\ n > Rem(c)'
        BY <1>11, <2>4, <4>1
      <4>3. m.renewed <= Len(members') /\ c \in members'[m.renewed] /\ m.cnt \in 1 .. Cardinality(Conn)
        BY <1>3, <1>4, <1>5, <1>6, <2>4
      <4>4. CtrlFits(c, n)'
        BY <1>3, <1>5, <1>6, <4>2, <4>3 DEF CtrlFits
      <4>5. ~(n = 1 /\ cpc'[c] = "joining")
        <5>1. cpc[c] = "joining" => n = 2
          BY <1>11, <2>4, <4>1
        <5>2. cpc'[c] = cpc[c]
          BY <1>11, <2>4
        <5> QED
          BY <4>1, <5>1, <5>2
      <4>6. Fits(c, n)'
        BY <1>6, <4>2, <4>4, <4>5 DEF Fits
      <4>7. \A p \in 1 .. Len(down[c]) : down[c][p].type # "ctrl"
        BY <1>11, <2>4 DEF HasCtrl
      <4> QED
        BY <1>1, <1>2, <1>4, <1>6, <1>7, <1>11, <2>1, <2>4, <4>1, <4>6, <4>7, AppendStream DEF Local
    <3>4. Numbered(c)'
      <4>1. \A p \in 1 .. Len(down'[c]) : p \in 1 .. Len(down[c]) \/ down'[c][p] = m
        BY <1>11, <2>4
      <4>2. \A p \in 1 .. Len(down[c]) : down'[c][p] = down[c][p] /\ down[c][p] \in Down
        BY <1>2, <1>11, <2>4, Streams, SeqFacts
      <4>3. \A x \in Nat : x <= Len(members) => x <= Len(members')
        BY <1>4
      <4>4. \A p \in 1 .. Len(up'[c]) : up'[c][p].type = "ke" => up'[c][p].ex <= Len(members')
        <5>1. \A p \in 1 .. Len(up[c]) : up[c][p] \in Up
          BY <1>2, Streams, SeqFacts
        <5> QED
          BY <1>1, <2>1, <4>3, <5>1, UpFields DEF Local, Numbered, Number
      <4>5. ASSUME NEW p \in 1 .. Len(down'[c])
            PROVE  /\ down'[c][p].type = "skey" => down'[c][p].key <= Len(members')
                   /\ down'[c][p].type = "ke" => down'[c][p].ex <= Len(members')
                   /\ down'[c][p].type \in {"ctrl", "cable"} => down'[c][p].under <= Len(members')
        <5>1. CASE p \in 1 .. Len(down[c])
          BY <2>1, <4>2, <4>3, <5>1, DownFields DEF Local, Numbered, Number
        <5>2. CASE down'[c][p] = m
          BY <1>4, <1>5, <1>6, <5>2
        <5> QED
          BY <4>1, <5>1, <5>2
      <4>6. ctrl'[c] <= Len(members') /\ session'[c] <= Len(members')
        BY <1>1, <2>1, <4>3 DEF Local, Numbered, Number, cvars, kvars
      <4> QED
        BY <4>4, <4>5, <4>6 DEF Numbered, Number
    <3> QED
      BY <2>3, <3>2, <3>3, <3>4 DEF Local
  <2>5. CASE c \notin T \/ Gone(c)
    <3>1. down'[c] = down[c] /\ up'[c] = up[c]
      BY <1>1, <1>7, <2>5
    <3>2. Rem(c)' = Rem(c) /\ Promised(c)' = Promised(c) /\ (HasCtrl(c)' <=> HasCtrl(c))
      BY <1>1, <3>1 DEF cvars, kvars, Rem, Promised, HasCtrl
    <3>3. Aware(c)'
      <4>1. ASSUME NEW k \in 1 .. Len(members'), c \in members'[k], ~Gone(c)
            PROVE  k \in 1 .. Len(members) /\ members'[k] = members[k]
        BY <1>4, <2>5, <4>1 DEF Growing
      <4> QED
        BY <1>1, <2>1, <3>2, <4>1 DEF Local, Aware, Gone, cvars, kvars
    <3>4. Stream(c)'
      <4>1. ASSUME NEW p \in 1 .. Len(down'[c]) PROVE Fits(c, p)'
        <5>1. Fits(c, p) /\ down[c][p] \in Down
          BY <1>2, <2>1, <3>1, <4>1, Streams, SeqFacts DEF Local, Stream
        <5>2. CableFits(c, p) => CableFits(c, p)'
          BY <1>1, <3>1, <3>2 DEF CableFits, cvars, kvars
        <5>3. KeFits(c, p) => KeFits(c, p)'
          BY <1>1, <3>1, <3>2 DEF KeFits
        <5>4. ASSUME down[c][p].type = "ctrl", CtrlFits(c, p) PROVE CtrlFits(c, p)'
          <6>1. down[c][p].renewed \in 1 .. Len(members)
            BY <5>1, <5>4, DownFields DEF CtrlFits
          <6>2. down[c][p].renewed <= Len(members') /\ c \in members'[down[c][p].renewed]
            BY <1>4, <5>4, <6>1 DEF CtrlFits, Growing
          <6> QED
            BY <3>1, <3>2, <5>4, <6>2 DEF CtrlFits
        <5>5. cpc' = cpc
          BY <1>1 DEF cvars
        <5> QED
          BY <3>1, <5>1, <5>2, <5>3, <5>4, <5>5 DEF Fits
      <4> QED
        BY <4>1 DEF Stream
    <3>5. Numbered(c)'
      <4>1. \A x \in Nat : x <= Len(members) => x <= Len(members')
        BY <1>4
      <4>2. (\A p \in 1 .. Len(up[c]) : up[c][p] \in Up) /\ (\A p \in 1 .. Len(down[c]) : down[c][p] \in Down)
        BY <1>2, Streams, SeqFacts
      <4> QED
        BY <1>1, <2>1, <3>1, <4>1, <4>2, UpFields, DownFields DEF Local, Numbered, Number, cvars, kvars
    <3> QED
      BY <2>3, <3>3, <3>4, <3>5 DEF Local
  <2> QED
    BY <2>4, <2>5
<1>13. ASSUME ~Dead' PROVE Table' /\ Queue' /\ Control' /\ \A c \in Conn : Served(c)'
  <2>1. dpc' = "rotate" /\ T = Connected
    BY <1>1, <1>13 DEF Dead
  <2>2. Connected' = Connected
    BY <1>1 DEF Connected
  <2>3. Table' /\ Queue'
    BY <1>1, <1>2 DEF Table, Queue
  <2>4. Control'
    <3>1. members'[srvkey'] = Connected'
      BY <1>1, <1>4, <1>5, <2>1, <2>2
    <3>2. cnt' > 1 /\ di' = 1 /\ 1 <= cnt' /\ round' = 0 /\ 0 < cnt' - 1
      BY <1>1, <1>3
    <3> QED
      BY <2>1, <3>1, <3>2 DEF Control
  <2>5. ASSUME NEW c \in Conn PROVE Served(c)'
    <3>1. Served(c) /\ ~Fresh(c)' /\ ~Fresh(c) /\ (InQueue(c)' <=> InQueue(c))
      BY <1>1, <1>2, <2>1 DEF Fresh, InQueue
    <3>2. New(c)'
      <4>1. InQueue(c) => down'[c] = down[c]
        BY <1>7, <3>1 DEF Served, New
      <4> QED
        BY <1>1, <2>2, <3>1, <4>1 DEF Served, New, cvars
    <3>3. Pass(c)'
      BY <1>1, <2>2, <3>1 DEF Served, Pass, Gone, cvars
    <3>4. ASSUME NEW i \in 1 .. cnt', sfds'[i] = c PROVE Exchange(i, c)'
      <4>1. c \in Connected /\ c \in T /\ Settled(c) /\ i \in Nat
        BY <1>1, <1>10, <2>1, <3>4 DEF Connected
      <4>2. Taken(i)' = 0 /\ Given(i)' = 0
        BY <1>1, <4>1 DEF Taken, Given
      <4>3. /\ up'[c] = up[c] /\ \A p \in 1 .. Len(up'[c]) : up'[c][p].type = "cable"
        BY <1>1, <4>1 DEF Settled
      <4>4. KeCount(up[c])' = 0
        <5>1. KeCount(up'[c]) = 0
          BY <1>2, <4>3, KeNone, Streams
        <5> QED
          BY <5>1 DEF KeCount, KeSet
      <4>5. ASSUME ~Gone(c) PROVE Waiting(i, c)'
        <5>1. PICK n \in Nat : n = Len(down[c]) + 1
          BY <1>11, <4>1, <4>5
        <5>2. down'[c][n] = m /\ n = Len(down'[c]) /\ n \in 1 .. Len(down'[c])
          BY <1>11, <4>1, <4>5, <5>1
        <5>3. Promised(c)' = srvkey' - 1
          BY <1>1, <1>5, <1>11, <4>1, <4>5
        <5>4. cpc'[c] = "kx" => Rem(c)' = 1
          BY <1>11, <4>1, <4>5
        <5>5. down'[c][n].type = "ctrl" /\ down'[c][n].cnt = cnt' - 1 /\ Len(down'[c]) = n + Given(i)'
          BY <1>1, <1>6, <4>2, <5>2
        <5> QED
          BY <4>2, <4>4, <5>2, <5>3, <5>4, <5>5 DEF Waiting
      <4>6. ~Gone(c)' => ~Gone(c)
        BY <1>1 DEF Gone, cvars
      <4>7. KeCount(up[c])' + Taken(i)' <= cnt' - 1
        BY <1>1, <1>3, <4>2, <4>4
      <4> QED
        BY <4>3, <4>5, <4>6, <4>7 DEF Exchange
    <3>5. Progress(c)'
      BY <2>1, <3>4 DEF Progress
    <3> QED
      BY <3>2, <3>3, <3>5 DEF Served
  <2> QED
    BY <2>3, <2>4, <2>5
<1> QED
  BY <1>8, <1>9, <1>12, <1>13 DEF ParcelInv

\* A cable or an intermediate key that fits the end of a client's stream.
LEMMA DeliverLocal ==
    ASSUME Types, NEW c \in Conn, Local(c), NEW m \in Down, m.type \in {"cable", "ke"},
           down'[c] = Append(down[c], m), UNCHANGED cvars, members' = members,
           up[c] = << >> => up'[c] = << >>,
           \A p \in 1 .. Len(up'[c]) : \E q \in 1 .. Len(up[c]) : up'[c][p] = up[c][q],
           cpc[c] \in {"joining", "idle", "kx"}, cpc[c] = "joining" => Len(down[c]) > 0,
           m.type = "cable" => m.under <= Len(members), m.type = "ke" => m.ex <= Len(members),
           NEW n \in Nat, n = Len(down[c]) + 1,
           m.type = "cable" => CableFits(c, n)', m.type = "ke" => KeFits(c, n)',
           \A p \in 1 .. Len(down[c]) : down[c][p].type = "ctrl" =>
              m.type = "ke" /\ m.ex = Promised(c) + 1 /\ Len(down[c]) + 1 - p <= down[c][p].cnt
    PROVE  /\ Local(c)' /\ Promised(c)' = Promised(c) /\ Rem(c)' = Rem(c) /\ (HasCtrl(c)' <=> HasCtrl(c))
<1>1. /\ Len(down[c]) \in Nat /\ Len(down'[c]) = n /\ down'[c][n] = m
      /\ \A p \in 1 .. Len(down[c]) : down'[c][p] = down[c][p]
      /\ \A p \in 1 .. Len(down'[c]) : p \in 1 .. Len(down[c]) \/ p = n
  <2>1. down[c] \in Seq(Down)
    BY DEF Types
  <2> QED
    BY <2>1, SeqFacts
<1>2. Promised(c)' = Promised(c) /\ Rem(c)' = Rem(c)
  BY <1>1 DEF Promised, Rem, cvars, kvars
<1>3. HasCtrl(c)' <=> HasCtrl(c)
  <2>1. 1 .. Len(down[c]) \subseteq 1 .. Len(down'[c])
    BY <1>1
  <2> QED
    BY <1>1, <2>1 DEF HasCtrl
<1>4. Len(members) \in Nat /\ ctrl[c] \in Nat /\ Growing
  <2>1. members \in Seq(SUBSET Conn) /\ ctrl[c] \in Nat
    BY DEF Types
  <2> QED
    BY <2>1, SeqFacts DEF Growing
<1>5. Holding(c)'
  BY <1>4, HoldingGrows DEF Local
<1>6. Aware(c)'
  BY <1>2, <1>3 DEF Local, Aware, Gone, cvars, kvars
<1>7. Stream(c)'
  <2>1. cpc'[c] = cpc[c] /\ ~(n = 1 /\ cpc[c] = "joining")
    BY <1>1 DEF cvars
  <2>2. Fits(c, n)'
    BY <1>1, <2>1 DEF Fits
  <2> QED
    BY <1>2, <1>4, <2>2, AppendStream DEF Local
<1>8. Numbered(c)'
  <2>1. \A p \in 1 .. Len(up'[c]) : up'[c][p].type = "ke" => up'[c][p].ex <= Len(members')
    BY DEF Local, Numbered, Number
  <2>2. ASSUME NEW p \in 1 .. Len(down'[c])
        PROVE  /\ down'[c][p].type = "skey" => down'[c][p].key <= Len(members')
               /\ down'[c][p].type = "ke" => down'[c][p].ex <= Len(members')
               /\ down'[c][p].type \in {"ctrl", "cable"} => down'[c][p].under <= Len(members')
    BY <1>1 DEF Local, Numbered, Number
  <2> QED
    BY <2>1, <2>2 DEF Local, Numbered, Number, cvars, kvars
<1> QED
  BY <1>2, <1>3, <1>5, <1>6, <1>7, <1>8 DEF Local

\* What is left of a stream after a read.
LEMMA ReadUp ==
    ASSUME Types, NEW c \in Conn, up[c] # << >>, up' = [up EXCEPT ![c] = Tail(@)]
    PROVE  /\ up' \in [Conn -> Seq(Up)] /\ up'[c] = Tail(up[c])
           /\ \A d \in Conn : d # c => up'[d] = up[d]
           /\ \A d \in Conn : /\ up[d] = << >> => up'[d] = << >>
                              /\ \A p \in 1 .. Len(up'[d]) : \E q \in 1 .. Len(up[d]) : up'[d][p] = up[d][q]
           /\ KeCount(up[c])' = KeCount(up[c]) - IF up[c][1].type = "ke" THEN 1 ELSE 0
<1>1. up[c] \in Seq(Up)
  BY DEF Types
<1>2. /\ Tail(up[c]) \in Seq(Up) /\ Len(Tail(up[c])) = Len(up[c]) - 1 /\ Len(up[c]) \in Nat
      /\ \A p \in 1 .. Len(up[c]) - 1 : Tail(up[c])[p] = up[c][p + 1]
  BY <1>1, SeqFacts
<1>3. /\ up' \in [Conn -> Seq(Up)] /\ up'[c] = Tail(up[c])
      /\ \A d \in Conn : d # c => up'[d] = up[d]
  BY <1>2 DEF Types
<1>4. \A p \in 1 .. Len(up'[c]) : \E q \in 1 .. Len(up[c]) : up'[c][p] = up[c][q]
  <2> TAKE p \in 1 .. Len(up'[c])
  <2>1. p + 1 \in 1 .. Len(up[c]) /\ up'[c][p] = up[c][p + 1]
    BY <1>2, <1>3
  <2> QED
    BY <2>1
<1>5. KeCount(up[c])' = KeCount(up[c]) - IF up[c][1].type = "ke" THEN 1 ELSE 0
  <2>1. KeCount(up[c]) \in Nat /\ KeCount(Tail(up[c])) \in Nat
    BY <1>1, <1>2, KeNone
  <2>2. KeCount(up[c])' = KeCount(Tail(up[c]))
    BY <1>3 DEF KeCount, KeSet
  <2> QED
    BY <1>1, <2>1, <2>2, KeTail
<1> QED
  BY <1>3, <1>4, <1>5

\* transfer_message: a cable reaches everybody else in step with the control key.
LEMMA TransferStep ==
    ASSUME ParcelInv, NEW c \in Conn, transfer_message(c)
    PROVE  ParcelInv'
<1> DEFINE h == Head(up[c])
           m == Relayed(h)
<1>1. /\ dpc = "scan" /\ Listener \notin rdy /\ c \in rdy /\ up[c] # << >> /\ ~Dead
      /\ rdy' = rdy \ {c} /\ up' = [up EXCEPT ![c] = Tail(@)]
      /\ UNCHANGED <<sfds, cnt, cur, di, round, srvkey, members, backlog, cvars>>
  BY DEF transfer_message, Dead
<1>2. Types /\ Table /\ Queue /\ Control /\ \A d \in Conn : Served(d)
  BY <1>1 DEF ParcelInv
<1>3. c \in Connected /\ Settled(c)
  <2>1. c \in Connected
    BY <1>1, <1>2 DEF Served, Pass
  <2>2. PICK i \in 1 .. cnt : sfds[i] = c
    BY <1>2, <2>1, TableFacts
  <2>3. ~Fresh(c) /\ Progress(c)
    BY <1>1, <1>2 DEF Fresh, Served
  <2> QED
    BY <1>1, <2>1, <2>2, <2>3 DEF Progress
<1>4. h \in Up /\ h = up[c][1] /\ h.type = "cable" /\ h.under \in Nat /\ h.under <= Len(members)
  <2>1. h \in Up /\ h = up[c][1] /\ 1 \in 1 .. Len(up[c])
    BY <1>1, <1>2, Streams
  <2>2. h.type = "cable"
    BY <1>3, <2>1 DEF Settled
  <2>3. Member(c, h.under)
    BY <2>1, <2>2 DEF ParcelInv, Local, Holding
  <2> QED
    BY <2>1, <2>2, <2>3, UpFields DEF Member
<1>5. PICK T \in SUBSET (Connected \ {c}) :
      down' = Deliver(T, m) /\ ((dpc' = "scan" /\ T = Connected \ {c}) \/ dpc' = "exited")
  BY <1>4 DEF transfer_message, SendLoop
<1>6. /\ m \in Down /\ m.type = "cable" /\ m.under = h.under
      /\ m.current => m.under = srvkey
  <2> HIDE DEF h
  <2> QED
    BY <1>4 DEF Relayed, Down
<1>7. /\ down' \in [Conn -> Seq(Down)]
      /\ \A d \in Conn : /\ d \in T /\ ~Gone(d) => down'[d] = Append(down[d], m)
                         /\ d \notin T \/ Gone(d) => down'[d] = down[d]
  BY <1>2, <1>5, <1>6, Delivered
<1> HIDE DEF m, h
<1>8. /\ up' \in [Conn -> Seq(Up)] /\ up'[c] = Tail(up[c])
      /\ \A d \in Conn : d # c => up'[d] = up[d]
      /\ \A d \in Conn : /\ up[d] = << >> => up'[d] = << >>
                         /\ \A p \in 1 .. Len(up'[d]) : \E q \in 1 .. Len(up[d]) : up'[d][p] = up[d][q]
  BY <1>1, <1>2, ReadUp
<1>9. Types'
  <2>1. dpc' \in {"scan", "twoparty", "ctrl", "rotate", "spin", "exited", "aborted"}
    BY <1>1, <1>5
  <2> QED
    BY <1>1, <1>2, <1>7, <1>8, <2>1 DEF Types, cvars, kvars
<1>10. OnlyStaleLost'
  BY <1>1 DEF ParcelInv, OnlyStaleLost, cvars
<1>11. ASSUME NEW d \in Conn, d \in Connected \ {c}, ~Gone(d)
       PROVE  Settled(d) /\ cnt > 1
  <2>1. PICK i \in 1 .. cnt : sfds[i] = d
    BY <1>2, <1>11, TableFacts
  <2>2. PICK j \in 1 .. cnt : sfds[j] = c
    BY <1>2, <1>3, TableFacts
  <2>3. cnt > 1
    <3>1. i # j
      BY <1>11, <2>1, <2>2
    <3>2. cnt \in Nat
      BY <1>2 DEF Types
    <3> QED
      BY <3>1, <3>2
  <2>4. ~Fresh(d) /\ Progress(d)
    BY <1>1, <1>2 DEF Fresh, Served
  <2> QED
    BY <1>1, <2>1, <2>3, <2>4 DEF Progress
<1>12. ASSUME NEW d \in Conn, d \in T, ~Gone(d)
       PROVE  /\ Local(d)' /\ Promised(d)' = Promised(d) /\ Rem(d)' = Rem(d)
              /\ (HasCtrl(d)' <=> HasCtrl(d)) /\ Len(down'[d]) = Len(down[d]) + 1 /\ Len(down[d]) \in Nat
  <2>1. /\ cpc[d] \in {"idle", "kx"} /\ ~HasCtrl(d) /\ Promised(d) = srvkey
        /\ cpc[d] = "kx" => Rem(d) = 1 /\ Len(down[d]) > 0
        /\ cpc[d] = "idle" => announced[d]
    BY <1>1, <1>11, <1>12 DEF Settled
  <2>2. down[d] \in Seq(Down) /\ down'[d] = Append(down[d], m) /\ Len(down[d]) \in Nat
    BY <1>2, <1>7, <1>12, Streams
  <2>3. PICK n \in Nat : n = Len(down[d]) + 1
    BY <2>2
  <2>4. down'[d][n] = m /\ Len(down'[d]) = Len(down[d]) + 1
    BY <1>6, <2>2, <2>3, SeqFacts
  <2>5. cpc'[d] = cpc[d] /\ announced'[d] = announced[d] /\ ex'[d] = ex[d] /\ ci'[d] = ci[d] /\ ctrl'[d] = ctrl[d]
    BY <1>1 DEF cvars, kvars
  <2>6. Rem(d)' = Rem(d) /\ Promised(d)' = Promised(d)
    BY <2>1, <2>5 DEF Rem, Promised
  <2>7. n > Rem(d)
    <3>1. cpc[d] = "idle" => Rem(d) = 0
      BY DEF Rem
    <3> QED
      BY <2>1, <2>2, <2>3, <3>1
  <2>8. CableFits(d, n)'
    BY <1>6, <2>1, <2>4, <2>5, <2>6, <2>7 DEF CableFits
  <2>9. \A p \in 1 .. Len(down[d]) : down[d][p].type # "ctrl"
    BY <2>1 DEF HasCtrl
  <2>10. Local(d) /\ m.type \in {"cable", "ke"} /\ m.type # "ke" /\ m.under <= Len(members)
    BY <1>4, <1>6 DEF ParcelInv
  <2>11. UNCHANGED cvars /\ members' = members
    BY <1>1
  <2>12. /\ up[d] = << >> => up'[d] = << >>
         /\ \A p \in 1 .. Len(up'[d]) : \E q \in 1 .. Len(up[d]) : up'[d][p] = up[d][q]
    BY <1>8
  <2>13. \A p \in 1 .. Len(down[d]) : down[d][p].type = "ctrl" =>
            m.type = "ke" /\ m.ex = Promised(d) + 1 /\ Len(down[d]) + 1 - p <= down[d][p].cnt
    BY <2>9
  <2>14. Local(d)' /\ (HasCtrl(d)' <=> HasCtrl(d))
    BY <1>2, <1>6, <2>1, <2>2, <2>3, <2>8, <2>10, <2>11, <2>12, <2>13, DeliverLocal
  <2> QED
    BY <2>2, <2>4, <2>6, <2>14
<1>13. ASSUME NEW d \in Conn PROVE Local(d)'
  <2>1. CASE d \in T /\ ~Gone(d)
    BY <1>12, <2>1
  <2>2. CASE ~(d \in T /\ ~Gone(d))
    <3>1. down'[d] = down[d]
      BY <1>7, <2>2
    <3> QED
      BY <1>1, <1>8, <3>1, ReadLocal DEF ParcelInv
  <2> QED
    BY <2>1, <2>2
<1>14. ASSUME ~Dead' PROVE Table' /\ Queue' /\ Control' /\ \A d \in Conn : Served(d)'
  <2>1. dpc' = "scan" /\ T = Connected \ {c}
    BY <1>5, <1>14 DEF Dead
  <2>2. Connected' = Connected
    BY <1>1 DEF Connected
  <2>3. Table' /\ Queue' /\ Control'
    BY <1>1, <1>2, <2>1, <2>2 DEF Table, Queue, Control
  <2>4. ASSUME NEW d \in Conn PROVE Served(d)'
    <3>1. Served(d) /\ ~Fresh(d)' /\ ~Fresh(d) /\ (InQueue(d)' <=> InQueue(d))
      BY <1>1, <1>2, <2>1 DEF Fresh, InQueue
    <3>2. New(d)'
      <4>1. InQueue(d) => down'[d] = down[d] /\ up'[d] = up[d]
        BY <1>3, <1>7, <1>8, <3>1 DEF Served, New
      <4> QED
        BY <1>1, <2>2, <3>1, <4>1 DEF Served, New, cvars
    <3>3. Pass(d)'
      BY <1>1, <1>8, <2>2, <3>1 DEF Served, Pass, Gone, cvars
    <3>4. ASSUME Settled(d), d \in Connected PROVE Settled(d)'
      <4>1. \A p \in 1 .. Len(up'[d]) : up'[d][p].type = "cable"
        BY <1>8, <3>4 DEF Settled
      <4>2. CASE Gone(d)
        BY <1>1, <4>1, <4>2 DEF Settled, Gone, cvars
      <4>3. CASE ~Gone(d) /\ d # c
        <5>1. /\ Promised(d)' = Promised(d) /\ Rem(d)' = Rem(d)
              /\ (HasCtrl(d)' <=> HasCtrl(d)) /\ Len(down'[d]) = Len(down[d]) + 1 /\ Len(down[d]) \in Nat
          BY <1>12, <2>1, <3>4, <4>3
        <5>2. cnt > 1
          BY <1>11, <3>4, <4>3
        <5>3. cpc'[d] = cpc[d] /\ announced'[d] = announced[d] /\ cnt' = cnt /\ srvkey' = srvkey
          BY <1>1 DEF cvars, kvars
        <5>4. cpc[d] # "joining"
          BY <1>1, <3>4, <4>3, <5>2 DEF Settled
        <5> QED
          BY <1>1, <3>4, <4>1, <4>3, <5>1, <5>2, <5>3, <5>4 DEF Settled, Gone
      <4>4. CASE d = c
        <5>1. down'[d] = down[d]
          BY <1>7, <4>4
        <5>2. /\ cpc'[d] = cpc[d] /\ announced'[d] = announced[d] /\ cnt' = cnt /\ srvkey' = srvkey
              /\ Promised(d)' = Promised(d) /\ Rem(d)' = Rem(d) /\ (HasCtrl(d)' <=> HasCtrl(d))
          BY <1>1, <5>1 DEF cvars, kvars, Promised, Rem, HasCtrl
        <5> QED
          BY <1>1, <2>1, <3>4, <4>1, <5>1, <5>2 DEF Settled, Gone
      <4> QED
        BY <4>2, <4>3, <4>4
    <3>5. Progress(d)'
      BY <1>1, <2>1, <3>1, <3>4 DEF Served, Progress, Connected
    <3> QED
      BY <3>2, <3>3, <3>5 DEF Served
  <2> QED
    BY <2>3, <2>4
<1> QED
  BY <1>9, <1>10, <1>13, <1>14 DEF ParcelInv

\* One iteration of rotate_intermediates counts for one slot on either side.
LEMMA Counts ==
    ASSUME Types, cnt > 1, di <= cnt, round < cnt - 1, NEW t \in Nat,
           t = IF di = cnt THEN 1 ELSE di + 1, di' = t, cnt' = cnt,
           round' = IF di = cnt THEN round + 1 ELSE round
    PROVE  /\ t \in 1 .. cnt /\ t # di /\ Given(t) = round
           /\ \A j \in 1 .. cnt : /\ Taken(j) \in Nat /\ Given(j) \in Nat /\ Given(j) <= cnt - 1
                                  /\ Taken(j)' = Taken(j) + IF j = di THEN 1 ELSE 0
                                  /\ Given(j)' = Given(j) + IF j = t THEN 1 ELSE 0
                                  /\ di = cnt => Taken(j)' = round + 1 /\ Given(j)' = round + 1
<1>1. cnt \in Nat /\ di \in Nat /\ 1 <= di /\ round \in Nat
  BY DEF Types
<1>2. CASE di = cnt
  BY <1>1, <1>2 DEF Taken, Given
<1>3. CASE di # cnt
  BY <1>1, <1>3 DEF Taken, Given
<1> QED
  BY <1>2, <1>3

\* A client whose turn it is to be read from.
LEMMA ExchangeRead ==
    ASSUME Types, NEW c \in Conn, NEW i \in Nat, Exchange(i, c), up[c] # << >>, up[c][1].type = "ke",
           up' = [up EXCEPT ![c] = Tail(@)], down'[c] = down[c], UNCHANGED cvars,
           cnt' = cnt, srvkey' = srvkey, Taken(i) \in Nat, Taken(i)' = Taken(i) + 1, Given(i)' = Given(i)
    PROVE  Exchange(i, c)'
<1>1. /\ up'[c] = Tail(up[c]) /\ KeCount(up[c])' = KeCount(up[c]) - 1
      /\ \A p \in 1 .. Len(up'[c]) : \E q \in 1 .. Len(up[c]) : up'[c][p] = up[c][q]
  BY ReadUp
<1>2. KeCount(up[c]) \in Nat /\ KeCount(up[c]) # 0
  <2>1. up[c] \in Seq(Up) /\ 1 \in 1 .. Len(up[c])
    BY Streams
  <2> QED
    BY <2>1, KeNone
<1>3. KeCount(up[c])' + Taken(i)' = KeCount(up[c]) + Taken(i)
  BY <1>1, <1>2
<1>4. \A p \in 1 .. Len(up'[c]) :
         up'[c][p].type # "pub" /\ (up'[c][p].type = "ke" => up'[c][p].ex = srvkey)
  BY <1>1 DEF Exchange
<1>5. Promised(c)' = Promised(c) /\ Rem(c)' = Rem(c) /\ (HasCtrl(c)' <=> HasCtrl(c))
  BY DEF Promised, Rem, HasCtrl, cvars, kvars
<1>6. ~Waiting(i, c)
  BY <1>2 DEF Waiting
<1>7. Running(i, c) => Running(i, c)'
  BY <1>3, <1>5 DEF Running, cvars, kvars
<1>8. Done(i, c) => Done(i, c)'
  BY <1>3 DEF Done, cvars, kvars
<1> QED
  BY <1>3, <1>4, <1>6, <1>7, <1>8 DEF Exchange, Gone, cvars

\* A client that gets an intermediate key while there are more to come.
LEMMA ExchangeWrite ==
    ASSUME ParcelInv, NEW c \in Conn, NEW i \in Nat, Exchange(i, c), ~Gone(c), NEW m \in Down,
           m.type = "ke", m.ex = srvkey, down'[c] = Append(down[c], m), up'[c] = up[c], UNCHANGED cvars,
           cnt' = cnt, srvkey' = srvkey, members' = members, cnt \in Nat,
           Given(i) \in Nat, Given(i) < cnt - 1
    PROVE  /\ Local(c)'
           /\ Taken(i)' = Taken(i) /\ Given(i)' = Given(i) + 1 => Exchange(i, c)'
<1>1. /\ Types /\ down[c] \in Seq(Down) /\ Len(down[c]) \in Nat
      /\ Len(down'[c]) = Len(down[c]) + 1 /\ down'[c][Len(down[c]) + 1] = m
      /\ \A p \in 1 .. Len(down[c]) : down'[c][p] = down[c][p]
  <2>1. Types /\ down[c] \in Seq(Down)
    BY DEF ParcelInv, Types
  <2> QED
    BY <2>1, SeqFacts
<1>2. PICK n \in Nat : n = Len(down[c]) + 1
  BY <1>1
<1>3. ~Done(i, c)
  BY DEF Done
<1>4. srvkey = Len(members) /\ srvkey \in Nat /\ Local(c)
  <2>1. members \in Seq(SUBSET Conn) /\ srvkey = Len(members) /\ Local(c)
    BY DEF ParcelInv, Types
  <2> QED
    BY <2>1, SeqFacts
<1>5. cpc'[c] = cpc[c] /\ ex'[c] = ex[c] /\ ci'[c] = ci[c] /\ ctrl'[c] = ctrl[c]
  BY DEF cvars, kvars
<1>6. KeCount(up[c])' = KeCount(up[c])
  BY DEF KeCount, KeSet
<1>7. /\ up[c] = << >> => up'[c] = << >>
      /\ \A p \in 1 .. Len(up'[c]) : \E q \in 1 .. Len(up[c]) : up'[c][p] = up[c][q]
  OBVIOUS
<1>8. m.type \in {"cable", "ke"} /\ m.type # "cable" /\ m.ex <= Len(members) /\ UNCHANGED cvars /\ members' = members
  <2>1. Len(members) \in Nat
    BY <1>4
  <2> QED
    BY <1>4, <2>1
<1>9. CASE Waiting(i, c)
  <2>1. PICK p \in 1 .. Len(down[c]) : /\ down[c][p].type = "ctrl" /\ down[c][p].cnt = cnt - 1
                                       /\ Len(down[c]) = p + Given(i)
    BY <1>9 DEF Waiting
  <2>2. CtrlFits(c, p) /\ p \in Nat
    BY <1>1, <1>4, <2>1 DEF Local, Stream, Fits
  <2>3. \A q \in 1 .. Len(down[c]) : down[c][q].type = "ctrl" => q = p
    <3>1. ASSUME NEW q \in 1 .. Len(down[c]), down[c][q].type = "ctrl" PROVE q = p
      <4>1. CtrlFits(c, q) /\ q \in Nat
        BY <1>1, <1>4, <3>1 DEF Local, Stream, Fits
      <4>2. ~(q \in p + 1 .. Len(down[c]))
        BY <2>2, <3>1 DEF CtrlFits
      <4>3. ~(p \in q + 1 .. Len(down[c]))
        BY <2>1, <4>1 DEF CtrlFits
      <4> QED
        BY <2>2, <4>1, <4>2, <4>3
    <3> QED
      BY <3>1
  <2>4. Promised(c) = srvkey - 1 /\ srvkey = Promised(c) + 1
    BY <1>4, <1>9 DEF Waiting
  <2>5. Len(down[c]) + 1 - p <= cnt - 1
    <3>1. Len(down[c]) = p + Given(i)
      BY <2>1
    <3> QED
      BY <1>1, <2>2, <3>1
  <2>6. \A q \in 1 .. Len(down[c]) : down[c][q].type = "ctrl" =>
           m.type = "ke" /\ m.ex = Promised(c) + 1 /\ Len(down[c]) + 1 - q <= down[c][q].cnt
    BY <2>1, <2>3, <2>4, <2>5
  <2>7. KeFits(c, n)'
    <3>1. p \in 1 .. n - 1 /\ down'[c][p].type = "ctrl"
      BY <1>1, <1>2, <2>1
    <3> QED
      BY <3>1 DEF KeFits
  <2>8. cpc[c] \in {"joining", "idle", "kx"} /\ Len(down[c]) > 0
    <3>1. Len(down[c]) > 0
      BY <1>1, <2>1
    <3>2. down[c] # << >>
      BY <1>1, <3>1, SeqFacts
    <3>3. cpc[c] \in {"out", "connected", "joining", "idle", "kx", "gone"}
      BY DEF ParcelInv, Types
    <3> QED
      BY <1>4, <3>1, <3>2, <3>3 DEF Local, Holding
  <2>9. /\ Local(c)' /\ Promised(c)' = Promised(c) /\ Rem(c)' = Rem(c)
    <3>1. down'[c] = Append(down[c], m) /\ (cpc[c] = "joining" => Len(down[c]) > 0)
      BY <2>8
    <3>2. cpc[c] \in {"joining", "idle", "kx"} /\ (m.type = "ke" => KeFits(c, n)')
      BY <2>7, <2>8
    <3> QED
      BY <1>1, <1>2, <1>4, <1>7, <1>8, <2>6, <3>1, <3>2, DeliverLocal
  <2>10. ASSUME Taken(i)' = Taken(i), Given(i)' = Given(i) + 1 PROVE Exchange(i, c)'
    <3>1. p \in 1 .. Len(down'[c]) /\ down'[c][p].type = "ctrl" /\ down'[c][p].cnt = cnt' - 1
      <4>1. down'[c][p] = down[c][p]
        BY <1>1, <2>1
      <4>2. p \in 1 .. Len(down'[c])
        BY <1>1, <2>1
      <4>3. down[c][p].type = "ctrl" /\ down[c][p].cnt = cnt - 1
        BY <2>1
      <4> QED
        BY <4>1, <4>2, <4>3
    <3>2. Len(down'[c]) = p + Given(i)'
      <4>1. Len(down[c]) = p + Given(i)
        BY <2>1
      <4> QED
        BY <1>1, <2>2, <2>10, <4>1
    <3>3. Waiting(i, c)'
      BY <1>5, <1>6, <1>9, <2>9, <2>10, <3>1, <3>2 DEF Waiting
    <3> QED
      BY <1>6, <2>10, <3>3 DEF Exchange
  <2> QED
    BY <2>9, <2>10
<1>10. CASE Running(i, c)
  <2>1. /\ cpc[c] = "kx" /\ ex[c].renewed = srvkey /\ ex[c].cnt = cnt - 1
        /\ Len(down[c]) + ci[c] = Given(i) /\ ~HasCtrl(c)
    BY <1>10 DEF Running
  <2>2. ci[c] \in Nat /\ Promised(c) = srvkey /\ Rem(c) = (cnt - 1) - ci[c]
    BY <1>1, <2>1 DEF Types, Promised, Rem
  <2>3. n <= Rem(c)
    BY <1>1, <1>2, <2>1, <2>2
  <2>4. KeFits(c, n)'
    <3>1. Rem(c)' = Rem(c) /\ Promised(c)' = Promised(c)
      BY <1>5, <2>1 DEF Rem, Promised
    <3> QED
      BY <1>1, <1>2, <2>2, <2>3, <3>1 DEF KeFits
  <2>5. \A q \in 1 .. Len(down[c]) : down[c][q].type = "ctrl" =>
           m.type = "ke" /\ m.ex = Promised(c) + 1 /\ Len(down[c]) + 1 - q <= down[c][q].cnt
    BY <2>1 DEF HasCtrl
  <2>6. Local(c)' /\ (HasCtrl(c)' <=> HasCtrl(c))
    <3>1. down'[c] = Append(down[c], m) /\ (cpc[c] = "joining" => Len(down[c]) > 0)
      BY <2>1
    <3>2. cpc[c] \in {"joining", "idle", "kx"} /\ (m.type = "ke" => KeFits(c, n)')
      BY <2>1, <2>4
    <3> QED
      BY <1>1, <1>2, <1>4, <1>7, <1>8, <2>5, <3>1, <3>2, DeliverLocal
  <2>7. ASSUME Taken(i)' = Taken(i), Given(i)' = Given(i) + 1 PROVE Exchange(i, c)'
    <3>1. Len(down'[c]) + ci'[c] = Given(i)'
      BY <1>1, <1>5, <2>1, <2>2, <2>7
    <3>2. Running(i, c)'
      BY <1>5, <1>6, <1>10, <2>6, <2>7, <3>1 DEF Running
    <3> QED
      BY <1>6, <2>7, <3>2 DEF Exchange
  <2> QED
    BY <2>6, <2>7
<1> QED
  BY <1>3, <1>9, <1>10 DEF Exchange

\* After the last round everybody is at the end of the exchange or through with it.
LEMMA Settles ==
    ASSUME Types', NEW c \in Conn, NEW i \in Nat, Exchange(i, c)', cnt' > 1,
           Taken(i)' = cnt' - 1, Given(i)' = cnt' - 1
    PROVE  Settled(c)'
<1>1. up'[c] \in Seq(Up) /\ down'[c] \in Seq(Down) /\ cnt' \in Nat /\ ci'[c] \in Nat
  BY DEF Types
<1>2. KeCount(up'[c]) \in Nat /\ Len(down'[c]) \in Nat
  BY <1>1, KeNone, SeqFacts
<1>3. KeCount(up'[c]) + Taken(i)' <= cnt' - 1
  BY DEF Exchange
<1>4. KeCount(up'[c]) = 0
  BY <1>1, <1>2, <1>3
<1>5. ASSUME NEW p \in 1 .. Len(up'[c]) PROVE up'[c][p].type = "cable"
  <2>1. up'[c][p] \in Up
    BY <1>1, <1>5, SeqFacts
  <2>2. up'[c][p].type # "ke"
    BY <1>1, <1>4, <1>5, KeNone
  <2>3. up'[c][p].type # "pub"
    BY <1>5 DEF Exchange
  <2> QED
    BY <2>1, <2>2, <2>3, UpFields
<1>6. ~Waiting(i, c)'
  BY <1>1 DEF Waiting
<1>7. ASSUME Running(i, c)'
      PROVE  /\ cpc'[c] = "kx" /\ ~HasCtrl(c)' /\ Promised(c)' = srvkey' /\ Rem(c)' = 1 /\ Len(down'[c]) > 0
  <2>1. /\ cpc'[c] = "kx" /\ ~HasCtrl(c)' /\ ex'[c].renewed = srvkey' /\ ex'[c].cnt = cnt' - 1
        /\ Len(down'[c]) + ci'[c] = Given(i)' /\ KeCount(up'[c]) + Taken(i)' = ci'[c] + 1
    BY <1>7 DEF Running
  <2>2. ci'[c] = cnt' - 2 /\ Len(down'[c]) > 0
    BY <1>1, <1>2, <1>4, <2>1
  <2>3. Rem(c)' = 1
    <3>1. ex'[c].cnt = cnt' - 1 /\ ci'[c] = cnt' - 2
      BY <2>1, <2>2
    <3>2. Rem(c)' = (cnt' - 1) - (cnt' - 2)
      BY <2>1, <3>1 DEF Rem
    <3>3. \A n \in Nat : (n - 1) - (n - 2) = 1
      OBVIOUS
    <3> QED
      BY ONLY <1>1, <3>2, <3>3
  <2> QED
    BY <2>1, <2>2, <2>3 DEF Promised
<1>8. ASSUME Done(i, c)'
      PROVE  cpc'[c] = "idle" /\ announced'[c] /\ ~HasCtrl(c)' /\ Promised(c)' = srvkey'
  <2>1. cpc'[c] = "idle" /\ announced'[c] /\ ctrl'[c] = srvkey' /\ down'[c] = << >>
    BY <1>8 DEF Done
  <2>2. Len(down'[c]) = 0
    BY <1>1, <2>1, SeqFacts
  <2> QED
    BY <2>1, <2>2 DEF HasCtrl, Promised
<1>9. ASSUME ~Gone(c)' PROVE Running(i, c)' \/ Done(i, c)'
  BY <1>6, <1>9 DEF Exchange
<1> QED
  BY <1>5, <1>7, <1>8, <1>9 DEF Settled

\* Reading from one client and writing to the next.
LEMMA RotateRead ==
    ASSUME ParcelInv, NEW f \in Conn, NEW g \in Conn, NEW t \in Nat, f = sfds[di], g = sfds[t], f # g,
           di \in 1 .. cnt, t \in 1 .. cnt, t = IF di = cnt THEN 1 ELSE di + 1,
           dpc = "rotate", up[f] # << >>, up' = [up EXCEPT ![f] = Tail(@)],
           ~ke_rcv(Head(up[f])) => dpc' = "exited" /\ UNCHANGED <<di, round, down>>,
           ke_rcv(Head(up[f])) =>
              /\ down' = Deliver({g}, Head(up[f])) /\ di' = t
              /\ round' = IF di = cnt THEN round + 1 ELSE round
              /\ dpc' \in MayFail(g, IF di = cnt /\ round + 1 = cnt - 1 THEN "scan" ELSE "rotate"),
           UNCHANGED <<rdy, sfds, cnt, cur, srvkey, members, backlog, cvars>>
    PROVE  ParcelInv'
<1> DEFINE h == Head(up[f])
<1>1. /\ Types /\ Table /\ Queue /\ Control /\ (\A d \in Conn : Served(d))
      /\ cnt > 1 /\ di <= cnt /\ round < cnt - 1 /\ members[srvkey] = Connected
  <2>1. ~Dead
    BY DEF Dead
  <2> QED
    BY <2>1 DEF ParcelInv, Control
<1>2. h \in Up /\ h = up[f][1] /\ 1 \in 1 .. Len(up[f])
  BY <1>1, Streams
<1>3. Exchange(di, f) /\ Exchange(t, g)
  BY <1>1 DEF Served, Progress
<1>4. /\ up' \in [Conn -> Seq(Up)]
      /\ \A d \in Conn : d # f => up'[d] = up[d]
      /\ \A d \in Conn : /\ up[d] = << >> => up'[d] = << >>
                         /\ \A p \in 1 .. Len(up'[d]) : \E q \in 1 .. Len(up[d]) : up'[d][p] = up[d][q]
  BY <1>1, ReadUp
<1>5. OnlyStaleLost'
  BY DEF ParcelInv, OnlyStaleLost, cvars
<1>6. ASSUME NEW d \in Conn, down'[d] = down[d] PROVE Local(d)'
  BY <1>4, <1>6, ReadLocal DEF ParcelInv
<1>7. CASE ~ke_rcv(h)
  <2>1. dpc' = "exited" /\ UNCHANGED <<di, round, down>>
    BY <1>7
  <2>2. Types' /\ Dead'
    BY <1>1, <1>4, <2>1 DEF Types, Dead, cvars, kvars
  <2>3. \A d \in Conn : Local(d)'
    BY <1>6, <2>1
  <2> QED
    BY <1>5, <2>2, <2>3 DEF ParcelInv
<1>8. CASE ke_rcv(h)
  <2>1. /\ down' = Deliver({g}, h) /\ di' = t
        /\ round' = IF di = cnt THEN round + 1 ELSE round
        /\ dpc' \in MayFail(g, IF di = cnt /\ round + 1 = cnt - 1 THEN "scan" ELSE "rotate")
    BY <1>8
  <2>2. h \in Down /\ h.type = "ke" /\ h.ex = srvkey
    <3>1. h.type = "ke"
      BY <1>8 DEF ke_rcv
    <3>2. h.ex = srvkey
      BY <1>2, <1>3, <3>1 DEF Exchange
    <3>3. h \in [type : {"ke"}, ex : Nat]
      BY <1>2, <3>1 DEF Up
    <3> QED
      BY <3>1, <3>2, <3>3 DEF Down
  <2>3. /\ down' \in [Conn -> Seq(Down)]
        /\ ~Gone(g) => down'[g] = Append(down[g], h)
        /\ \A d \in Conn : d # g \/ Gone(d) => down'[d] = down[d]
    <3> HIDE DEF h
    <3>1. /\ down' \in [Conn -> Seq(Down)]
          /\ \A d \in Conn : /\ d \in {g} /\ ~Gone(d) => down'[d] = Append(down[d], h)
                             /\ d \notin {g} \/ Gone(d) => down'[d] = down[d]
      BY <1>1, <2>1, <2>2, Delivered
    <3> QED
      BY <3>1
  <2> HIDE DEF h
  <2>4. /\ Given(t) = round /\ t # di /\ di \in Nat /\ round \in Nat /\ cnt \in Nat
        /\ \A j \in 1 .. cnt : /\ Taken(j) \in Nat /\ Given(j) \in Nat
                               /\ Taken(j)' = Taken(j) + IF j = di THEN 1 ELSE 0
                               /\ Given(j)' = Given(j) + IF j = t THEN 1 ELSE 0
                               /\ di = cnt => Taken(j)' = round + 1 /\ Given(j)' = round + 1
    BY <1>1, <2>1, Counts DEF Types
  <2>5. Types'
    <3>1. dpc' \in {"scan", "twoparty", "ctrl", "rotate", "spin", "exited", "aborted"}
      BY <2>1 DEF MayFail
    <3>2. Cardinality(Conn) \in Nat
      BY ConnAssumption, FS_CardinalityType
    <3>3. di' \in Nat /\ 1 <= di' /\ di' <= Cardinality(Conn) + 1 /\ round' \in Nat
      BY <1>1, <2>1, <2>4, <3>2 DEF Types
    <3> QED
      BY <1>1, <1>4, <2>3, <3>1, <3>3 DEF Types, cvars, kvars
  <2>6. ASSUME ~Gone(g) PROVE Local(g)' /\ Exchange(t, g)'
    <3>1. down'[g] = Append(down[g], h) /\ up'[g] = up[g]
      BY <1>4, <2>3, <2>6
    <3>2. Given(t) \in Nat /\ Given(t) < cnt - 1 /\ Taken(t)' = Taken(t) /\ Given(t)' = Given(t) + 1
      BY <1>1, <2>4
    <3>3. cnt' = cnt /\ srvkey' = srvkey /\ members' = members /\ UNCHANGED cvars
      OBVIOUS
    <3> QED
      BY <1>3, <2>2, <2>4, <2>6, <3>1, <3>2, <3>3, ExchangeWrite
  <2>7. ASSUME NEW d \in Conn PROVE Local(d)'
    BY <1>6, <2>3, <2>6
  <2>8. ASSUME NEW j \in 1 .. cnt, NEW d \in Conn, sfds[j] = d PROVE Exchange(j, d)'
    <3>1. Exchange(j, d)
      BY <1>1, <2>8 DEF Served, Progress
    <3>2. CASE j = di
      <4>1. d = f /\ down'[d] = down[d] /\ up[d][1].type = "ke"
        BY <1>2, <2>2, <2>3, <2>8, <3>2
      <4>2. Taken(j) \in Nat /\ Taken(j)' = Taken(j) + 1 /\ Given(j)' = Given(j)
        BY <2>4, <3>2
      <4> QED
        BY <1>1, <2>4, <3>1, <3>2, <4>1, <4>2, ExchangeRead
    <3>3. ASSUME Taken(j)' = Taken(j), up'[d] = up[d], Gone(d) PROVE Exchange(j, d)'
      BY <3>1, <3>3 DEF Exchange, Gone, cvars, KeCount, KeSet
    <3>4. CASE j = t
      <4>1. d = g /\ up'[d] = up[d] /\ Taken(j)' = Taken(j)
        BY <1>4, <2>4, <2>8, <3>4
      <4> QED
        BY <2>6, <3>3, <3>4, <4>1
    <3>5. CASE j # t /\ j # di
      <4>1. d # f /\ d # g
        BY <1>1, <2>8, <3>5 DEF Table
      <4>2. up'[d] = up[d] /\ down'[d] = down[d] /\ Taken(j)' = Taken(j) /\ Given(j)' = Given(j)
        <5>1. up'[d] = up[d] /\ down'[d] = down[d]
          BY <1>4, <2>3, <4>1
        <5>2. Taken(j)' = Taken(j) /\ Given(j)' = Given(j)
          BY <2>4, <2>8, <3>5
        <5> QED
          BY <5>1, <5>2
      <4>3. Promised(d)' = Promised(d) /\ Rem(d)' = Rem(d) /\ (HasCtrl(d)' <=> HasCtrl(d))
        BY <4>2 DEF Promised, Rem, HasCtrl, cvars, kvars
      <4>4. Waiting(j, d) => Waiting(j, d)'
        BY <4>2, <4>3 DEF Waiting, cvars, kvars, KeCount, KeSet
      <4>5. Running(j, d) => Running(j, d)'
        BY <4>2, <4>3 DEF Running, cvars, kvars, KeCount, KeSet
      <4>6. Done(j, d) => Done(j, d)'
        BY <4>2, <4>3 DEF Done, cvars, kvars, KeCount, KeSet
      <4> QED
        BY <3>1, <4>2, <4>4, <4>5, <4>6 DEF Exchange, Gone, cvars, KeCount, KeSet
    <3> QED
      BY <3>2, <3>4, <3>5
  <2>9. ASSUME ~Dead' PROVE Table' /\ Queue' /\ Control' /\ \A d \in Conn : Served(d)'
    <3>1. dpc' = IF di = cnt /\ round + 1 = cnt - 1 THEN "scan" ELSE "rotate"
      BY <2>1, <2>9 DEF MayFail, Dead
    <3>2. Connected' = Connected
      BY DEF Connected
    <3>3. Table' /\ Queue'
      BY <1>1 DEF Table, Queue
    <3>4. dpc' = "rotate" => di' <= cnt /\ round' < cnt - 1
      BY <1>1, <2>1, <2>4, <3>1
    <3>5. Control'
      BY <1>1, <3>1, <3>2, <3>4 DEF Control
    <3>6. ASSUME NEW d \in Conn PROVE Served(d)'
      <4>1. Served(d) /\ ~Fresh(d)' /\ ~Fresh(d) /\ (InQueue(d)' <=> InQueue(d))
        BY <1>1, <3>1 DEF Fresh, InQueue
      <4>2. New(d)'
        <5>1. f \in Connected /\ g \in Connected
          BY DEF Connected
        <5>2. InQueue(d) => down'[d] = down[d] /\ up'[d] = up[d]
          BY <1>4, <2>3, <4>1, <5>1 DEF Served, New
        <5> QED
          BY <3>2, <4>1, <5>2 DEF Served, New, cvars
      <4>3. Pass(d)'
        <5>1. d = f /\ d \in rdy => Gone(d)
          BY <1>2, <2>2, <4>1 DEF Served, Pass
        <5> QED
          BY <1>4, <3>2, <4>1, <5>1 DEF Served, Pass, Gone, cvars
      <4>4. ASSUME NEW j \in 1 .. cnt, sfds[j] = d, dpc' = "scan" PROVE Settled(d)'
        <5>1. di = cnt /\ round + 1 = cnt - 1
          BY <3>1, <4>4
        <5>2. Taken(j)' = cnt' - 1 /\ Given(j)' = cnt' - 1 /\ cnt' > 1 /\ j \in Nat
          BY <1>1, <2>4, <5>1
        <5>3. Exchange(j, d)'
          BY <2>8, <4>4
        <5> QED
          BY <2>5, <5>2, <5>3, Settles
      <4>5. Progress(d)'
        BY <2>8, <3>1, <4>4 DEF Progress
      <4> QED
        BY <4>2, <4>3, <4>5 DEF Served
    <3> QED
      BY <3>3, <3>5, <3>6
  <2> QED
    BY <1>5, <2>5, <2>7, <2>9 DEF ParcelInv
<1> QED
  BY <1>7, <1>8

\* rotate_intermediates
LEMMA RotateStep ==
    ASSUME ParcelInv, rotate_intermediates
    PROVE  ParcelInv'
<1>1. /\ Types /\ Table /\ dpc = "rotate"
      /\ cnt > 1 /\ di <= cnt /\ round < cnt - 1
  <2>1. dpc = "rotate"
    BY DEF rotate_intermediates
  <2> QED
    BY <2>1 DEF ParcelInv, Control, Dead
<1>2. PICK t \in Nat : t = IF di = cnt THEN 1 ELSE di + 1
  BY <1>1 DEF Types
<1>3. di \in 1 .. cnt /\ t \in 1 .. cnt /\ t # di
  BY <1>1, <1>2 DEF Types
<1>4. PICK f, g \in Conn : f = sfds[di] /\ g = sfds[t]
  BY <1>1, <1>3, TableFacts
<1>5. f # g
  BY <1>1, <1>3, <1>4 DEF Table
<1>6. CASE ReadEndsDaemon(f)
  BY <1>6, EndStep
<1>7. CASE ~ReadEndsDaemon(f)
  <2>1. /\ up[f] # << >> /\ up' = [up EXCEPT ![f] = Tail(@)]
        /\ ~ke_rcv(Head(up[f])) => dpc' = "exited" /\ UNCHANGED <<di, round, down>>
        /\ ke_rcv(Head(up[f])) =>
              /\ down' = Deliver({g}, Head(up[f])) /\ di' = t
              /\ round' = IF di = cnt THEN round + 1 ELSE round
              /\ dpc' \in MayFail(g, IF di = cnt /\ round + 1 = cnt - 1 THEN "scan" ELSE "rotate")
        /\ UNCHANGED <<rdy, sfds, cnt, cur, srvkey, members, backlog, cvars>>
    BY <1>2, <1>4, <1>7 DEF rotate_intermediates
  <2> QED
    BY <1>1, <1>2, <1>3, <1>4, <1>5, <2>1, RotateRead
<1> QED
  BY <1>6, <1>7

-----------------------------------------------------------------------------
(***************************************************************************)
(* The invariant.                                                          *)
(***************************************************************************)

\* It holds when the daemon starts and no client has connected.
LEMMA InitInv == Init => ParcelInv
<1> SUFFICES ASSUME Init PROVE ParcelInv
  OBVIOUS
<1>1. Cardinality(Conn) \in Nat
  BY ConnAssumption, FS_CardinalityType
<1>2. Len(<< >>) = 0 /\ Len(members) = 1 /\ members \in Seq(SUBSET Conn)
  BY DEF Init
<1>3. Types
  <2>1. \A c \in Conn : Ctrl(0, 0) \in [type : {"ctrl"}, under : Nat, renewed : Nat, cnt : Nat]
    BY DEF Ctrl
  <2>2. ex \in [Conn -> [type : {"ctrl"}, under : Nat, renewed : Nat, cnt : Nat]]
    BY <2>1 DEF Init
  <2>3. up \in [Conn -> Seq(Up)] /\ down \in [Conn -> Seq(Down)] /\ backlog \in Seq(Conn)
    BY DEF Init
  <2>4. announced \in [Conn -> BOOLEAN] /\ snap \in [Conn -> SUBSET Nat]
    BY DEF Init
  <2>5. cpc \in [Conn -> {"out", "connected", "joining", "idle", "kx", "gone"}]
    BY DEF Init
  <2>6. ctrl \in [Conn -> Nat] /\ session \in [Conn -> Nat] /\ ci \in [Conn -> Nat]
    BY DEF Init
  <2>7. sfds \in [Slots -> Conn \cup {NoSock}] /\ cur \in Conn \cup {NoSock}
    BY DEF Init
  <2> QED
    BY <1>1, <1>2, <2>2, <2>3, <2>4, <2>5, <2>6, <2>7, BoundAssumption DEF Init, Types
<1>4. OnlyStaleLost
  BY DEF Init, OnlyStaleLost
<1>5. ASSUME NEW c \in Conn PROVE Local(c)
  <2>1. /\ down[c] = << >> /\ up[c] = << >> /\ cpc[c] = "out" /\ snap[c] = {} /\ ~announced[c]
        /\ session[c] = 0 /\ ctrl[c] = 0 /\ ci[c] = 0 /\ members = << {} >>
    BY DEF Init
  <2>2. Holding(c)
    BY <1>1, <1>2, <2>1 DEF Holding
  <2>3. Aware(c)
    BY <1>2, <2>1 DEF Aware
  <2>4. Stream(c) /\ Numbered(c)
    BY <1>2, <2>1 DEF Stream, Numbered, Number
  <2> QED
    BY <2>2, <2>3, <2>4 DEF Local
<1>6. Connected = {}
  BY DEF Init, Connected
<1>7. Table /\ Queue /\ Control
  <2>1. Table
    BY <1>1 DEF Init, Table, Slots
  <2>2. Queue
    BY <1>2 DEF Init, Queue
  <2> QED
    BY <2>1, <2>2 DEF Init, Control
<1>8. ASSUME NEW c \in Conn PROVE Served(c)
  <2>1. New(c)
    BY <1>2, <1>6 DEF Init, New, InQueue, Fresh
  <2> QED
    BY <2>1 DEF Init, Served, Pass, Progress
<1> QED
  BY <1>3, <1>4, <1>5, <1>7, <1>8 DEF ParcelInv

\* two_party_server
LEMMA TwoPartySteps ==
    ASSUME ParcelInv, two_party_server
    PROVE  ParcelInv'
<1>1. dpc = "twoparty" /\ ~Dead
  BY DEF two_party_server, Dead
<1>2. PICK c \in Conn : c = cur
  BY <1>1, TableFacts DEF ParcelInv, Control
<1>3. CASE ReadEndsDaemon(c)
  BY <1>3, EndStep
<1>4. CASE ~ReadEndsDaemon(c)
  <2>1. /\ up[c] # << >> /\ up' = [up EXCEPT ![c] = Tail(@)]
        /\ down' = Deliver({c}, SessionKey(srvkey))
        /\ dpc' \in MayFail(c, n_party_server(cnt, "scan"))
        /\ UNCHANGED <<rdy, sfds, cnt, cur, di, round, srvkey, members, backlog, cvars>>
    BY <1>2, <1>4 DEF two_party_server
  <2> QED
    BY <1>1, <1>2, <2>1, TwoPartyStep
<1> QED
  BY <1>3, <1>4

\* A step of the daemon, of a client or of nobody keeps the invariant.
LEMMA NextInv == ParcelInv /\ [Next]_vars => ParcelInv'
<1> SUFFICES ASSUME ParcelInv, [Next]_vars PROVE ParcelInv'
  OBVIOUS
<1>1. CASE Daemon
  BY <1>1, SelectStep, AddStep, TwoPartySteps, CtrlKeyStep, RotateStep, TransferStep, DisconnectStep
     DEF Daemon
<1>2. CASE Next /\ ~Daemon
  BY <1>2, ClientSteps DEF Next, Receiver
<1>3. CASE UNCHANGED vars
  <2>1. UNCHANGED dvars /\ backlog' = backlog /\ UNCHANGED cvars /\ up' = up /\ down' = down
    BY <1>3 DEF vars
  <2>2. \A c \in Conn : SameClient(c)
    BY <2>1 DEF SameClient, SameReceiver, cvars, kvars
  <2>3. \A c \in Conn : InQueue(c)' <=> InQueue(c)
    BY <2>1 DEF InQueue
  <2>4. Types' /\ OnlyStaleLost'
    BY <2>1 DEF ParcelInv, Types, OnlyStaleLost, dvars, cvars, kvars
  <2>5. \A c \in Conn : Local(c)'
    BY <2>1, <2>2, LocalFrame DEF ParcelInv, dvars
  <2>6. ASSUME ~Dead' PROVE Table' /\ Queue' /\ Control' /\ \A c \in Conn : Served(c)'
    <3>1. ~Dead /\ Table' /\ Queue' /\ Control'
      BY <2>1, <2>6 DEF ParcelInv, Dead, Table, Queue, Control, Connected, dvars
    <3> QED
      BY <2>1, <2>2, <2>3, <3>1, ServedFrame DEF ParcelInv, SameClient
  <2> QED
    BY <2>4, <2>5, <2>6 DEF ParcelInv
<1> QED
  BY <1>1, <1>2, <1>3

(***************************************************************************)
(* At all times, whatever joins, departures, crashes and messages the      *)
(* daemon (daemon.c) and the clients' threads (client.c, key-exchange.c)   *)
(* interleave, every stream to a client holds what its state of            *)
(* recv_thread calls for, the daemon's table and its pass over the ready   *)
(* sockets are sound, and as many intermediate keys are on the way in an   *)
(* exchange as both sides count.                                           *)
(***************************************************************************)
THEOREM ParcelInvariant == Spec => []ParcelInv
<1>1. Init => ParcelInv
  BY InitInv
<1>2. ParcelInv /\ [Next]_vars => ParcelInv'
  BY NextInv
<1> QED
  BY <1>1, <1>2, PTL DEF Spec

-----------------------------------------------------------------------------
(***************************************************************************)
(* What the invariant gives.                                               *)
(***************************************************************************)

\* Messages carry the numbers of keys that have been given out.
LEMMA KeysInMessages ==
    ASSUME ParcelInv, NEW c \in Conn
    PROVE  /\ \A p \in DOMAIN up[c] : up[c][p] \in UpMsg
           /\ \A p \in DOMAIN down[c] : down[c][p] \in DownMsg
<1>1. /\ up[c] \in Seq(Up) /\ down[c] \in Seq(Down) /\ members \in Seq(SUBSET Conn)
      /\ DOMAIN up[c] = 1 .. Len(up[c]) /\ DOMAIN down[c] = 1 .. Len(down[c]) /\ Len(members) \in Nat
  <2>1. up[c] \in Seq(Up) /\ down[c] \in Seq(Down) /\ members \in Seq(SUBSET Conn)
    BY DEF ParcelInv, Types
  <2> QED
    BY <2>1
<1>2. \A k \in Nat : k <= Len(members) => k \in Keys
  BY <1>1 DEF Keys
<1>3. ASSUME NEW p \in 1 .. Len(up[c]) PROVE up[c][p] \in UpMsg
  <2>1. PICK m \in Up : m = up[c][p]
    BY <1>1, <1>3, SeqFacts
  <2>2. m.type = "ke" => m.ex <= Len(members)
    BY <1>3, <2>1 DEF ParcelInv, Local, Numbered, Number
  <2>3. m.type = "cable" => m.under \in 1 .. Len(members)
    BY <1>3, <2>1 DEF ParcelInv, Local, Holding, Member
  <2>4. m.type = "ke" => m.ex \in Keys
    BY <1>2, <2>2, UpFields
  <2>5. m.type = "cable" => m.under \in Keys
    BY <1>1, <2>3 DEF Keys
  <2>6. m \in UpMsg
    BY <2>4, <2>5 DEF Up, UpMsg
  <2> QED
    BY <2>1, <2>6
<1>4. ASSUME NEW p \in 1 .. Len(down[c]) PROVE down[c][p] \in DownMsg
  <2>1. PICK m \in Down : m = down[c][p]
    BY <1>1, <1>4, SeqFacts
  <2>2. /\ m.type = "skey" => m.key <= Len(members)
        /\ m.type = "ke" => m.ex <= Len(members)
        /\ m.type \in {"ctrl", "cable"} => m.under <= Len(members)
    BY <1>4, <2>1 DEF ParcelInv, Local, Numbered, Number
  <2>3. m.type = "ctrl" => m.renewed <= Len(members)
    BY <1>4, <2>1 DEF ParcelInv, Local, Stream, Fits, CtrlFits
  <2>4. /\ m.type = "skey" => m.key \in Keys
        /\ m.type = "ke" => m.ex \in Keys
        /\ m.type = "ctrl" => m.under \in Keys /\ m.renewed \in Keys
        /\ m.type = "cable" => m.under \in Keys
    BY <1>2, <2>2, <2>3, DownFields
  <2>5. m \in DownMsg
    BY <2>4 DEF Down, DownMsg, CtrlMsg
  <2> QED
    BY <2>1, <2>5
<1> QED
  BY <1>1, <1>3, <1>4

(***************************************************************************)
(* The state of the daemon and of the clients has the types of daemon_t,   *)
(* client_t and the messages between them, and no message or client ever   *)
(* names a key that the daemon has not made.                               *)
(***************************************************************************)
THEOREM ParcelTypeTheorem == Spec => []TypeOK
<1>1. ASSUME ParcelInv PROVE TypeOK
  <2>1. /\ dpc \in {"scan", "twoparty", "ctrl", "rotate", "spin", "exited", "aborted"}
        /\ rdy \subseteq Conn \cup {Listener}
        /\ sfds \in [Slots -> Conn \cup {NoSock}]
        /\ cur \in Conn \cup {NoSock}
        /\ round \in Nat /\ srvkey = Len(members)
    BY <1>1 DEF ParcelInv, Types
  <2>2. Cardinality(Conn) \in Nat
    BY ConnAssumption, FS_CardinalityType
  <2>3. cnt \in 0 .. Cardinality(Conn) /\ di \in 1 .. Cardinality(Conn) + 1
    BY <1>1, <2>2 DEF ParcelInv, Types
  <2>4. members \in Seq(SUBSET Conn) /\ backlog \in Seq(Conn) /\ Len(members) \in Nat
    BY <1>1, SeqFacts DEF ParcelInv, Types
  <2>5. (\A k \in DOMAIN members : members[k] \subseteq Conn) /\ (\A i \in DOMAIN backlog : backlog[i] \in Conn)
    BY <2>4
  <2>6. texts \in 0 .. MaxTexts
    BY <1>1, BoundAssumption DEF ParcelInv, Types
  <2>7. ASSUME NEW c \in Conn
        PROVE  /\ cpc[c] \in {"out", "connected", "joining", "idle", "kx", "gone"}
               /\ ctrl[c] \in Keys /\ session[c] \in Keys /\ snap[c] \subseteq Keys
               /\ ci[c] \in 0 .. Cardinality(Conn) /\ announced[c] \in BOOLEAN
    <3>1. cpc[c] \in {"out", "connected", "joining", "idle", "kx", "gone"}
      BY <1>1 DEF ParcelInv, Types
    <3>2. announced[c] \in BOOLEAN
      BY <1>1 DEF ParcelInv, Types
    <3>3. ctrl[c] \in Nat /\ session[c] \in Nat /\ ci[c] \in Nat
      BY <1>1 DEF ParcelInv, Types
    <3>4. ctrl[c] <= Len(members) /\ session[c] <= Len(members) /\ ci[c] <= Cardinality(Conn)
      BY <1>1 DEF ParcelInv, Local, Holding, Numbered, Number
    <3>5. \A k \in snap[c] : k \in 1 .. Len(members)
      BY <1>1 DEF ParcelInv, Local, Holding, Member
    <3>6. snap[c] \subseteq Keys
      BY <2>4, <3>5 DEF Keys
    <3> QED
      BY <2>2, <2>4, <3>1, <3>2, <3>3, <3>4, <3>6 DEF Keys
  <2> QED
    BY <1>1, <2>1, <2>3, <2>5, <2>6, <2>7, KeysInMessages DEF TypeOK
<1> QED
  BY <1>1, ParcelInvariant, PTL

(***************************************************************************)
(* What main_thread has not handled of its ready sockets is still in the   *)
(* table and still readable, although add_client and                       *)
(* daemon_handle_disconnect change the table and exchanges read from the   *)
(* sockets during the pass.                                                *)
(***************************************************************************)
THEOREM ReadyHoldsTheorem == Spec => []ReadyHolds
<1>1. ASSUME ParcelInv PROVE ReadyHolds
  <2>1. ASSUME ~Dead, NEW c \in rdy \ {Listener} PROVE c \in Connected /\ Readable(c)
    <3>1. c \in Conn
      BY <1>1, <2>1 DEF ParcelInv, Types
    <3> QED
      BY <1>1, <2>1, <3>1 DEF ParcelInv, Served, Pass, Readable
  <2>2. ~Dead /\ Listener \in rdy => backlog # << >>
    BY <1>1 DEF ParcelInv, Queue
  <2> QED
    BY <2>1, <2>2 DEF ReadyHolds
<1> QED
  BY <1>1, ParcelInvariant, PTL

(***************************************************************************)
(* Back in main_thread with two or more clients, the newest exchange was   *)
(* among exactly the clients in the table, and every one that is through   *)
(* with it holds the group's newest session and control key.               *)
(***************************************************************************)
THEOREM MembersAgreeTheorem == Spec => []MembersAgree
<1>1. ASSUME ParcelInv PROVE MembersAgree
  <2>1. SUFFICES ASSUME dpc = "scan", cnt > 1
                 PROVE  /\ members[srvkey] = Connected
                        /\ \A c \in Connected : cpc[c] = "idle" => session[c] = srvkey /\ ctrl[c] = srvkey
    BY DEF MembersAgree
  <2>2. Types /\ Table /\ Control /\ \A c \in Conn : Served(c) /\ Local(c)
    BY <1>1, <2>1 DEF ParcelInv, Dead
  <2>3. members[srvkey] = Connected
    BY <2>1, <2>2 DEF Control
  <2>4. ASSUME NEW c \in Connected, cpc[c] = "idle" PROVE session[c] = srvkey /\ ctrl[c] = srvkey
    <3>1. c \in Conn /\ \E i \in 1 .. cnt : sfds[i] = c
      BY <2>2, <2>4, TableFacts
    <3>2. Settled(c) /\ ~Gone(c)
      BY <2>1, <2>2, <2>4, <3>1 DEF Served, Progress, Fresh, Gone
    <3>3. announced[c] /\ ctrl[c] = srvkey
      BY <2>1, <2>4, <3>2 DEF Settled, Promised
    <3> QED
      BY <2>2, <2>4, <3>1, <3>3 DEF Local, Holding
  <2> QED
    BY <2>3, <2>4
<1> QED
  BY <1>1, ParcelInvariant, PTL

(***************************************************************************)
(* Whatever the daemon interleaves on a client's socket, recv_thread and   *)
(* n_party_client find there the kind of message they are about to read.   *)
(***************************************************************************)
THEOREM InStepTheorem == Spec => []InStep
<1>1. ASSUME ParcelInv PROVE InStep
  <2>1. ASSUME NEW c \in Conn, down[c] # << >>
        PROVE  Head(down[c]).type \in CASE cpc[c] \in {"connected", "joining"} -> {"skey"}
                                        [] cpc[c] = "kx" -> {"ke"}
                                        [] OTHER -> {"cable", "ctrl"}
    <3>1. /\ Len(down[c]) \in Nat /\ Len(down[c]) > 0 /\ down[c][1] \in Down /\ Head(down[c]) = down[c][1]
          /\ cpc[c] \in {"out", "connected", "joining", "idle", "kx", "gone"} /\ Local(c)
      BY <1>1, <2>1, Streams DEF ParcelInv, Types
    <3>2. Fits(c, 1)
      BY <3>1 DEF Local, Stream
    <3>3. cpc[c] \in {"joining", "idle", "kx"}
      BY <2>1, <3>1 DEF Local, Holding
    <3>4. down[c][1].type \in {"skey", "ke", "ctrl", "cable"} /\ (down[c][1].type = "skey" <=> cpc[c] = "joining")
      BY <3>1, <3>2, DownFields DEF Fits
    <3>5. ASSUME cpc[c] = "kx" PROVE down[c][1].type = "ke"
      BY <1>1, <2>1, <3>5, NextIsKe
    <3>6. ASSUME cpc[c] = "idle" PROVE down[c][1].type # "ke"
      <4>1. ~KeFits(c, 1)
        BY <3>6 DEF KeFits, Rem
      <4> QED
        BY <3>2, <4>1 DEF Fits
    <3> QED
      BY <3>1, <3>3, <3>4, <3>5, <3>6
  <2> QED
    BY <2>1 DEF InStep
<1> QED
  BY <1>1, ParcelInvariant, PTL

(***************************************************************************)
(* A client encrypts a cable (transmit_wire, announce_connection) only     *)
(* under a group key made with it, never under the zeroed key.             *)
(***************************************************************************)
THEOREM EncryptsAsMemberTheorem == Spec => []EncryptsAsMember
<1>1. ASSUME ParcelInv PROVE EncryptsAsMember
  <2>1. ASSUME NEW c \in Conn, NEW p \in DOMAIN up[c], up[c][p].type = "cable"
        PROVE  up[c][p].under > 0 /\ c \in members[up[c][p].under]
    <3>1. p \in 1 .. Len(up[c])
      <4>1. up[c] \in Seq(Up)
        BY <1>1 DEF ParcelInv, Types
      <4> QED
        BY <2>1, <4>1
    <3>2. Member(c, up[c][p].under)
      BY <1>1, <2>1, <3>1 DEF ParcelInv, Local, Holding
    <3> QED
      BY <3>2 DEF Member
  <2> QED
    BY <2>1 DEF EncryptsAsMember
<1> QED
  BY <1>1, ParcelInvariant, PTL

(***************************************************************************)
(* recv_thread fails to decrypt no CTRL cable, and a chat cable only if    *)
(* its sender's key was out of date when the daemon relayed it.            *)
(***************************************************************************)
THEOREM OnlyStaleLostTheorem == Spec => []OnlyStaleLost
<1>1. ParcelInv => OnlyStaleLost
  BY DEF ParcelInv
<1> QED
  BY <1>1, ParcelInvariant, PTL

-----------------------------------------------------------------------------
(***************************************************************************)
(* The refinement of Session.                                              *)
(***************************************************************************)

\* As many clients as slots in use.
LEMMA TableSize ==
    ASSUME NEW n \in Nat, NEW s, \A i, j \in 1 .. n : s[i] = s[j] => i = j
    PROVE  Cardinality({s[i] : i \in 1 .. n}) = n
<1> DEFINE S == 1 .. n
           T == {s[i] : i \in S}
           f == [i \in S |-> s[i]]
<1>1. f \in Bijection(S, T)
  <2>1. f \in [S -> T]
    OBVIOUS
  <2>2. \A i, j \in S : f[i] = f[j] => i = j
    OBVIOUS
  <2>3. \A x \in T : \E i \in S : f[i] = x
    OBVIOUS
  <2> QED
    BY <2>1, <2>2, <2>3 DEF Bijection, Injection, Surjection, IsInjective
<1>2. IsFiniteSet(S) /\ Cardinality(S) = n
  BY FS_Interval
<1> QED
  BY <1>1, <1>2, FS_Bijection DEF ExistsBijection

\* has the group changed since the last exchange?
Due == dpc \in {"twoparty", "ctrl"} /\ cnt > 1

\* A step that Session does not see
LEMMA Unseen ==
    ASSUME Dead' <=> Dead, ~Dead => Connected' = Connected /\ (Due' <=> Due), members' = members, session' = session
    PROVE  UNCHANGED Abstract!vars
<1>1. Dead => ~Due /\ ~Due'
  BY DEF Dead, Due
<1>2. (~Dead)' = ~Dead /\ (IF Dead THEN {} ELSE Connected)' = IF Dead THEN {} ELSE Connected
  OBVIOUS
<1>3. (dpc \in {"twoparty", "ctrl"} /\ cnt > 1)' = (dpc \in {"twoparty", "ctrl"} /\ cnt > 1)
  BY <1>1 DEF Due
<1> QED
  BY <1>2, <1>3 DEF Abstract!vars

\* The end of the daemon
LEMMA Closes ==
    ASSUME ~Dead, Dead', members' = members, session' = session
    PROVE  Abstract!Close
<1>1. (dpc \in {"twoparty", "ctrl"} /\ cnt > 1)' = FALSE
  BY DEF Dead
<1> QED
  BY <1>1 DEF Abstract!Close, Abstract!Closed

\* A client comes or goes: an exchange is due if there are two or more now.
LEMMA Changes ==
    ASSUME Types', Table', dpc = "scan", ~Dead', NEW G, Connected' = G, members' = members, session' = session,
           Due' <=> cnt' > 1
    PROVE  Abstract!Change(G)
<1>1. Cardinality(G) = cnt'
  <2>1. cnt' \in Nat /\ \A i, j \in 1 .. cnt' : sfds'[i] = sfds'[j] => i = j
    BY DEF Types, Table
  <2>2. Cardinality({sfds'[i] : i \in 1 .. cnt'}) = cnt'
    BY <2>1, TableSize
  <2> QED
    BY <2>2 DEF Connected
<1>2. (dpc \in {"twoparty", "ctrl"} /\ cnt > 1)' = (Cardinality(G) >= 2)
  <2>1. cnt' \in Nat
    BY DEF Types
  <2>2. cnt' > 1 <=> cnt' >= 2
    BY <2>1
  <2> QED
    BY <1>1, <2>2 DEF Due
<1>3. ~Dead /\ ~(dpc \in {"twoparty", "ctrl"} /\ cnt > 1)
  BY DEF Dead
<1>4. (~Dead)' = ~Dead /\ (IF Dead THEN {} ELSE Connected)' = G
  BY <1>3
<1>5. Abstract!Cardinality(G) = Cardinality(G)
  BY DEF Cardinality, Abstract!Cardinality
<1> QED
  BY <1>2, <1>3, <1>4, <1>5 DEF Abstract!Change

\* add_client
LEMMA AddJoins ==
    ASSUME ParcelInv, ParcelInv', add_client
    PROVE  Abstract!Next
<1> DEFINE h == Head(backlog)
<1>1. /\ dpc = "scan" /\ Listener \in rdy /\ cnt' = cnt + 1 /\ ~Dead /\ members' = members /\ session' = session
      /\ \/ dpc' = "twoparty" /\ sfds' = [sfds EXCEPT ![FirstFree(sfds)] = h]
         \/ dpc' = "exited"
  BY DEF add_client, Dead, cvars, kvars
<1>2. CASE dpc' = "exited"
  BY <1>1, <1>2, Closes DEF Abstract!Next, Dead
<1>3. CASE dpc' = "twoparty" /\ sfds' = [sfds EXCEPT ![FirstFree(sfds)] = h]
  <2>1. Types /\ Table /\ Queue /\ \A c \in Conn : Served(c)
    BY <1>1 DEF ParcelInv
  <2>2. h \in Conn /\ h = backlog[1] /\ 1 \in 1 .. Len(backlog)
    <3>1. backlog \in Seq(Conn) /\ backlog # << >>
      BY <1>1, <2>1 DEF Types, Queue
    <3> QED
      BY <3>1, SeqFacts
  <2>3. h \notin Connected
    BY <2>1, <2>2 DEF Served, New, InQueue
  <2>4. FirstFree(sfds) = cnt + 1 /\ cnt < Cardinality(Conn) /\ cnt \in Nat /\ Cardinality(Conn) \in Nat
    BY <2>1, <2>2, <2>3, RoomLeft, TableFacts
  <2> HIDE DEF h
  <2>5. sfds'[cnt + 1] = h /\ \A i \in 1 .. cnt : sfds'[i] = sfds[i]
    BY <1>3, <2>1, <2>4 DEF Types, Slots
  <2>6. Connected' = Connected \cup {h}
    <3>1. 1 .. cnt' = 1 .. cnt \cup {cnt + 1}
      BY <1>1, <2>4
    <3> QED
      BY <2>5, <3>1 DEF Connected
  <2>7. ~Dead' /\ Types' /\ Table' /\ (Due' <=> cnt' > 1)
    BY <1>3 DEF ParcelInv, Dead, Due
  <2>8. Abstract!Change(Connected \cup {h})
    BY <1>1, <2>6, <2>7, Changes
  <2>9. Abstract!Join(h)
    BY <1>1, <2>3, <2>8 DEF Abstract!Join
  <2> QED
    BY <2>2, <2>9 DEF Abstract!Next
<1> QED
  BY <1>1, <1>2, <1>3

\* daemon_handle_disconnect
LEMMA DisconnectLeaves ==
    ASSUME ParcelInv, ParcelInv', NEW c \in Conn, daemon_handle_disconnect(c)
    PROVE  Abstract!Next
<1>1. /\ dpc = "scan" /\ c \in rdy /\ ~Dead /\ members' = members /\ session' = session
      /\ sfds' = disconnect_client(socket_index(c)) /\ cnt' = cnt - 1
      /\ dpc' = n_party_server(cnt - 1, "scan")
  BY DEF daemon_handle_disconnect, Dead, cvars, kvars
<1>2. Types /\ Table /\ c \in Connected
  BY <1>1 DEF ParcelInv, Served, Pass
<1>3. cnt \in Nat /\ cnt >= 1
  <2>1. cnt \in Nat /\ \E i \in 1 .. cnt : sfds[i] = c
    BY <1>2, TableFacts
  <2> QED
    BY <2>1
<1>4. dpc' = IF cnt = 1 THEN "aborted" ELSE IF cnt = 2 THEN "scan" ELSE "ctrl"
  BY <1>1, <1>3 DEF n_party_server
<1>5. CASE cnt = 1
  BY <1>1, <1>4, <1>5, Closes DEF Abstract!Next, Dead
<1>6. CASE cnt > 1
  <2>1. Connected' = Connected \ {c}
    BY <1>1, <1>2, <1>6, TableShrinks
  <2>2. ~Dead'
    BY <1>3, <1>4, <1>6 DEF Dead
  <2>3. Types' /\ Table'
    BY <2>2 DEF ParcelInv
  <2>4. Due' <=> cnt' > 1
    BY <1>1, <1>3, <1>4, <1>6 DEF Due
  <2>5. Abstract!Change(Connected \ {c})
    BY <1>1, <2>1, <2>2, <2>3, <2>4, Changes
  <2>6. Abstract!Leave(c)
    BY <1>1, <1>2, <2>5 DEF Abstract!Leave
  <2> QED
    BY <2>6 DEF Abstract!Next
<1> QED
  BY <1>3, <1>5, <1>6

\* server_send_ctrl_key
LEMMA CtrlKeyRekeys ==
    ASSUME ParcelInv, server_send_ctrl_key
    PROVE  Abstract!Next
<1>1. PICK T \in SUBSET Connected :
      /\ dpc = "ctrl" /\ ~Dead /\ cnt > 1 /\ sfds' = sfds /\ cnt' = cnt
      /\ (dpc' = "rotate" /\ T = Connected) \/ dpc' = "exited"
      /\ members' = Append(members, T) /\ session' = session
  BY DEF server_send_ctrl_key, SendLoop, ParcelInv, Control, Dead, cvars, kvars
<1>2. (dpc \in {"twoparty", "ctrl"} /\ cnt > 1) /\ (dpc \in {"twoparty", "ctrl"} /\ cnt > 1)' = FALSE
  BY <1>1
<1>3. CASE dpc' = "rotate" /\ T = Connected
  <2>1. ~Dead' /\ Connected' = Connected
    BY <1>1, <1>3 DEF Dead, Connected
  <2>2. /\ (~Dead)' = ~Dead /\ (IF Dead THEN {} ELSE Connected)' = IF Dead THEN {} ELSE Connected
        /\ members' = Append(members, IF Dead THEN {} ELSE Connected)
    BY <1>1, <1>3, <2>1
  <2> QED
    BY <1>1, <1>2, <2>2 DEF Abstract!Next, Abstract!Rekey
<1>4. CASE dpc' = "exited"
  <2>1. Dead'
    BY <1>4 DEF Dead
  <2> QED
    BY <1>1, <1>2, <2>1 DEF Abstract!Next, Abstract!Rekey, Abstract!Closed
<1> QED
  BY <1>1, <1>3, <1>4

\* n_party_client: the key a client takes up is the oldest one it does not have.
LEMMA FinishLearns ==
    ASSUME ParcelInv, NEW c \in Conn, n_party_client(c)
    PROVE  Abstract!Next \/ UNCHANGED Abstract!vars
<1>1. cpc[c] = "kx" /\ down[c] # << >> /\ UNCHANGED dvars
  BY DEF n_party_client
<1>2. /\ down[c][1].type = "ke" /\ down[c][1].ex = ex[c].renewed /\ Head(down[c]) = down[c][1]
      /\ Promised(c) = ex[c].renewed /\ Member(c, ex[c].renewed) /\ ex[c].renewed = ctrl[c] + 1
      /\ ctrl[c] \in Nat /\ ex[c].renewed \in Nat
  BY <1>1, NextIsKe
<1>3. /\ (Dead' <=> Dead) /\ (~Dead)' = ~Dead /\ Connected' = Connected /\ (Due' <=> Due) /\ members' = members
      /\ (dpc \in {"twoparty", "ctrl"} /\ cnt > 1)' = (dpc \in {"twoparty", "ctrl"} /\ cnt > 1)
  BY <1>1 DEF dvars, Dead, Connected, Due
<1>4. session' = session \/ session' = [session EXCEPT ![c] = ex[c].renewed]
  BY <1>2 DEF n_party_client
<1>5. CASE session' = session
  BY <1>3, <1>5, Unseen
<1>6. CASE session' = [session EXCEPT ![c] = ex[c].renewed]
  <2> DEFINE A == Abstract!Ahead(c)
  <2>1. /\ DOMAIN members = 1 .. Len(members) /\ session[c] \in Nat /\ Local(c)
        /\ announced[c] \in BOOLEAN
    BY DEF ParcelInv, Types
  <2>2. session[c] = 0 \/ session[c] = ctrl[c]
    BY <1>1, <2>1 DEF Local, Holding
  <2>3. ex[c].renewed > session[c]
    BY <1>2, <2>1, <2>2
  <2>4. ex[c].renewed \in A
    BY <1>2, <2>1, <2>3 DEF Member, Abstract!Ahead
  <2>5. ASSUME NEW j \in A PROVE ex[c].renewed <= j
    <3>1. j \in 1 .. Len(members) /\ j > session[c] /\ c \in members[j]
      BY <2>1, <2>5 DEF Abstract!Ahead
    <3>2. j = ex[c].renewed \/ j = Promised(c) + 1
      BY <1>1, <2>1, <3>1 DEF Local, Aware, Gone
    <3> QED
      BY <1>2, <3>2
  <2>6. Abstract!Learn(c)
    BY <1>3, <1>6, <2>4, <2>5 DEF Abstract!Learn
  <2> QED
    BY <2>6 DEF Abstract!Next
<1> QED
  BY <1>4, <1>5, <1>6

\* The other steps are the end of the daemon, or nothing that Session sees.
LEMMA OtherSteps ==
    ASSUME ParcelInv, ~Dead, members' = members, session' = session, cnt' = cnt, sfds' = sfds,
           Dead' \/ (Due' <=> Due)
    PROVE  Abstract!Next \/ UNCHANGED Abstract!vars
<1>1. Connected' = Connected
  BY DEF Connected
<1>2. CASE Dead'
  BY <1>2, Closes DEF Abstract!Next
<1>3. CASE ~Dead'
  BY <1>1, <1>3, Unseen
<1> QED
  BY <1>2, <1>3

\* Every step of the daemon
LEMMA DaemonRefines ==
    ASSUME ParcelInv, ParcelInv', Daemon
    PROVE  Abstract!Next \/ UNCHANGED Abstract!vars
<1>1. CASE select
  <2>1. /\ dpc' = dpc /\ members' = members /\ session' = session /\ cnt' = cnt /\ sfds' = sfds /\ ~Dead
    BY <1>1 DEF select, cvars, kvars, Dead
  <2>2. Due' <=> Due
    BY <2>1 DEF Due
  <2> QED
    BY <2>1, <2>2, OtherSteps
<1>2. CASE add_client
  BY <1>2, AddJoins
<1>3. CASE two_party_server
  <2>1. /\ dpc = "twoparty" /\ members' = members /\ session' = session /\ cnt' = cnt /\ sfds' = sfds
        /\ dpc' \in {"spin", "exited"} \/ dpc' = n_party_server(cnt, "scan")
    BY <1>3 DEF two_party_server, ReadEndsDaemon, MayFail, cvars, kvars
  <2>2. cnt \in Nat /\ ~Dead
    BY <2>1 DEF ParcelInv, Types, Dead
  <2>3. Dead' \/ (Due' <=> Due)
    <3>1. dpc' = n_party_server(cnt, "scan") => dpc' = "aborted" \/ (Due' <=> Due)
      BY <2>1, <2>2 DEF n_party_server, Due
    <3> QED
      BY <2>1, <3>1 DEF Dead
  <2> QED
    BY <2>1, <2>2, <2>3, OtherSteps
<1>4. CASE server_send_ctrl_key
  BY <1>4, CtrlKeyRekeys
<1>5. CASE rotate_intermediates
  <2>1. /\ dpc = "rotate" /\ members' = members /\ session' = session /\ cnt' = cnt /\ sfds' = sfds
        /\ dpc' \in {"spin", "exited", "scan", "rotate"}
    BY <1>5 DEF rotate_intermediates, ReadEndsDaemon, MayFail, cvars, kvars
  <2>2. ~Dead /\ (Dead' \/ (Due' <=> Due))
    BY <2>1 DEF Dead, Due
  <2> QED
    BY <2>1, <2>2, OtherSteps
<1>6. ASSUME NEW c \in Conn, transfer_message(c) PROVE Abstract!Next \/ UNCHANGED Abstract!vars
  <2>1. /\ dpc = "scan" /\ members' = members /\ session' = session /\ cnt' = cnt /\ sfds' = sfds
        /\ dpc' \in {"exited", "scan"}
    BY <1>6 DEF transfer_message, SendLoop, cvars, kvars
  <2>2. ~Dead /\ (Dead' \/ (Due' <=> Due))
    BY <2>1 DEF Dead, Due
  <2> QED
    BY <2>1, <2>2, OtherSteps
<1>7. ASSUME NEW c \in Conn, daemon_handle_disconnect(c) PROVE Abstract!Next
  BY <1>7, DisconnectLeaves
<1> QED
  BY <1>1, <1>2, <1>3, <1>4, <1>5, <1>6, <1>7 DEF Daemon

(***************************************************************************)
(* The daemon and the clients implement Session: every exchange is among   *)
(* exactly the clients in the table, the table does not change again       *)
(* before server_send_ctrl_key has begun it, and a client takes up the     *)
(* keys made with it in order and without leaving one out.                 *)
(***************************************************************************)
THEOREM ImplementsSessionTheorem == Spec => ImplementsSession
<1>1. Init => Abstract!Init
  <2>1. ASSUME Init PROVE Abstract!Init
    <3>1. ~Dead /\ Connected = {} /\ ~(dpc \in {"twoparty", "ctrl"} /\ cnt > 1)
      BY <2>1 DEF Init, Dead, Connected
    <3>2. (~Dead) = TRUE /\ (dpc \in {"twoparty", "ctrl"} /\ cnt > 1) = FALSE
      BY <3>1
    <3> QED
      BY <2>1, <3>1, <3>2 DEF Init, Abstract!Init
  <2> QED
    BY <2>1
<1>2. ParcelInv /\ ParcelInv' /\ [Next]_vars => [Abstract!Next]_(Abstract!vars)
  <2> SUFFICES ASSUME ParcelInv, ParcelInv', [Next]_vars
               PROVE  Abstract!Next \/ UNCHANGED Abstract!vars
    OBVIOUS
  <2>1. CASE Daemon
    BY <2>1, DaemonRefines
  <2>2. ASSUME UNCHANGED dvars, session' = session PROVE UNCHANGED Abstract!vars
    <3>1. (Dead' <=> Dead) /\ Connected' = Connected /\ (Due' <=> Due) /\ members' = members
      BY <2>2 DEF dvars, Dead, Connected, Due
    <3> QED
      BY <2>2, <3>1, Unseen
  <2>3. CASE UNCHANGED vars
    <3>1. UNCHANGED dvars /\ session' = session
      BY <2>3 DEF vars, cvars, kvars
    <3> QED
      BY <2>2, <3>1
  <2>4. CASE Next /\ ~Daemon
    <3>1. PICK c \in Conn : \/ Receiver(c) \/ connect_server(c)
                            \/ transmit_wire_keys(c) \/ transmit_wire_send(c)
                            \/ cmd_exit(c) \/ crash(c)
      BY <2>4 DEF Next
    <3>2. CASE n_party_client(c)
      BY <3>2, FinishLearns
    <3>3. CASE ~n_party_client(c)
      <4>1. UNCHANGED dvars /\ session' = session
        BY <3>1, <3>3 DEF Receiver, connect_server, send_public_key, two_party_client, recv_thread,
                          transmit_wire_keys, transmit_wire_send, cmd_exit, crash, kvars
      <4> QED
        BY <2>2, <4>1
    <3> QED
      BY <3>2, <3>3
  <2> QED
    BY <2>1, <2>3, <2>4
<1> QED
  BY <1>1, <1>2, ParcelInvariant, PTL DEF Spec, ImplementsSession, Abstract!Spec

=============================================================================
