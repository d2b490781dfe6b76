------------------------- MODULE ParcelClientProofs -------------------------
(***************************************************************************)
(* The client from main to its end: Startup for every command line, and    *)
(* ParcelClient for every set of names, every choice of lines and failures *)
(* and any number of cables.                                               *)
(***************************************************************************)
EXTENDS ParcelClient, Startup, SequenceTheorems, WellFoundedInduction, TLAPS

(***************************************************************************)
(* What the two threads rely on.  send_thread is past its loop only if the *)
(* connection is announced; from then on the others know the name, or the  *)
(* new one while cmd_username is between its two halves.                   *)
(***************************************************************************)
NameKept ==
    /\ spc # "wait" => conn_announced
    /\ conn_announced /\ conn = "up" => told = IF spc = "rename" THEN new ELSE username

(***************************************************************************)
(* After the farewell the socket is not up any more, and send_thread is    *)
(* about to clear keep_alive, or finds it cleared before it acts again.    *)
(***************************************************************************)
Parting ==
    last = "disconnect" =>
        /\ conn # "up"
        /\ spc = "shut" \/ (~keep_alive /\ spc \in {"prompt", "check", "returned"})

ClientInv == TypeOK /\ NameKept /\ Parting

-----------------------------------------------------------------------------
(***************************************************************************)
(* main hands over a client that has sent nothing.                         *)
(***************************************************************************)
LEMMA InitClient == Init => ClientInv
<1> SUFFICES ASSUME Init PROVE ClientInv
  OBVIOUS
<1>1. TypeOK
  <2>1. keep_alive \in BOOLEAN /\ conn_announced \in BOOLEAN
    BY Zenon DEF Init
  <2>2. typed \in Lines /\ username \in Name /\ new \in Name /\ told \in Name \cup {Nobody}
    BY DEF Init
  <2>3. inbox \in Seq({"ctrl", "cable"}) /\ arrived \in 0 .. MaxCables
    BY ClientAssumption DEF Init
  <2>4. QED
    BY <2>1, <2>2, <2>3 DEF Init, TypeOK
<1>2. NameKept /\ Parting
  BY DEF Init, NameKept, Parting
<1>3. QED
  BY <1>1, <1>2 DEF ClientInv

(***************************************************************************)
(* Every step of the environment and of either thread keeps the types.     *)
(***************************************************************************)
LEMMA NextType == TypeOK /\ [Next]_vars => TypeOK'
<1> SUFFICES ASSUME TypeOK, [Next]_vars PROVE TypeOK'
  OBVIOUS
<1> USE ClientAssumption DEF TypeOK, Running
<1>1. CASE arrive
  BY <1>1 DEF arrive, shared
<1>2. CASE lose_connection \/ exchange_over
  BY <1>2 DEF lose_connection, exchange_over, shared
<1>3. CASE Receiver
  <2>1. CASE recv_thread
    BY <2>1 DEF recv_thread, shared
  <2>2. CASE proc_ctrl
    BY <2>2 DEF proc_ctrl, transmit_wire, Announced
  <2>3. CASE exchange_fails \/ recv_fails
    BY <2>3 DEF exchange_fails, recv_fails, shared
  <2>4. QED
    BY <1>3, <2>1, <2>2, <2>3 DEF Receiver
<1>4. CASE Sender
  <2> USE DEF sframe, shared
  <2>1. CASE await_announced \/ xprompt \/ check_keep_alive \/ cmd_print
    BY <2>1 DEF await_announced, xprompt, check_keep_alive, cmd_print
  <2>2. CASE send_text_msg
    BY <2>2 DEF send_text_msg, transmit_wire
  <2>3. CASE cmd_username
    BY <2>3 DEF cmd_username, transmit_wire
  <2>4. CASE set_username
    BY <2>4 DEF set_username, Stored
  <2>5. CASE cmd_send_file
    BY <2>5 DEF cmd_send_file, transmit_wire
  <2>6. CASE cmd_exit
    BY <2>6 DEF cmd_exit, transmit_wire
  <2>7. CASE clear_keep_alive \/ main
    BY <2>7 DEF clear_keep_alive, main
  <2>8. QED
    BY <1>4, <2>1, <2>2, <2>3, <2>4, <2>5, <2>6, <2>7 DEF Sender
<1>5. CASE UNCHANGED vars
  BY <1>5 DEF vars, shared
<1>6. QED
  BY <1>1, <1>2, <1>3, <1>4, <1>5 DEF Next

(***************************************************************************)
(* recv_thread may announce the connection only while send_thread waits,   *)
(* and the prompt is not reached in the middle of cmd_username.            *)
(***************************************************************************)
LEMMA NextName == ClientInv /\ [Next]_vars => NameKept'
<1> SUFFICES ASSUME ClientInv, [Next]_vars PROVE NameKept'
  OBVIOUS
<1> USE ClientAssumption DEF ClientInv, TypeOK, NameKept
<1>1. CASE arrive \/ lose_connection \/ exchange_over
  BY <1>1 DEF arrive, lose_connection, exchange_over, shared
<1>2. CASE Receiver
  <2>1. CASE proc_ctrl
    BY <2>1 DEF proc_ctrl, transmit_wire, Announced
  <2>2. CASE recv_thread \/ exchange_fails \/ recv_fails
    BY <2>2 DEF recv_thread, exchange_fails, recv_fails, shared
  <2>3. QED
    BY <1>2, <2>1, <2>2 DEF Receiver
<1>3. CASE Sender
  <2> USE DEF sframe, shared, exec_cmd
  <2>1. CASE await_announced \/ xprompt \/ check_keep_alive \/ cmd_print
    BY <2>1 DEF await_announced, xprompt, check_keep_alive, cmd_print
  <2>2. CASE send_text_msg \/ cmd_username \/ cmd_exit
    BY <2>2 DEF send_text_msg, cmd_username, cmd_exit, transmit_wire
  <2>3. CASE set_username
    BY <2>3 DEF set_username, Stored
  <2>4. CASE cmd_send_file \/ clear_keep_alive \/ main
    BY <2>4 DEF cmd_send_file, transmit_wire, clear_keep_alive, main
  <2>5. QED
    BY <1>3, <2>1, <2>2, <2>3, <2>4 DEF Sender
<1>4. CASE UNCHANGED vars
  BY <1>4 DEF vars, shared
<1>5. QED
  BY <1>1, <1>2, <1>3, <1>4 DEF Next

(***************************************************************************)
(* After cmd_exit only keep_alive stands between the user's next line and  *)
(* another cable; nothing sets it again.                                   *)
(***************************************************************************)
LEMMA NextParting == ClientInv /\ [Next]_vars => Parting'
<1> SUFFICES ASSUME ClientInv, [Next]_vars PROVE Parting'
  OBVIOUS
<1> USE ClientAssumption DEF ClientInv, TypeOK, Parting
<1>1. CASE arrive \/ lose_connection \/ exchange_over
  BY <1>1 DEF arrive, lose_connection, exchange_over, shared
<1>2. CASE Receiver
  BY <1>2 DEF Receiver, recv_thread, proc_ctrl, exchange_fails, recv_fails, shared, transmit_wire,
              NameKept
<1>3. CASE Sender
  <2> USE DEF sframe, shared, exec_cmd
  <2>1. CASE await_announced \/ xprompt \/ check_keep_alive \/ cmd_print
    BY <2>1 DEF await_announced, xprompt, check_keep_alive, cmd_print, Run, NameKept
  <2>2. CASE send_text_msg \/ cmd_username \/ cmd_exit
    BY <2>2 DEF send_text_msg, cmd_username, cmd_exit, transmit_wire
  <2>3. CASE set_username \/ cmd_send_file \/ clear_keep_alive \/ main
    BY <2>3 DEF set_username, cmd_send_file, transmit_wire, clear_keep_alive, main
  <2>4. QED
    BY <1>3, <2>1, <2>2, <2>3 DEF Sender
<1>4. CASE UNCHANGED vars
  BY <1>4 DEF vars, shared
<1>5. QED
  BY <1>1, <1>2, <1>3, <1>4 DEF Next

(***************************************************************************)
(* The inductive invariant of a client process.                            *)
(***************************************************************************)
LEMMA ClientInvariant == Spec => []ClientInv
<1>1. ClientInv /\ [Next]_vars => ClientInv'
  BY NextType, NextName, NextParting DEF ClientInv
<1>2. QED
  BY InitClient, <1>1, PTL DEF Spec

-----------------------------------------------------------------------------
(***************************************************************************)
(* The variables of a client keep their types.                             *)
(***************************************************************************)
THEOREM ClientTypeTheorem == Spec => []TypeOK
<1>1. ClientInv => TypeOK
  BY DEF ClientInv
<1>2. QED
  BY ClientInvariant, <1>1, PTL

(***************************************************************************)
(* Whenever the prompt waits on a working connection the other clients     *)
(* know this one by the name it has now: announce_connection and           *)
(* cmd_username tell it before send_thread gets there.                     *)
(***************************************************************************)
THEOREM KnownByNameTheorem == Spec => []KnownByName
<1>1. ClientInv => KnownByName
  BY DEF ClientInv, NameKept, KnownByName
<1>2. QED
  BY ClientInvariant, <1>1, PTL

(***************************************************************************)
(* No step of either thread transmits anything after the farewell of       *)
(* cmd_exit.                                                               *)
(***************************************************************************)
THEOREM FarewellTheorem == Spec => FarewellIsLast
<1>1. ClientInv /\ [Next]_vars => [last = "disconnect" => last' = last]_vars
  <2> SUFFICES ASSUME ClientInv, [Next]_vars, last = "disconnect" PROVE last' = last
    OBVIOUS
  <2>1. conn_announced /\ spc # "exec"
    BY DEF ClientInv, Parting, NameKept
  <2>2. CASE arrive \/ lose_connection \/ exchange_over \/ Receiver
    BY <2>1, <2>2 DEF arrive, lose_connection, exchange_over, Receiver, recv_thread, proc_ctrl, exchange_fails, recv_fails
  <2>3. CASE Sender
    BY <2>1, <2>3 DEF Sender, await_announced, xprompt, check_keep_alive, cmd_print,
       send_text_msg, cmd_username, set_username, cmd_send_file, cmd_exit,
       clear_keep_alive, main, exec_cmd
  <2>4. QED
    BY <2>2, <2>3 DEF Next, vars
<1>2. QED
  BY ClientInvariant, <1>1, PTL DEF Spec, FarewellIsLast

-----------------------------------------------------------------------------
(***************************************************************************)
(* Startup: what the settings are, whatever the command line.              *)
(***************************************************************************)

\* What the array of a setting holds.
Bytes == Seq(Letters \cup {NUL})

\* The values accepted for a setting, one at least: the default.
Values == Seq(Seq(Letters)) \ {<< >>}

(***************************************************************************)
(* xgetopt's place in the command line, the types of what it hands out and *)
(* of what main makes of it.                                               *)
(***************************************************************************)
Typed ==
    /\ prog \in {"parcel", "parceld"} /\ argv \in Seq(Words)
    /\ index \in 1 .. Len(argv) + 1 /\ position \in Nat
    /\ arg \in Seq(Letters)
    /\ set \in [Settings -> Bytes] /\ given \in [Settings -> Values]

\* An array that reads as v: v, and nothing or a NUL behind it.
Reads(bytes, v) == bytes = v \/ bytes = Append(v, NUL)

(***************************************************************************)
(* Each array reads as the last value given for its setting as long as the *)
(* values grow.                                                            *)
(***************************************************************************)
SettingsInv == \A s \in Settings : Growing(given[s]) => Reads(set[s], Last(given[s]))

\* A word of the command line.
LEMMA WordsAre ==
    ASSUME Typed, NEW i \in 1 .. Len(argv)
    PROVE  argv[i] \in Seq(Letters) /\ Word(i) = argv[i] /\ Len(argv[i]) \in Nat
<1>1. argv[i] \in Words /\ i <= Len(argv) /\ Len(argv) \in Nat
  BY DEF Typed
<1>2. argv[i] \in Seq(Letters)
  BY <1>1, StartupAssumption
<1> QED
  BY <1>1, <1>2 DEF Word

\* A word that xgetopt does not stop at is one, and longer than its dash.
LEMMA OptionWord ==
    ASSUME Typed, ~Stops(Word(index))
    PROVE  /\ index \in 1 .. Len(argv) /\ Word(index) = argv[index]
           /\ argv[index] \in Seq(Letters) /\ Len(argv[index]) \in Nat /\ Len(argv[index]) >= 2
           /\ Len(argv) \in Nat
<1>1. index \in Nat /\ Len(argv) \in Nat /\ index >= 1
  BY DEF Typed
<1>2. index <= Len(argv)
  <2>1. SUFFICES ASSUME ~(index <= Len(argv)) PROVE FALSE
    OBVIOUS
  <2>2. Word(index) = << >>
    BY <2>1 DEF Word
  <2>3. Char(<< >>, 1) = NUL
    BY DEF Char
  <2>4. Char(<< >>, 1) # "-"
    BY <2>3 DEF NUL
  <2> QED
    BY <2>2, <2>4 DEF Stops
<1>3. index \in 1 .. Len(argv)
  BY <1>1, <1>2
<1>4. argv[index] \in Seq(Letters) /\ Word(index) = argv[index] /\ Len(argv[index]) \in Nat
  BY <1>3, WordsAre
<1>5. Char(argv[index], 2) # NUL
  BY <1>4 DEF Stops
<1>6. 2 <= Len(argv[index])
  BY <1>5 DEF Char
<1> QED
  BY <1>1, <1>3, <1>4, <1>6

\* A name has no NUL in it; with one behind it, it is an array.
LEMMA NulBehind ==
    ASSUME NEW v \in Seq(Letters)
    PROVE  /\ v \in Bytes /\ Append(v, NUL) \in Bytes /\ Len(v) \in Nat
           /\ Len(Append(v, NUL)) = Len(v) + 1 /\ Append(v, NUL)[Len(v) + 1] = NUL
           /\ \A i \in 1 .. Len(v) : v[i] # NUL /\ Append(v, NUL)[i] = v[i]
<1> DEFINE B == Letters \cup {NUL}
<1>1. v \in Seq(B) /\ NUL \in B /\ Len(v) \in Nat
  OBVIOUS
<1>2. \A i \in 1 .. Len(v) : v[i] \in Letters
  OBVIOUS
<1>3. \A i \in 1 .. Len(v) : v[i] # NUL
  BY <1>2, StartupAssumption
<1> HIDE DEF B
<1>4. /\ Append(v, NUL) \in Seq(B) /\ Len(Append(v, NUL)) = Len(v) + 1
      /\ Append(v, NUL)[Len(v) + 1] = NUL
      /\ \A i \in 1 .. Len(v) : Append(v, NUL)[i] = v[i]
  BY <1>1, AppendProperties
<1> QED
  BY <1>1, <1>3, <1>4 DEF B, Bytes

\* What reads as v is v as a string.
LEMMA StringRead ==
    ASSUME NEW v \in Seq(Letters), NEW bytes, Reads(bytes, v)
    PROVE  String(bytes) = v
<1> DEFINE n == Len(v)
           m == Len(bytes)
           P(k) == (\A i \in 1 .. k : bytes[i] # NUL) /\ (k < m => bytes[k + 1] = NUL)
           c == CHOOSE k \in 0 .. m : P(k)
<1>1. /\ n \in Nat /\ m \in {n, n + 1} /\ (m = n + 1 => bytes[n + 1] = NUL) /\ bytes \in Bytes
      /\ \A i \in 1 .. n : bytes[i] = v[i] /\ bytes[i] # NUL
  <2>1. /\ v \in Bytes /\ Append(v, NUL) \in Bytes /\ n \in Nat
        /\ Len(Append(v, NUL)) = n + 1 /\ Append(v, NUL)[n + 1] = NUL
        /\ \A i \in 1 .. n : v[i] # NUL /\ Append(v, NUL)[i] = v[i]
    BY NulBehind
  <2>2. CASE bytes = v
    BY <2>1, <2>2
  <2>3. CASE bytes = Append(v, NUL)
    BY <2>1, <2>3
  <2> QED
    BY <2>2, <2>3 DEF Reads
<1>2. n \in 0 .. m /\ P(n)
  BY <1>1
<1>3. c \in 0 .. m /\ P(c)
  BY <1>2
<1>4. c = n
  <2>1. ASSUME c < n PROVE FALSE
    <3>1. c + 1 \in 1 .. n /\ c < m
      BY <1>1, <1>3, <2>1
    <3>2. bytes[c + 1] = NUL /\ bytes[c + 1] # NUL
      BY <1>1, <1>3, <3>1
    <3> QED
      BY <3>2
  <2>2. ASSUME n < c PROVE FALSE
    <3>1. n + 1 \in 1 .. c /\ m = n + 1
      BY <1>1, <1>3, <2>2
    <3>2. bytes[n + 1] = NUL /\ bytes[n + 1] # NUL
      BY <1>1, <1>3, <3>1
    <3> QED
      BY <3>2
  <2> QED
    BY <1>1, <1>3, <2>1, <2>2
<1>5. String(bytes) = SubSeq(bytes, 1, c)
  BY DEF String
<1> HIDE DEF c
<1>6. String(bytes) = SubSeq(bytes, 1, n)
  BY <1>4, <1>5
<1>7. SubSeq(bytes, 1, n) = v
  <2> DEFINE q == SubSeq(bytes, 1, n)
  <2>1. q \in Bytes /\ Len(q) = n /\ \A i \in 1 .. n : q[i] = bytes[i]
    <3>1. bytes \in Seq(Letters \cup {NUL}) /\ m \in Nat /\ n <= m
      BY <1>1 DEF Bytes
    <3> QED
      BY <1>1, <3>1, SubSeqProperties DEF Bytes
  <2> HIDE DEF q
  <2>2. v \in Bytes
    BY NulBehind
  <2>3. \A i \in 1 .. n : q[i] = v[i]
    BY <1>1, <2>1
  <2>4. q = v
    BY <2>1, <2>2, <2>3, SeqEqual DEF Bytes
  <2> QED
    BY <2>4 DEF q
<1> QED
  BY <1>6, <1>7

\* What memcpy leaves is an array, and reads as the new value if the old one is not
\* longer; with its NUL copied too, however long the old one is.
LEMMA Copied ==
    ASSUME NEW old \in Bytes, NEW v \in Seq(Letters), NEW w \in Seq(Letters),
           NEW over, over = v \/ over = Append(v, NUL)
    PROVE  /\ Copy(old, over) \in Bytes
           /\ Reads(old, w) /\ Len(w) <= Len(v) => Reads(Copy(old, over), v)
<1> DEFINE n == Len(over)
           m == Len(old)
           end == SubSeq(old, n + 1, m)
<1>0. v \in Bytes /\ over \in Bytes /\ (over = v \/ Len(over) = Len(v) + 1) /\ Len(v) \in Nat
  BY NulBehind
<1>1. n \in Nat /\ m \in Nat
  BY <1>0 DEF Bytes
<1>2. end \in Bytes
  <2>1. \A i \in n + 1 .. m : old[i] \in Letters \cup {NUL}
    BY <1>1 DEF Bytes
  <2> QED
    BY <1>1, <2>1, SubSeqProperties DEF Bytes
<1>3. Copy(old, over) = over \o end
  BY DEF Copy
<1>4. over \o end \in Bytes
  <2> HIDE DEF end
  <2> QED
    BY <1>0, <1>2, ConcatProperties DEF Bytes
<1>5. ASSUME Reads(old, w), Len(w) <= Len(v) PROVE Reads(over \o end, v)
  <2>1. Len(w) \in Nat /\ m \in {Len(w), Len(w) + 1} /\ (m = Len(w) + 1 => old[m] = NUL)
    BY <1>5, NulBehind DEF Reads
  <2>2. CASE m <= n
    <3>1. end = << >>
      BY <1>1, <2>2, SubSeqEmpty
    <3>2. over \o << >> = over
      BY <1>0, ConcatEmptySeq DEF Bytes
    <3> QED
      BY <3>1, <3>2 DEF Reads
  <2>3. CASE n < m
    <3>1. over = v /\ m = n + 1 /\ old[m] = NUL
      BY <1>0, <1>1, <1>5, <2>1, <2>3
    <3>2. Len(end) = 1 /\ end[1] = NUL
      <4>1. old \in Seq(Letters \cup {NUL}) /\ n + 1 \in 1 .. m
        BY <1>1, <3>1 DEF Bytes
      <4> QED
        BY <1>1, <3>1, <4>1, SubSeqProperties
    <3>3. Len(over \o end) = n + 1 /\ \A i \in 1 .. n + 1 : (over \o end)[i] = IF i <= n THEN over[i] ELSE NUL
      <4> HIDE DEF end, n
      <4>1. /\ Len(over \o end) = Len(over) + 1
            /\ \A i \in 1 .. Len(over) + 1 :
                  (over \o end)[i] = IF i <= Len(over) THEN over[i] ELSE end[i - Len(over)]
        <5> DEFINE B == Letters \cup {NUL}
        <5>1. over \in Seq(B) /\ end \in Seq(B) /\ Len(over) \in Nat
          BY <1>0, <1>2 DEF Bytes
        <5> HIDE DEF B
        <5>2. /\ Len(over \o end) = Len(over) + Len(end)
              /\ \A i \in 1 .. Len(over) + Len(end) :
                    (over \o end)[i] = IF i <= Len(over) THEN over[i] ELSE end[i - Len(over)]
          BY <5>1, ConcatProperties
        <5> QED
          BY <3>2, <5>2
      <4>2. \A i \in 1 .. n + 1 : i <= n \/ i - n = 1
        BY <1>1
      <4> QED
        BY <3>2, <4>1, <4>2 DEF n
    <3>4. /\ Append(v, NUL) \in Bytes /\ Len(Append(v, NUL)) = n + 1
          /\ \A i \in 1 .. n + 1 : Append(v, NUL)[i] = IF i <= n THEN over[i] ELSE NUL
      <4>1. \A i \in 1 .. n + 1 : i \in 1 .. n \/ (i = n + 1 /\ ~(i <= n))
        BY <1>1
      <4> QED
        BY <3>1, <4>1, NulBehind
    <3>5. over \o end = Append(v, NUL)
      <4> DEFINE x == over \o end
                 y == Append(v, NUL)
      <4>1. x \in Bytes /\ y \in Bytes /\ Len(x) = Len(y) /\ \A i \in 1 .. Len(x) : x[i] = y[i]
        BY <1>4, <3>3, <3>4
      <4> HIDE DEF x, y
      <4>2. x = y
        BY <4>1, SeqEqual DEF Bytes
      <4> QED
        BY <4>2 DEF x, y
    <3> QED
      BY <3>5 DEF Reads
  <2> QED
    BY <1>1, <2>2, <2>3
<1> HIDE DEF end
<1> QED
  BY <1>3, <1>4, <1>5

\* If the values grow up to a new one, they grew before, and the last is not longer.
LEMMA GrowingOn ==
    ASSUME NEW g \in Values, NEW v \in Seq(Letters)
    PROVE  /\ Append(g, v) \in Values /\ Last(Append(g, v)) = v
           /\ Growing(Append(g, v)) => Growing(g) /\ Len(Last(g)) <= Len(v)
<1> DEFINE n == Len(g)
           h == Append(g, v)
<1>1. g \in Seq(Seq(Letters)) /\ n \in Nat /\ n # 0
  BY EmptySeq DEF Values
<1>2. /\ h \in Seq(Seq(Letters)) /\ h # << >> /\ Len(h) = n + 1 /\ h[n + 1] = v
      /\ \A i \in 1 .. n : h[i] = g[i]
  <2> DEFINE S == Seq(Letters)
  <2>1. g \in Seq(S) /\ v \in S
    BY <1>1
  <2> HIDE DEF S
  <2>2. /\ h \in Seq(S) /\ h # << >> /\ Len(h) = n + 1 /\ h[n + 1] = v
        /\ \A i \in 1 .. n : h[i] = g[i]
    BY <2>1, AppendProperties
  <2> QED
    BY <2>2 DEF S
<1>3. h \in Values
  <2> HIDE DEF h
  <2> QED
    BY <1>2 DEF Values
<1>4. DOMAIN g = 1 .. n /\ DOMAIN h = 1 .. n + 1
  BY <1>1, <1>2, LenProperties
<1> HIDE DEF h, n
<1>5. ASSUME Growing(h) PROVE Growing(g) /\ Len(g[n]) <= Len(v)
  <2>1. \A i, j \in 1 .. n + 1 : i < j => Len(h[i]) <= Len(h[j])
    BY <1>4, <1>5 DEF Growing
  <2>2. \A i, j \in 1 .. n : i < j => Len(g[i]) <= Len(g[j])
    BY <1>1, <1>2, <2>1
  <2>3. n \in 1 .. n + 1 /\ n + 1 \in 1 .. n + 1 /\ n < n + 1 /\ n \in 1 .. n
    BY <1>1
  <2> QED
    BY <1>2, <1>4, <2>1, <2>2, <2>3 DEF Growing
<1> QED
  BY <1>2, <1>3, <1>5 DEF h, n, Last

\* The settings before main looks at the command line.
LEMMA SettingsInit == StartInit => Typed /\ SettingsInv
<1> SUFFICES ASSUME StartInit PROVE Typed /\ SettingsInv
  OBVIOUS
<1>1. argv \in Seq(Words)
  <2>1. PICK m \in 0 .. MaxWords : argv \in [1 .. m -> Words]
    BY DEF StartInit, BoundedSeq, SeqOf
  <2>2. m \in Nat
    BY StartupAssumption
  <2> QED
    BY <2>1, <2>2
<1>2. index \in 1 .. Len(argv) + 1 /\ position \in Nat
  BY <1>1 DEF StartInit
<1>3. << >> \in Seq(Letters) /\ DefaultPort \in Seq(Letters)
  BY StartupAssumption
<1>4. \A s \in Settings : Default[s] \in Seq(Letters) /\ Default[s] \in Bytes
  BY <1>3, NulBehind DEF Default
<1>5. \A s \in Settings : << Default[s] >> \in Values /\ Last(<< Default[s] >>) = Default[s]
  BY <1>4 DEF Values, Last
<1>6. set = Default /\ given = [s \in Settings |-> << Default[s] >>] /\ arg = << >>
  BY DEF StartInit
<1>7. set \in [Settings -> Bytes]
  BY <1>4, <1>6 DEF Default
<1>8. given \in [Settings -> Values] /\ \A s \in Settings : given[s] = << Default[s] >>
  BY <1>5, <1>6
<1>9. Typed
  BY <1>1, <1>2, <1>3, <1>6, <1>7, <1>8 DEF Typed, StartInit
<1> QED
  BY <1>5, <1>6, <1>8, <1>9 DEF SettingsInv, Reads

\* What a step leaves alone when it only looks at the settings.
LEMMA SettingsRest ==
    ASSUME Typed, SettingsInv, set' = set, given' = given, prog' = prog, argv' = argv,
           index' = index, position' = position, arg' = arg
    PROVE  Typed' /\ SettingsInv'
<1>1. Typed'
  BY DEF Typed
<1> QED
  BY <1>1 DEF SettingsInv

\* A value is written over the one before it, with a NUL or without.
LEMMA Overwritten ==
    ASSUME Typed, SettingsInv, NEW t \in Settings, NEW v \in Seq(Letters),
           NEW over, over = v \/ over = Append(v, NUL)
    PROVE  /\ Copy(set[t], over) \in Bytes /\ Append(given[t], v) \in Values
           /\ Growing(Append(given[t], v)) => Reads(Copy(set[t], over), Last(Append(given[t], v)))
<1>1. set[t] \in Bytes /\ given[t] \in Values
  BY DEF Typed
<1>2. /\ Append(given[t], v) \in Values /\ Last(Append(given[t], v)) = v
      /\ Growing(Append(given[t], v)) => Growing(given[t]) /\ Len(Last(given[t])) <= Len(v)
  BY <1>1, GrowingOn
<1>3. Last(given[t]) \in Seq(Letters)
  <2> DEFINE S == Seq(Letters)
             g == given[t]
  <2>1. g \in Seq(S) /\ g # << >>
    BY <1>1 DEF Values
  <2> HIDE DEF S, g
  <2>2. Len(g) \in 1 .. Len(g)
    BY <2>1, EmptySeq
  <2>3. g[Len(g)] \in S
    BY <2>1, <2>2
  <2> QED
    BY <2>3 DEF Last, S, g
<1>4. /\ Copy(set[t], over) \in Bytes
      /\ Reads(set[t], Last(given[t])) /\ Len(Last(given[t])) <= Len(v) => Reads(Copy(set[t], over), v)
  BY <1>1, <1>3, Copied
<1>5. Growing(given[t]) => Reads(set[t], Last(given[t]))
  BY DEF SettingsInv
<1> QED
  BY <1>2, <1>4, <1>5

\* One setting is written.
LEMMA SettingsAccept ==
    ASSUME Typed, SettingsInv, NEW t \in Settings, NEW v \in Seq(Letters),
           NEW over, over = v \/ over = Append(v, NUL),
           set' = [set EXCEPT ![t] = Copy(@, over)], given' = [given EXCEPT ![t] = Append(@, v)],
           prog' = prog, argv' = argv, index' = index, position' = position, arg' = arg
    PROVE  Typed' /\ SettingsInv'
<1> DEFINE x == Copy(set[t], over)
           y == Append(given[t], v)
<1>1. x \in Bytes /\ y \in Values /\ (Growing(y) => Reads(x, Last(y)))
  BY Overwritten
<1>2. set' = [set EXCEPT ![t] = x] /\ given' = [given EXCEPT ![t] = y]
  OBVIOUS
<1> HIDE DEF x, y
<1>3. set'[t] = x /\ given'[t] = y
  BY <1>2 DEF Typed
<1>4. \A s \in Settings : s # t => set'[s] = set[s] /\ given'[s] = given[s]
  BY <1>2 DEF Typed
<1>5. Typed'
  <2>1. set' \in [Settings -> Bytes]
    BY <1>1, <1>2 DEF Typed
  <2>2. given' \in [Settings -> Values]
    BY <1>1, <1>2 DEF Typed
  <2> QED
    BY <2>1, <2>2 DEF Typed
<1>6. ASSUME NEW s \in Settings, Growing(given'[s]) PROVE Reads(set'[s], Last(given'[s]))
  <2>1. CASE s = t
    BY <1>1, <1>3, <1>6, <2>1
  <2>2. CASE s # t
    BY <1>4, <1>6, <2>2 DEF SettingsInv
  <2> QED
    BY <2>1, <2>2
<1> QED
  BY <1>5, <1>6 DEF SettingsInv

\* Where a step of xgetopt goes on, and with what.
LEMMA ScanKeeps ==
    ASSUME Typed, xgetopt
    PROVE  index' \in 1 .. Len(argv) + 1 /\ position' \in Nat /\ arg' \in Seq(Letters)
<1>1. /\ index \in 1 .. Len(argv) /\ Word(index) = argv[index]
      /\ argv[index] \in Seq(Letters) /\ Len(argv[index]) \in Nat
      /\ Len(argv) \in Nat
  BY OptionWord DEF xgetopt
<1>2. position \in Nat
  BY DEF Typed
<1> DEFINE w == argv[index]
           o == Char(w, position + 2)
           rest == SubSeq(w, position + 3, Len(w))
<1>3. rest \in Seq(Letters) /\ << >> \in Seq(Letters)
  BY <1>1, <1>2, SubSeqProperties
<1>4. \/ arg' = << >> /\ index' = index /\ position' = position
      \/ arg' = rest /\ index' = index + 1 /\ position' = 0
      \/ index < Len(argv) /\ arg' = argv[index + 1] /\ index' = index + 2 /\ position' = 0
      \/ /\ arg' = << >> /\ index' \in {index, index + 1} /\ position' \in {0, position + 1}
  BY <1>1 DEF xgetopt, Returned, NextWord
<1>5. index < Len(argv) => argv[index + 1] \in Seq(Letters)
  <2>1. SUFFICES ASSUME index < Len(argv) PROVE argv[index + 1] \in Seq(Letters)
    OBVIOUS
  <2>2. index + 1 \in 1 .. Len(argv)
    BY <1>1, <2>1
  <2> QED
    BY <2>2, WordsAre
<1> HIDE DEF rest
<1>6. arg' \in Seq(Letters)
  BY <1>3, <1>4, <1>5
<1>7. position' \in Nat
  <2>1. position' \in {position, 0, position + 1}
    BY <1>4
  <2>2. {position, 0, position + 1} \subseteq Nat
    BY <1>2
  <2> QED
    BY <2>1, <2>2
<1>8. index' \in 1 .. Len(argv) + 1
  <2>1. index' \in {index, index + 1} \/ (index < Len(argv) /\ index' = index + 2)
    BY <1>4
  <2>2. {index, index + 1} \subseteq 1 .. Len(argv) + 1
    BY <1>1
  <2>3. index < Len(argv) => index + 2 \in 1 .. Len(argv) + 1
    BY <1>1
  <2> QED
    BY <2>1, <2>2, <2>3
<1> QED
  BY <1>6, <1>7, <1>8

\* What is typed is written over an array that reads as nothing.
LEMMA PromptKeeps ==
    ASSUME Typed, SettingsInv, prompt_args
    PROVE  Typed' /\ SettingsInv'
<1>1. prog' = prog /\ argv' = argv /\ index' = index /\ position' = position /\ arg' = arg
  BY DEF prompt_args, xgo
<1>2. PICK typing \in [Missing -> Answers] :
          /\ set' = [s \in Settings |-> IF s \in Missing THEN Copy(set[s], typing[s]) ELSE set[s]]
          /\ given' = [s \in Settings |->
                          IF s \in Missing THEN Append(given[s], typing[s]) ELSE given[s]]
  BY DEF prompt_args
<1>3. \A s \in Missing : typing[s] \in Seq(Letters)
  <2>1. \A s \in Missing : typing[s] \in Answers
    BY <1>2
  <2> QED
    BY <2>1, StartupAssumption
<1>4. ASSUME NEW s \in Settings
      PROVE  /\ set'[s] \in Bytes /\ given'[s] \in Values
             /\ Growing(given'[s]) => Reads(set'[s], Last(given'[s]))
  <2>1. CASE s \in Missing
    <3>1. set'[s] = Copy(set[s], typing[s]) /\ given'[s] = Append(given[s], typing[s])
      BY <1>2, <2>1
    <3>2. typing[s] \in Seq(Letters)
      BY <1>3, <2>1
    <3>3. /\ Copy(set[s], typing[s]) \in Bytes /\ Append(given[s], typing[s]) \in Values
          /\ Growing(Append(given[s], typing[s])) =>
                Reads(Copy(set[s], typing[s]), Last(Append(given[s], typing[s])))
      BY <3>2, Overwritten
    <3> QED
      BY <3>1, <3>3
  <2>2. CASE s \notin Missing
    <3>1. set'[s] = set[s] /\ given'[s] = given[s]
      BY <1>2, <2>2
    <3> QED
      BY <3>1 DEF SettingsInv, Typed
  <2> QED
    BY <2>1, <2>2
<1>5. set' \in [Settings -> Bytes] /\ given' \in [Settings -> Values]
  <2>1. DOMAIN set' = Settings /\ set' = [s \in Settings |-> set'[s]]
    BY <1>2
  <2>2. DOMAIN given' = Settings /\ given' = [s \in Settings |-> given'[s]]
    BY <1>2
  <2> QED
    BY <1>4, <2>1, <2>2
<1>6. Typed'
  BY <1>1, <1>5 DEF Typed
<1> QED
  BY <1>4, <1>6 DEF SettingsInv

\* Every step of main keeps all of it.
LEMMA SettingsNext ==
    ASSUME Typed, SettingsInv, [StartNext]_startvars
    PROVE  Typed' /\ SettingsInv'
<1>1. CASE UNCHANGED startvars
  BY <1>1, SettingsRest DEF startvars, xgo
<1>2. CASE xgetopt_stop
  <2>1. /\ set' = set /\ given' = given /\ prog' = prog /\ argv' = argv /\ position' = position
        /\ arg' = arg
    BY <1>2 DEF xgetopt_stop
  <2>2. index' \in 1 .. Len(argv) + 1
    <3>1. index \in 1 .. Len(argv) + 1 /\ Len(argv) \in Nat
      BY DEF Typed
    <3>2. index > Len(argv) => Word(index) # <<"-", "-">>
      BY <3>1 DEF Word
    <3>3. index' = index \/ (index' = index + 1 /\ Word(index) = <<"-", "-">>)
      BY <1>2 DEF xgetopt_stop
    <3> QED
      BY <3>1, <3>2, <3>3
  <2> QED
    BY <2>1, <2>2 DEF Typed, SettingsInv
<1>3. CASE xgetopt
  <2>1. /\ set' = set /\ given' = given /\ prog' = prog /\ argv' = argv
    BY <1>3 DEF xgetopt
  <2>2. index' \in 1 .. Len(argv) + 1 /\ position' \in Nat /\ arg' \in Seq(Letters)
    BY <1>3, ScanKeeps
  <2> QED
    BY <2>1, <2>2 DEF Typed, SettingsInv
<1>4. CASE prompt_args
  BY <1>4, PromptKeeps
<1>5. CASE case_a \/ case_u \/ case_p
  <2>1. /\ prog' = prog /\ argv' = argv /\ index' = index /\ position' = position /\ arg' = arg
    BY <1>5 DEF case_a, case_u, case_p, Case, xgo
  <2>2. \/ \E t \in Settings : Accept(t, arg)
        \/ set' = set /\ given' = given
    BY <1>5 DEF case_a, case_u, case_p, Refuse, Settings
  <2>3. CASE set' = set /\ given' = given
    BY <2>1, <2>3, SettingsRest
  <2>4. ASSUME NEW t \in Settings, Accept(t, arg) PROVE Typed' /\ SettingsInv'
    <3>1. set' = [set EXCEPT ![t] = Copy(@, arg)] /\ given' = [given EXCEPT ![t] = Append(@, arg)]
      BY <2>4 DEF Accept
    <3>2. arg \in Seq(Letters)
      BY DEF Typed
    <3> QED
      BY <2>1, <3>1, <3>2, SettingsAccept
  <2> QED
    BY <2>2, <2>3, <2>4
<1>6. CASE case_l
  <2>1. /\ prog' = prog /\ argv' = argv /\ index' = index /\ position' = position /\ arg' = arg
    BY <1>6 DEF case_l, Case, xgo
  <2>2. CASE Refuse
    BY <2>1, <2>2, SettingsRest DEF Refuse
  <2>3. CASE ~Refuse
    <3>1. /\ set' = [set EXCEPT !["username"] = Copy(@, Append(Login, NUL))]
          /\ given' = [given EXCEPT !["username"] = Append(@, Login)]
      BY <1>6, <2>3 DEF case_l
    <3>2. "username" \in Settings /\ Login \in Seq(Letters)
      BY StartupAssumption DEF Settings
    <3> QED
      BY <2>1, <3>1, <3>2, SettingsAccept
  <2> QED
    BY <2>2, <2>3
<1>7. CASE case_q \/ case_ends
  <2>1. /\ prog' = prog /\ argv' = argv /\ index' = index /\ position' = position /\ arg' = arg
        /\ set' = set /\ given' = given
    BY <1>7 DEF case_q, case_ends, Case, xgo, Refuse
  <2> QED
    BY <2>1, SettingsRest
<1>8. CASE connect_server
  <2>1. /\ prog' = prog /\ argv' = argv /\ index' = index /\ position' = position /\ arg' = arg
        /\ set' = set /\ given' = given
    BY <1>8 DEF connect_server, xgo
  <2> QED
    BY <2>1, SettingsRest
<1> QED
  BY <1>1, <1>2, <1>3, <1>4, <1>5, <1>6, <1>7, <1>8 DEF StartNext

-----------------------------------------------------------------------------
(***************************************************************************)
(* Induction and recursion, for the reference's recursive functions.       *)
(***************************************************************************)

\* A set of numbers that is not empty has a least one.
LEMMA Least ==
    ASSUME NEW F, F \subseteq Nat, F # {}
    PROVE  \E m \in F : \A y \in F : m <= y
<1> DEFINE R == OpToRel(<, Nat)
<1>1. IsWellFoundedOn(R, Nat)
  BY NatLessThanWellFounded, Zenon
<1>2. \A k, m \in Nat : k < m => <<k, m>> \in R
  BY DEF OpToRel
<1> HIDE DEF R
<1>3. PICK m \in F : \A y \in F : ~(<<y, m>> \in R)
  BY <1>1, WFMin
<1>4. ASSUME NEW y \in F PROVE m <= y
  <2>1. m \in Nat /\ y \in Nat /\ ~(<<y, m>> \in R)
    BY <1>3
  <2>2. ~(y < m)
    BY <1>2, <2>1
  <2> QED
    BY <2>1, <2>2
<1> QED
  BY <1>4

\* What holds of 0 and goes on from each number to the next holds up to N.
LEMMA Induction ==
    ASSUME NEW N \in Nat, NEW T, 0 \in T, \A i \in 1 .. N : i - 1 \in T => i \in T
    PROVE  \A i \in 0 .. N : i \in T
<1> DEFINE F == {i \in 0 .. N : i \notin T}
<1>1. SUFFICES ASSUME F # {} PROVE FALSE
  OBVIOUS
<1>2. F \subseteq Nat
  OBVIOUS
<1>3. PICK m \in F : \A y \in F : m <= y
  <2> HIDE DEF F
  <2> QED
    BY <1>1, <1>2, Least
<1>4. m \in 1 .. N /\ m - 1 \in 0 .. N /\ ~(m <= m - 1)
  OBVIOUS
<1>5. m - 1 \in T
  BY <1>3, <1>4
<1> QED
  BY <1>3, <1>4, <1>5

\* f begins with b and goes on by the steps h
Iterates(f, N, S, b, h) ==
    f \in [0 .. N -> S] /\ f[0] = b /\ \A i \in 1 .. N : f[i] = h[i][f[i - 1]]

\* There is such a function.
LEMMA Recursion ==
    ASSUME NEW N \in Nat, NEW S, NEW b \in S, NEW h,
           \A i \in 1 .. N : \A x \in S : h[i][x] \in S
    PROVE  \E f : Iterates(f, N, S, b, h)
<1> DEFINE T == {k \in 0 .. N : \E f : Iterates(f, k, S, b, h)}
<1>1. 0 \in T
  <2> DEFINE f == [i \in 0 .. 0 |-> b]
  <2>1. f \in [0 .. 0 -> S] /\ f[0] = b
    OBVIOUS
  <2>2. \A i \in 1 .. 0 : f[i] = h[i][f[i - 1]]
    OBVIOUS
  <2> HIDE DEF f
  <2>3. Iterates(f, 0, S, b, h)
    BY <2>1, <2>2 DEF Iterates
  <2> QED
    BY <2>3
<1>2. ASSUME NEW m \in 1 .. N, m - 1 \in T PROVE m \in T
  <2>1. PICK g : Iterates(g, m - 1, S, b, h)
    BY <1>2
  <2>2. /\ g \in [0 .. m - 1 -> S] /\ g[0] = b
        /\ \A i \in 1 .. m - 1 : g[i] = h[i][g[i - 1]]
    BY <2>1 DEF Iterates
  <2> DEFINE f == [i \in 0 .. m |-> IF i = m THEN h[m][g[m - 1]] ELSE g[i]]
  <2>3. f \in [0 .. m -> S] /\ f[0] = b
    BY <2>2
  <2>4. ASSUME NEW i \in 1 .. m PROVE f[i] = h[i][f[i - 1]]
    <3>1. f[i - 1] = g[i - 1]
      OBVIOUS
    <3>2. i # m => f[i] = g[i] /\ i \in 1 .. m - 1
      OBVIOUS
    <3>3. i = m => f[i] = h[m][g[m - 1]]
      OBVIOUS
    <3> HIDE DEF f
    <3> QED
      BY <2>2, <3>1, <3>2, <3>3
  <2> HIDE DEF f
  <2>5. Iterates(f, m, S, b, h)
    BY <2>3, <2>4 DEF Iterates
  <2> QED
    BY <2>5
<1> HIDE DEF T
<1>3. \A i \in 0 .. N : i \in T
  BY <1>1, <1>2, Induction
<1> QED
  BY <1>3 DEF T


-----------------------------------------------------------------------------
(***************************************************************************)
(* The reference: what Letter, Cluster and LastOptions are for any words.  *)
(***************************************************************************)

\* What xgetopt may return, one call after the other.
Lists == Seq((Letters \cup {"?", ":"}) \X Seq(Letters))

\* One more in front.
LEMMA InFront ==
    ASSUME NEW o \in Letters \cup {"?", ":"}, NEW v \in Seq(Letters), NEW l \in Lists
    PROVE  << <<o, v>> >> \o l \in Lists /\ << <<o, v>> >> \in Lists
<1>1. << <<o, v>> >> \in Lists
  BY DEF Lists
<1> QED
  BY <1>1, ConcatProperties DEF Lists

\* A letter adds at most one to what comes behind it.
LEMMA LetterIs ==
    ASSUME NEW p, NEW a \in Seq(Seq(Letters)), NEW k \in 1 .. Len(a), NEW j \in 1 .. Len(FromEnd(a, k)),
           NEW more \in Lists, NEW after \in Lists, NEW skip \in Lists
    PROVE  Letter(p, a, k, j, more, after, skip) \in Lists
<1> DEFINE w == FromEnd(a, k)
           o == FromEnd(w, j)
           rest == SubSeq(w, Len(w) + 2 - j, Len(w))
<1>1. w \in Seq(Letters) /\ Len(w) \in Nat
  BY DEF FromEnd
<1>2. o \in Letters
  BY <1>1 DEF FromEnd
<1>3. rest \in Seq(Letters)
  <2>1. Len(w) + 2 - j \in Nat /\ Len(w) + 2 - j >= 1
    BY <1>1
  <2> QED
    BY <1>1, <2>1, SubSeqProperties
<1>4. k > 1 => FromEnd(a, k - 1) \in Seq(Letters)
  BY DEF FromEnd
<1>5. << >> \in Seq(Letters)
  OBVIOUS
<1>6. /\ << <<o, << >>>> >> \o more \in Lists
      /\ << <<o, rest>> >> \o after \in Lists
      /\ << <<"?", << >>>> >> \in Lists /\ << <<":", << >>>> >> \in Lists
  BY <1>2, <1>3, <1>5, InFront
<1>7. k > 1 => << <<o, FromEnd(a, k - 1)>> >> \o skip \in Lists
  BY <1>2, <1>4, InFront
<1>8. Letter(p, a, k, j, more, after, skip) =
          IF ~Known(p, o) THEN << <<"?", << >>>> >>
          ELSE IF ~Takes(p, o) THEN << <<o, << >>>> >> \o more
          ELSE IF j > 1 THEN << <<o, rest>> >> \o after
          ELSE IF k > 1 THEN << <<o, FromEnd(a, k - 1)>> >> \o skip
          ELSE << <<":", << >>>> >>
  BY DEF Letter
<1> HIDE DEF w, o, rest
<1> QED
  BY <1>6, <1>7, <1>8

\* f has the options from each letter of the k-th word from the end.
Letterwise(f, p, a, k, after, skip) ==
    /\ f \in [0 .. Len(FromEnd(a, k)) -> Lists] /\ f[0] = after
    /\ \A j \in 1 .. Len(FromEnd(a, k)) : f[j] = Letter(p, a, k, j, f[j - 1], after, skip)

\* Cluster is that function: there is one, and one only.
LEMMA ClusterIs ==
    ASSUME NEW p, NEW a \in Seq(Seq(Letters)), NEW k \in 1 .. Len(a),
           NEW after \in Lists, NEW skip \in Lists
    PROVE  Letterwise(Cluster(p, a, k, after, skip), p, a, k, after, skip)
<1> DEFINE N == Len(FromEnd(a, k))
           L(j, x) == Letter(p, a, k, j, x, after, skip)
           h == [j \in 1 .. N |-> [x \in Lists |-> L(j, x)]]
           P(g) == g = [j \in 0 .. N |-> IF j = 0 THEN after ELSE L(j, g[j - 1])]
           t == CHOOSE g : P(g)
<1>1. N \in Nat
  BY DEF FromEnd
<1>2. \A j \in 1 .. N : \A x \in Lists : L(j, x) \in Lists
  BY LetterIs
<1>3. Cluster(p, a, k, after, skip) = t
  BY DEF Cluster
<1> HIDE DEF L, N
<1>4. \A j \in 1 .. N : \A x \in Lists : h[j][x] = L(j, x) /\ h[j][x] \in Lists
  BY <1>2
<1> HIDE DEF h
<1>5. PICK f : Iterates(f, N, Lists, after, h)
  <2>1. \A j \in 1 .. N : \A x \in Lists : h[j][x] \in Lists
    BY <1>4
  <2> QED
    BY ONLY <1>1, <2>1, after \in Lists, Recursion
<1>6. /\ f \in [0 .. N -> Lists] /\ f[0] = after
      /\ \A j \in 1 .. N : f[j] = L(j, f[j - 1])
  <2>1. /\ f \in [0 .. N -> Lists] /\ f[0] = after
        /\ \A j \in 1 .. N : f[j] = h[j][f[j - 1]]
    BY <1>5 DEF Iterates
  <2>2. \A j \in 1 .. N : j - 1 \in 0 .. N
    BY <1>1
  <2> QED
    BY <1>4, <2>1, <2>2
<1>7. P(f)
  <2>1. \A j \in 0 .. N : f[j] = IF j = 0 THEN after ELSE L(j, f[j - 1])
    BY <1>1, <1>6
  <2> QED
    BY <1>6, <2>1
<1>8. P(t)
  BY <1>7
<1> HIDE DEF t
<1>9. DOMAIN t = 0 .. N /\ t = [j \in 0 .. N |-> t[j]] /\ t[0] = after /\ \A j \in 1 .. N : t[j] = L(j, t[j - 1])
  <2> HIDE DEF P
  <2>1. 0 \in 0 .. N /\ \A i \in 1 .. N : i \in 0 .. N /\ i # 0
    BY <1>1
  <2> QED
    BY <1>8, <2>1 DEF P
<1> DEFINE T == {j \in 0 .. N : t[j] = f[j]}
<1>10. 0 \in T
  BY <1>1, <1>6, <1>9
<1>11. ASSUME NEW j \in 1 .. N, j - 1 \in T PROVE j \in T
  <2>1. j \in 0 .. N /\ t[j - 1] = f[j - 1]
    BY <1>1, <1>11
  <2>2. t[j] = L(j, t[j - 1]) /\ f[j] = L(j, f[j - 1])
    BY <1>6, <1>9
  <2>3. t[j] = f[j]
    BY <2>1, <2>2
  <2> QED
    BY <2>1, <2>3
<1> HIDE DEF T
<1>12. \A j \in 0 .. N : j \in T
  BY <1>1, <1>10, <1>11, Induction
<1>13. t \in [0 .. N -> Lists]
  BY <1>6, <1>9, <1>12 DEF T
<1> QED
  BY <1>3, <1>9, <1>13 DEF Letterwise, L, N

\* The options of the words behind the argument of the k-th word from the end.
Skip(F, k) == IF k = 1 THEN << >> ELSE F[k - 2]

\* F has the options from each word on.
Wordwise(F, p, a) ==
    /\ F \in [0 .. Len(a) -> Lists] /\ F[0] = << >>
    /\ \A k \in 1 .. Len(a) : F[k] = FromWord(p, a, k, F[k - 1], Skip(F, k))

\* A word's options are a list too.
LEMMA FromWordIs ==
    ASSUME NEW p, NEW a \in Seq(Seq(Letters)), NEW k \in 1 .. Len(a),
           NEW after \in Lists, NEW skip \in Lists
    PROVE  FromWord(p, a, k, after, skip) \in Lists
<1> DEFINE w == FromEnd(a, k)
           f == Cluster(p, a, k, after, skip)
<1>1. w \in Seq(Letters) /\ Len(w) \in Nat
  BY DEF FromEnd
<1>2. f \in [0 .. Len(w) -> Lists]
  BY ClusterIs DEF Letterwise
<1>3. << >> \in Lists
  BY DEF Lists
<1>4. ~Stops(w) => Len(w) - 1 \in 0 .. Len(w)
  <2>1. SUFFICES ASSUME ~Stops(w) PROVE Len(w) - 1 \in 0 .. Len(w)
    OBVIOUS
  <2>2. Char(w, 2) # NUL
    BY <2>1 DEF Stops
  <2>3. 2 <= Len(w)
    BY <2>2 DEF Char
  <2> QED
    BY <1>1, <2>3
<1>5. FromWord(p, a, k, after, skip) = IF Stops(w) THEN << >> ELSE f[Len(w) - 1]
  BY DEF FromWord
<1> HIDE DEF w, f
<1> QED
  BY <1>2, <1>3, <1>4, <1>5

\* LastOptions is the one such function.  It looks two words back, so what is
\* iterated are pairs.
LEMMA LastOptionsIs ==
    ASSUME NEW p, NEW a \in Seq(Seq(Letters))
    PROVE  Wordwise(LastOptions(p, a), p, a)
<1> DEFINE N == Len(a)
           W(k, x, y) == FromWord(p, a, k, x, y)
           S == Lists \X Lists
           b == << << >>, << >> >>
           h == [k \in 1 .. N |-> [x \in S |-> <<W(k, x[1], x[2]), x[1]>>]]
           P(g) == g = [k \in 0 .. N |->
                           IF k = 0 THEN << >> ELSE W(k, g[k - 1], IF k = 1 THEN << >> ELSE g[k - 2])]
           t == CHOOSE g : P(g)
<1>1. N \in Nat /\ << >> \in Lists
  BY DEF Lists
<1>2. \A k \in 1 .. N : \A x, y \in Lists : W(k, x, y) \in Lists
  BY FromWordIs
<1>3. LastOptions(p, a) = t
  BY DEF LastOptions
<1>4. b \in S
  BY <1>1
<1> HIDE DEF W, N
<1>5. \A k \in 1 .. N : \A x \in S : h[k][x] = <<W(k, x[1], x[2]), x[1]>> /\ h[k][x] \in S
  BY <1>2
<1> HIDE DEF h
<1>6. PICK f : Iterates(f, N, S, b, h)
  <2>1. \A k \in 1 .. N : \A x \in S : h[k][x] \in S
    BY <1>5
  <2> HIDE DEF S, b
  <2> QED
    BY ONLY <1>1, <1>4, <2>1, Recursion
<1>7. /\ f \in [0 .. N -> S] /\ f[0] = b
      /\ \A k \in 1 .. N : f[k] = <<W(k, f[k - 1][1], f[k - 1][2]), f[k - 1][1]>>
  <2>1. /\ f \in [0 .. N -> S] /\ f[0] = b
        /\ \A k \in 1 .. N : f[k] = h[k][f[k - 1]]
    BY <1>6 DEF Iterates
  <2>2. \A k \in 1 .. N : k - 1 \in 0 .. N
    BY <1>1
  <2> HIDE DEF S, b
  <2> QED
    BY <1>5, <2>1, <2>2
<1> DEFINE F == [k \in 0 .. N |-> f[k][1]]
<1>8. \A k \in 0 .. N : f[k][1] \in Lists /\ F[k] = f[k][1]
  BY <1>7
<1>9. F \in [0 .. N -> Lists] /\ F[0] = << >>
  BY <1>1, <1>7, <1>8
<1>10. \A k \in 1 .. N : f[k - 1][2] = IF k = 1 THEN << >> ELSE F[k - 2]
  <2>1. SUFFICES ASSUME NEW k \in 1 .. N PROVE f[k - 1][2] = IF k = 1 THEN << >> ELSE F[k - 2]
    OBVIOUS
  <2>2. CASE k = 1
    BY <1>7, <2>2
  <2>3. CASE k # 1
    <3>1. k - 1 \in 1 .. N /\ k - 2 \in 0 .. N /\ (k - 1) - 1 = k - 2
      BY <1>1, <2>3
    <3>2. f[k - 1][2] = f[k - 2][1]
      BY <1>7, <3>1
    <3> QED
      BY <1>8, <2>3, <3>1, <3>2
  <2> QED
    BY <2>2, <2>3
<1> HIDE DEF F
<1>11. \A k \in 1 .. N : F[k] = W(k, F[k - 1], IF k = 1 THEN << >> ELSE F[k - 2])
  <2>1. SUFFICES ASSUME NEW k \in 1 .. N
                 PROVE  F[k] = W(k, F[k - 1], IF k = 1 THEN << >> ELSE F[k - 2])
    OBVIOUS
  <2>2. k \in 0 .. N /\ k - 1 \in 0 .. N
    BY <1>1
  <2>3. F[k] = f[k][1] /\ F[k - 1] = f[k - 1][1]
    BY <1>8, <2>2
  <2>4. f[k][1] = W(k, f[k - 1][1], f[k - 1][2])
    BY <1>7
  <2> QED
    BY <1>10, <2>3, <2>4
<1>12. P(F)
  <2>1. \A k \in 0 .. N : F[k] = IF k = 0 THEN << >>
                                 ELSE W(k, F[k - 1], IF k = 1 THEN << >> ELSE F[k - 2])
    BY <1>1, <1>9, <1>11
  <2> QED
    BY <1>9, <2>1
<1>13. P(t)
  BY <1>12
<1> HIDE DEF t
<1>14. /\ DOMAIN t = 0 .. N /\ t = [k \in 0 .. N |-> t[k]] /\ t[0] = << >>
       /\ \A k \in 1 .. N : t[k] = W(k, t[k - 1], IF k = 1 THEN << >> ELSE t[k - 2])
  <2> HIDE DEF P
  <2>1. 0 \in 0 .. N /\ \A i \in 1 .. N : i \in 0 .. N /\ i # 0
    BY <1>1
  <2> QED
    BY <1>13, <2>1 DEF P
<1> DEFINE T == {k \in 0 .. N : t[k] = F[k] /\ (k >= 1 => t[k - 1] = F[k - 1])}
<1>15. 0 \in T
  BY <1>1, <1>9, <1>14
<1>16. ASSUME NEW k \in 1 .. N, k - 1 \in T PROVE k \in T
  <2>1. k \in 0 .. N /\ t[k - 1] = F[k - 1] /\ (k # 1 => t[k - 2] = F[k - 2])
    BY <1>1, <1>16
  <2>2. /\ t[k] = W(k, t[k - 1], IF k = 1 THEN << >> ELSE t[k - 2])
        /\ F[k] = W(k, F[k - 1], IF k = 1 THEN << >> ELSE F[k - 2])
    BY <1>11, <1>14
  <2>3. t[k] = F[k]
    BY <2>1, <2>2
  <2> QED
    BY <2>1, <2>3
<1> HIDE DEF T
<1>17. \A k \in 0 .. N : k \in T
  BY <1>1, <1>15, <1>16, Induction
<1>18. t \in [0 .. N -> Lists]
  BY <1>9, <1>14, <1>17 DEF T
<1> QED
  BY <1>3, <1>14, <1>18 DEF Wordwise, Skip, W, N

-----------------------------------------------------------------------------
(***************************************************************************)
(* xgetopt against the reference.                                          *)
(***************************************************************************)

\* how many words there are from xgetopt's on
Behind == Len(argv) + 1 - index

\* the options from each letter of xgetopt's word on
Letterly ==
    Cluster(prog, argv, Behind, LastOptions(prog, argv)[Behind - 1],
            Skip(LastOptions(prog, argv), Behind))

\* What xgetopt has still to return: from its word on, or from a letter of it.
Remaining ==
    IF position = 0 THEN LastOptions(prog, argv)[Behind]
    ELSE Letterly[Len(argv[index]) - 1 - position]

(***************************************************************************)
(* xgetopt is inside a word only if that word has letters left.  What it   *)
(* returned and what it still has to return are the options, until it      *)
(* stops or returns an error: those end the list.                          *)
(***************************************************************************)
ScanInv ==
    /\ got \in Lists
    /\ position > 0 =>
          index <= Len(argv) /\ ~Stops(argv[index]) /\ position < Len(argv[index]) - 1
    /\ pc = "getopt" \/ (pc = "case" /\ option \notin {"?", ":"}) =>
          got \o Remaining = Options(prog, argv)
    /\ pc = "case" /\ option \in {"?", ":"} => got = Options(prog, argv)
    /\ pc \in {"ended", "undefined"} => \E l \in Lists : got \o l = Options(prog, argv)
    /\ pc \notin {"getopt", "case", "ended", "undefined"} => got = Options(prog, argv)

\* The words are words, and the functions of the reference are what they should be.
LEMMA Reference ==
    ASSUME Typed
    PROVE  /\ argv \in Seq(Seq(Letters)) /\ Len(argv) \in Nat
           /\ Wordwise(LastOptions(prog, argv), prog, argv)
           /\ Behind \in 0 .. Len(argv)
           /\ \A k \in 1 .. Len(argv) : Skip(LastOptions(prog, argv), k) \in Lists
<1>1. argv \in Seq(Seq(Letters)) /\ Len(argv) \in Nat
  BY StartupAssumption, SeqMonotonic DEF Typed
<1>2. Wordwise(LastOptions(prog, argv), prog, argv)
  BY <1>1, LastOptionsIs
<1>3. Behind \in 0 .. Len(argv)
  BY <1>1 DEF Typed, Behind
<1>4. << >> \in Lists
  BY DEF Lists
<1>5. ASSUME NEW k \in 1 .. Len(argv) PROVE Skip(LastOptions(prog, argv), k) \in Lists
  <2>1. LastOptions(prog, argv) \in [0 .. Len(argv) -> Lists]
    BY <1>2 DEF Wordwise
  <2>2. k # 1 => k - 2 \in 0 .. Len(argv)
    BY <1>1
  <2>3. k # 1 => LastOptions(prog, argv)[k - 2] \in Lists
    BY <2>1, <2>2
  <2> QED
    BY <1>4, <2>3 DEF Skip
<1> QED
  BY <1>1, <1>2, <1>3, <1>5

\* The letter that xgetopt looks at, and what the reference makes of it.
LEMMA LetterRead ==
    ASSUME Typed, ScanInv, ~Stops(Word(index)),
           NEW w, w = argv[index], NEW j, j = Len(w) - 1 - position
    PROVE  /\ index \in 1 .. Len(argv) /\ Word(index) = w /\ w \in Seq(Letters)
           /\ Len(w) \in Nat /\ Len(w) >= 2
           /\ Behind \in 1 .. Len(argv) /\ FromEnd(argv, Behind) = w
           /\ j \in 1 .. Len(w) /\ position \in Nat
           /\ Letterly[0] = LastOptions(prog, argv)[Behind - 1]
           /\ Letterly \in [0 .. Len(w) -> Lists]
           /\ Remaining = Letter(prog, argv, Behind, j, Letterly[j - 1],
                                 LastOptions(prog, argv)[Behind - 1],
                                 Skip(LastOptions(prog, argv), Behind))
<1>1. /\ index \in 1 .. Len(argv) /\ Word(index) = w
      /\ w \in Seq(Letters) /\ Len(w) \in Nat /\ Len(w) >= 2
      /\ Len(argv) \in Nat
  BY OptionWord
<1>2. position \in Nat /\ (position > 0 => position < Len(w) - 1)
  BY DEF Typed, ScanInv
<1>3. Behind \in 1 .. Len(argv) /\ FromEnd(argv, Behind) = w
  BY <1>1 DEF Behind, FromEnd
<1>4. j \in 1 .. Len(w)
  BY <1>1, <1>2
<1>5. /\ Wordwise(LastOptions(prog, argv), prog, argv) /\ argv \in Seq(Seq(Letters))
      /\ Skip(LastOptions(prog, argv), Behind) \in Lists
  BY <1>3, Reference
<1>6. LastOptions(prog, argv)[Behind - 1] \in Lists
  <2>1. LastOptions(prog, argv) \in [0 .. Len(argv) -> Lists]
    BY <1>5 DEF Wordwise
  <2>2. Behind - 1 \in 0 .. Len(argv)
    BY <1>1, <1>3
  <2> QED
    BY <2>1, <2>2
<1>7. Letterwise(Letterly, prog, argv, Behind, LastOptions(prog, argv)[Behind - 1],
                 Skip(LastOptions(prog, argv), Behind))
  BY <1>3, <1>5, <1>6, ClusterIs DEF Letterly
<1>8. /\ Letterly[0] = LastOptions(prog, argv)[Behind - 1]
      /\ Letterly \in [0 .. Len(w) -> Lists]
      /\ Letterly[j] = Letter(prog, argv, Behind, j, Letterly[j - 1],
                              LastOptions(prog, argv)[Behind - 1],
                              Skip(LastOptions(prog, argv), Behind))
  BY <1>3, <1>4, <1>7 DEF Letterwise
<1>9. Remaining = Letterly[j]
  <2>1. CASE position = 0
    <3>1. Remaining = FromWord(prog, argv, Behind, LastOptions(prog, argv)[Behind - 1],
                               Skip(LastOptions(prog, argv), Behind))
      BY <1>3, <1>5, <2>1 DEF Remaining, Wordwise
    <3>2. Remaining = Letterly[Len(w) - 1]
      BY <1>1, <1>3, <3>1 DEF FromWord, Letterly
    <3>3. j = Len(w) - 1
      BY <1>1, <2>1
    <3> QED
      BY <3>2, <3>3
  <2>2. CASE position # 0
    BY <2>2 DEF Remaining
  <2> QED
    BY <2>1, <2>2
<1> QED
  BY <1>1, <1>2, <1>3, <1>4, <1>8, <1>9

\* One more at the end.
LEMMA Added ==
    ASSUME NEW g \in Lists, NEW o \in Letters \cup {"?", ":"}, NEW v \in Seq(Letters)
    PROVE  Append(g, <<o, v>>) \in Lists /\ Append(g, <<o, v>>) = g \o << <<o, v>> >>
<1> DEFINE e == <<o, v>>
           E == (Letters \cup {"?", ":"}) \X Seq(Letters)
<1>1. e \in E /\ g \in Seq(E)
  BY DEF Lists
<1> HIDE DEF e, E
<1>2. Append(g, e) \in Seq(E) /\ Append(g, e) = g \o <<e>>
  BY <1>1, AppendProperties, AppendIsConcat
<1> QED
  BY <1>2 DEF e, E, Lists

\* What is taken from the front and put at the end keeps its place.
LEMMA Handed ==
    ASSUME NEW g \in Lists, NEW o \in Letters \cup {"?", ":"}, NEW v \in Seq(Letters), NEW l \in Lists
    PROVE  /\ Append(g, <<o, v>>) \in Lists
           /\ Append(g, <<o, v>>) \o l = g \o (<< <<o, v>> >> \o l)
<1> DEFINE e == <<o, v>>
           E == (Letters \cup {"?", ":"}) \X Seq(Letters)
<1>1. e \in E /\ g \in Seq(E) /\ l \in Seq(E)
  BY DEF Lists
<1>2. Append(g, e) \in Lists /\ Append(g, e) = g \o <<e>>
  BY Added
<1> HIDE DEF e, E
<1>3. <<e>> \in Seq(E)
  BY <1>1
<1>4. (g \o <<e>>) \o l = g \o (<<e>> \o l)
  BY <1>1, <1>3, ConcatAssociative
<1> QED
  BY <1>2, <1>4 DEF e

\* xgetopt returns the first of the options that remain, and the others remain.
LEMMA ScanStep ==
    ASSUME Typed, ScanInv, xgetopt
    PROVE  ScanInv'
<1> DEFINE w == argv[index]
           j == Len(w) - 1 - position
           F == LastOptions(prog, argv)
           skip == Skip(F, Behind)
           o == FromEnd(w, j)
           rest == SubSeq(w, position + 3, Len(w))
<1>1. /\ index \in 1 .. Len(argv) /\ Word(index) = w /\ w \in Seq(Letters)
      /\ Len(w) \in Nat /\ Len(w) >= 2
      /\ Behind \in 1 .. Len(argv) /\ FromEnd(argv, Behind) = w
      /\ j \in 1 .. Len(w) /\ position \in Nat
      /\ Letterly[0] = F[Behind - 1] /\ Letterly \in [0 .. Len(w) -> Lists]
      /\ Remaining = Letter(prog, argv, Behind, j, Letterly[j - 1], F[Behind - 1], skip)
  BY LetterRead DEF xgetopt
<1>2. /\ pc = "getopt" /\ pc' = "case" /\ prog' = prog /\ argv' = argv /\ ~Stops(w)
      /\ Len(argv) \in Nat /\ got \in Lists /\ got \o Remaining = Options(prog, argv)
  <2>1. pc = "getopt" /\ pc' = "case" /\ prog' = prog /\ argv' = argv /\ ~Stops(w)
    BY <1>1 DEF xgetopt
  <2>2. got \in Lists /\ got \o Remaining = Options(prog, argv)
    BY <2>1 DEF ScanInv
  <2> QED
    BY <2>1, <2>2 DEF Typed
<1>3. /\ o = w[position + 2] /\ o \in Letters /\ Char(w, position + 2) = o
      /\ SubSeq(w, Len(w) + 2 - j, Len(w)) = rest
      /\ rest \in Seq(Letters) /\ << >> \in Seq(Letters)
      /\ rest = << >> <=> j = 1
      /\ o \in Letters \cup {"?", ":"}
  <2>1. j = Len(w) - 1 - position /\ Len(w) + 1 - j = position + 2 /\ Len(w) + 2 - j = position + 3
    BY <1>1
  <2>2. position + 2 \in 1 .. Len(w) /\ position + 2 <= Len(w)
    BY <1>1
  <2>3. o = w[position + 2] /\ o \in Letters /\ Char(w, position + 2) = o
    BY <1>1, <2>1, <2>2 DEF FromEnd, Char
  <2>4. rest \in Seq(Letters)
    BY <1>1, SubSeqProperties
  <2>5. position + 3 <= Len(w) => rest # << >> /\ j # 1
    <3>1. SUFFICES ASSUME position + 3 <= Len(w) PROVE rest # << >> /\ j # 1
      OBVIOUS
    <3>2. Len(rest) = Len(w) - (position + 3) + 1
      BY <1>1, <3>1, SubSeqProperties
    <3>3. Len(rest) # 0
      BY <1>1, <3>1, <3>2
    <3> HIDE DEF rest
    <3>4. rest # << >>
      BY <3>3
    <3> QED
      BY <1>1, <3>1, <3>4
  <2>6. ~(position + 3 <= Len(w)) => rest = << >> /\ j = 1
    <3>1. SUFFICES ASSUME ~(position + 3 <= Len(w)) PROVE rest = << >> /\ j = 1
      OBVIOUS
    <3>2. rest = << >>
      BY <1>1, <3>1, SubSeqEmpty
    <3> QED
      BY <1>1, <3>1, <3>2
  <2>7. SubSeq(w, Len(w) + 2 - j, Len(w)) = rest
    BY <2>1
  <2> HIDE DEF rest, o, j
  <2> QED
    BY <2>3, <2>4, <2>5, <2>6, <2>7
<1>4. o # "?" \/ ~Known(prog, o)
  <2>1. ~Known("parcel", "?") /\ ~Known("parceld", "?")
    BY DEF Known, optstr
  <2> QED
    BY <2>1 DEF Typed
<1>5. o # ":"
  BY <1>3, StartupAssumption
<1>6. F \in [0 .. Len(argv) -> Lists] /\ skip \in Lists
  BY <1>1, Reference DEF Wordwise
<1>7. Remaining = IF ~Known(prog, o) THEN << <<"?", << >>>> >>
                  ELSE IF ~Takes(prog, o) THEN << <<o, << >>>> >> \o Letterly[j - 1]
                  ELSE IF j > 1 THEN << <<o, rest>> >> \o F[Behind - 1]
                  ELSE IF Behind > 1 THEN << <<o, FromEnd(argv, Behind - 1)>> >> \o skip
                  ELSE << <<":", << >>>> >>
  BY <1>1, <1>3 DEF Letter
<1>8. /\ Behind = Len(argv) + 1 - index
      /\ Behind' = Len(argv) + 1 - index'
  BY <1>2 DEF Behind
<1>9. /\ LastOptions(prog, argv)' = F /\ Options(prog, argv)' = Options(prog, argv)
  BY <1>2
<1>10. \/ ~Known(prog, o) /\ Returned("?", << >>) /\ index' = index /\ position' = position
       \/ /\ Known(prog, o) /\ Takes(prog, o) /\ rest # << >>
          /\ Returned(o, rest) /\ index' = index + 1 /\ position' = 0
       \/ /\ Known(prog, o) /\ Takes(prog, o) /\ rest = << >> /\ index < Len(argv)
          /\ Returned(o, argv[index + 1]) /\ index' = index + 2 /\ position' = 0
       \/ /\ Known(prog, o) /\ Takes(prog, o) /\ rest = << >> /\ index >= Len(argv)
          /\ Returned(":", << >>) /\ index' = index /\ position' = position
       \/ /\ Known(prog, o) /\ ~Takes(prog, o) /\ rest = << >>
          /\ Returned(o, << >>) /\ index' = index + 1 /\ position' = 0
       \/ /\ Known(prog, o) /\ ~Takes(prog, o) /\ rest # << >>
          /\ Returned(o, << >>) /\ index' = index /\ position' = position + 1
  BY <1>1, <1>3 DEF xgetopt, NextWord
<1> HIDE DEF j, o, rest, w, skip, F
<1>typed. got \in Lists /\ o \in Letters \cup {"?", ":"} /\ rest \in Seq(Letters) /\ << >> \in Seq(Letters)
  BY <1>2, <1>3
<1>11. ASSUME got' \in Lists, position' = 0, option' = o, Known(prog, o),
              got' \o F[Behind'] = Options(prog, argv)
       PROVE  ScanInv'
  <2>1. Remaining' = F[Behind']
    BY <1>9, <1>11 DEF Remaining
  <2>2. option' \notin {"?", ":"}
    BY <1>4, <1>5, <1>11
  <2>3. (got \o Remaining)' = Options(prog, argv)'
    BY <1>9, <1>11, <2>1
  <2>4. ~(position' > 0)
    BY <1>11
  <2> QED
    BY <1>2, <1>11, <2>2, <2>3, <2>4 DEF ScanInv
<1>12. ASSUME got' \in Lists, index' = index, position' = position, option' \in {"?", ":"},
              got' = Options(prog, argv)
       PROVE  ScanInv'
  <2>1. (position' > 0 =>
          index' <= Len(argv') /\ ~Stops(argv'[index']) /\ position' < Len(argv'[index']) - 1)
    BY <1>2, <1>12 DEF ScanInv
  <2> QED
    BY <1>2, <1>9, <1>12, <2>1 DEF ScanInv
<1>13. CASE ~Known(prog, o)
  <2>1. Returned("?", << >>) /\ index' = index /\ position' = position
    BY <1>10, <1>13
  <2>2. got' = Append(got, <<"?", << >>>>) /\ option' = "?"
    BY <2>1 DEF Returned
  <2>3. got' \in Lists /\ got' = got \o << <<"?", << >>>> >>
    <3>1. /\ Append(got, <<"?", << >>>>) \in Lists
          /\ Append(got, <<"?", << >>>>) = got \o << <<"?", << >>>> >>
      BY ONLY <1>typed, Added
    <3> QED
      BY <2>2, <3>1
  <2>4. got' = Options(prog, argv)
    BY <1>2, <1>7, <1>13, <2>3
  <2> QED
    BY <1>12, <2>1, <2>2, <2>3, <2>4
<1>14. CASE Known(prog, o) /\ Takes(prog, o) /\ rest # << >>
  <2>1. Returned(o, rest) /\ index' = index + 1 /\ position' = 0
    BY <1>10, <1>14
  <2>2. got' = Append(got, <<o, rest>>) /\ option' = o
    BY <2>1 DEF Returned
  <2>3. Behind' = Behind - 1 /\ Behind - 1 \in 0 .. Len(argv)
    BY <1>1, <1>2, <1>8, <2>1
  <2>4. F[Behind - 1] \in Lists
    BY <1>6, <2>3
  <2>5. got' \in Lists /\ got' \o F[Behind - 1] = got \o (<< <<o, rest>> >> \o F[Behind - 1])
    <3>1. /\ Append(got, <<o, rest>>) \in Lists
          /\ Append(got, <<o, rest>>) \o F[Behind - 1] = got \o (<< <<o, rest>> >> \o F[Behind - 1])
      BY ONLY <1>typed, <2>4, Handed
    <3> QED
      BY <2>2, <3>1
  <2>6. j > 1
    BY <1>1, <1>3, <1>14
  <2>7. got' \o F[Behind'] = Options(prog, argv)
    BY <1>2, <1>7, <1>14, <2>3, <2>5, <2>6
  <2> QED
    BY <1>11, <1>14, <2>1, <2>2, <2>5, <2>7
<1>15. CASE Known(prog, o) /\ Takes(prog, o) /\ rest = << >> /\ index < Len(argv)
  <2>1. Returned(o, argv[index + 1]) /\ index' = index + 2 /\ position' = 0
    BY <1>1, <1>2, <1>10, <1>15
  <2>2. got' = Append(got, <<o, argv[index + 1]>>) /\ option' = o
    BY <2>1 DEF Returned
  <2>3. Behind' = Behind - 2 /\ Behind > 1 /\ Behind # 1 /\ index + 1 \in 1 .. Len(argv)
    BY <1>1, <1>2, <1>8, <1>15, <2>1
  <2>4. argv[index + 1] \in Seq(Letters)
    BY <2>3, WordsAre
  <2>5. FromEnd(argv, Behind - 1) = argv[index + 1]
    <3>1. Len(argv) + 1 - (Behind - 1) = index + 1
      BY <1>1, <1>2, <1>8
    <3> QED
      BY <3>1 DEF FromEnd
  <2>6. skip = F[Behind - 2]
    BY <2>3 DEF skip, Skip
  <2>7. got' \in Lists /\ got' \o skip = got \o (<< <<o, argv[index + 1]>> >> \o skip)
    <3>1. /\ Append(got, <<o, argv[index + 1]>>) \in Lists
          /\ Append(got, <<o, argv[index + 1]>>) \o skip = got \o (<< <<o, argv[index + 1]>> >> \o skip)
      BY ONLY <1>typed, <1>6, <2>4, Handed
    <3> QED
      BY <2>2, <3>1
  <2>8. ~(j > 1)
    BY <1>1, <1>3, <1>15
  <2>9. got' \o F[Behind'] = Options(prog, argv)
    BY <1>2, <1>7, <1>15, <2>3, <2>5, <2>6, <2>7, <2>8
  <2> QED
    BY <1>11, <1>15, <2>1, <2>2, <2>7, <2>9
<1>16. CASE Known(prog, o) /\ Takes(prog, o) /\ rest = << >> /\ index >= Len(argv)
  <2>1. Returned(":", << >>) /\ index' = index /\ position' = position
    BY <1>1, <1>2, <1>10, <1>16
  <2>2. got' = Append(got, <<":", << >>>>) /\ option' = ":"
    BY <2>1 DEF Returned
  <2>3. got' \in Lists /\ got' = got \o << <<":", << >>>> >>
    <3>1. /\ Append(got, <<":", << >>>>) \in Lists
          /\ Append(got, <<":", << >>>>) = got \o << <<":", << >>>> >>
      BY ONLY <1>typed, Added
    <3> QED
      BY <2>2, <3>1
  <2>4. ~(j > 1) /\ ~(Behind > 1)
    BY <1>1, <1>2, <1>3, <1>8, <1>16
  <2>5. got' = Options(prog, argv)
    BY <1>2, <1>7, <1>16, <2>3, <2>4
  <2> QED
    BY <1>12, <2>1, <2>2, <2>3, <2>5
<1>17. CASE Known(prog, o) /\ ~Takes(prog, o) /\ rest = << >>
  <2>1. Returned(o, << >>) /\ index' = index + 1 /\ position' = 0
    BY <1>10, <1>17
  <2>2. got' = Append(got, <<o, << >>>>) /\ option' = o
    BY <2>1 DEF Returned
  <2>3. Behind' = Behind - 1 /\ Behind - 1 \in 0 .. Len(argv)
    BY <1>1, <1>2, <1>8, <2>1
  <2>4. j = 1 /\ F[Behind - 1] \in Lists
    BY <1>3, <1>6, <1>17, <2>3
  <2>5. j - 1 = 0 /\ Letterly[j - 1] = F[Behind - 1]
    BY <1>1, <2>4 DEF F
  <2>6. got' \in Lists /\ got' \o F[Behind - 1] = got \o (<< <<o, << >>>> >> \o F[Behind - 1])
    <3>1. /\ Append(got, <<o, << >>>>) \in Lists
          /\ Append(got, <<o, << >>>>) \o F[Behind - 1] = got \o (<< <<o, << >>>> >> \o F[Behind - 1])
      BY ONLY <1>typed, <2>4, Handed
    <3> QED
      BY <2>2, <3>1
  <2>7. got' \o F[Behind'] = Options(prog, argv)
    BY <1>2, <1>7, <1>17, <2>3, <2>5, <2>6
  <2> QED
    BY <1>11, <1>17, <2>1, <2>2, <2>6, <2>7
<1>18. CASE Known(prog, o) /\ ~Takes(prog, o) /\ rest # << >>
  <2>1. Returned(o, << >>) /\ index' = index /\ position' = position + 1
    BY <1>10, <1>18
  <2>2. got' = Append(got, <<o, << >>>>) /\ option' = o
    BY <2>1 DEF Returned
  <2>3. j # 1 /\ j = Len(w) - 1 - position
    BY <1>3, <1>18 DEF j
  <2>4. /\ j - 1 \in 0 .. Len(w) /\ j - 1 = Len(w) - 1 - (position + 1)
        /\ position + 1 < Len(w) - 1 /\ position + 1 # 0 /\ index <= Len(argv)
    BY <1>1, <1>2, <2>3
  <2>5. Letterly[j - 1] \in Lists
    BY <1>1, <2>4
  <2>6. /\ got' \in Lists
        /\ got' \o Letterly[j - 1] = got \o (<< <<o, << >>>> >> \o Letterly[j - 1])
    <3>1. /\ Append(got, <<o, << >>>>) \in Lists
          /\ Append(got, <<o, << >>>>) \o Letterly[j - 1] = got \o (<< <<o, << >>>> >> \o Letterly[j - 1])
      BY ONLY <1>typed, <2>5, Handed
    <3> QED
      BY <2>2, <3>1
  <2>7. Letterly' = Letterly
    BY <1>2, <2>1 DEF Letterly, Behind, Skip
  <2>8. Remaining' = Letterly[j - 1]
    BY <1>2, <2>1, <2>4, <2>7 DEF Remaining, w
  <2>9. (got \o Remaining)' = Options(prog, argv)'
    BY <1>2, <1>7, <1>9, <1>18, <2>6, <2>8
  <2>10. option' \notin {"?", ":"}
    BY <1>4, <1>5, <1>18, <2>2
  <2>11. index' <= Len(argv') /\ ~Stops(argv'[index']) /\ position' < Len(argv'[index']) - 1
    BY <1>2, <2>1, <2>4 DEF w
  <2> QED
    BY <1>2, <2>6, <2>9, <2>10, <2>11 DEF ScanInv
<1> QED
  BY <1>1, <1>2, <1>13, <1>14, <1>15, <1>16, <1>17, <1>18

\* The list before the first call.
LEMMA ScanBegins == StartInit => ScanInv
<1> SUFFICES ASSUME StartInit PROVE ScanInv
  OBVIOUS
<1>1. Typed
  BY SettingsInit
<1>2. index = 1 /\ position = 0 /\ pc = "getopt" /\ got = << >>
  BY DEF StartInit
<1>3. Len(argv) \in Nat /\ LastOptions(prog, argv) \in [0 .. Len(argv) -> Lists]
  BY <1>1, Reference DEF Wordwise
<1>4. Behind = Len(argv)
  BY <1>2, <1>3 DEF Behind
<1>5. Remaining = Options(prog, argv) /\ Remaining \in Lists
  BY <1>2, <1>3, <1>4 DEF Remaining, Options
<1>6. << >> \o Remaining = Remaining /\ << >> \in Lists
  BY <1>5, ConcatEmptySeq DEF Lists
<1> QED
  BY <1>2, <1>5, <1>6 DEF ScanInv

\* xgetopt stops where the reference does.
LEMMA ScanEnds ==
    ASSUME Typed, ScanInv, xgetopt_stop
    PROVE  ScanInv'
<1>1. /\ pc = "getopt" /\ pc' \in {"lookup", "prompt"} /\ Stops(Word(index))
      /\ prog' = prog /\ argv' = argv /\ position' = position /\ got' = got
  BY DEF xgetopt_stop
<1>2. /\ Len(argv) \in Nat /\ Behind \in 0 .. Len(argv)
      /\ Wordwise(LastOptions(prog, argv), prog, argv)
  BY Reference
<1>3. index \in 1 .. Len(argv) + 1 /\ position \in Nat
  BY DEF Typed
<1>4. position = 0
  <2>1. SUFFICES ASSUME position > 0 PROVE FALSE
    BY <1>3
  <2>2. index <= Len(argv) /\ ~Stops(argv[index])
    BY <2>1 DEF ScanInv
  <2>3. Word(index) = argv[index]
    BY <2>2 DEF Word
  <2> QED
    BY <1>1, <2>2, <2>3
<1>5. LastOptions(prog, argv)[Behind] = << >>
  <2>1. CASE Behind = 0
    BY <1>2, <2>1 DEF Wordwise
  <2>2. CASE Behind # 0
    <3>1. Behind \in 1 .. Len(argv) /\ index <= Len(argv) /\ Len(argv) + 1 - Behind = index
      BY <1>2, <1>3, <2>2 DEF Behind
    <3>2. FromEnd(argv, Behind) = Word(index)
      BY <3>1 DEF FromEnd, Word
    <3> QED
      BY <1>1, <1>2, <3>1, <3>2 DEF Wordwise, FromWord
  <2> QED
    BY <2>1, <2>2
<1>6. got \in Lists /\ got \o Remaining = Options(prog, argv)
  BY <1>1 DEF ScanInv
<1>7. Remaining = << >>
  BY <1>4, <1>5 DEF Remaining
<1>8. got \o << >> = got
  BY <1>6, ConcatEmptySeq DEF Lists
<1>9. got' = Options(prog, argv)'
  BY <1>1, <1>6, <1>7, <1>8
<1>10. ~(position' > 0)
  BY <1>1, <1>4
<1> QED
  BY <1>1, <1>6, <1>9, <1>10 DEF ScanInv

\* What remains is a list.
LEMMA RemainingIs == Typed /\ ScanInv => Remaining \in Lists
<1> SUFFICES ASSUME Typed, ScanInv PROVE Remaining \in Lists
  OBVIOUS
<1>1. CASE position = 0
  BY <1>1, Reference DEF Remaining, Wordwise
<1>2. CASE position # 0
  <2>1. position \in Nat /\ position > 0 /\ Len(argv) \in Nat
    BY <1>2 DEF Typed
  <2>2. index <= Len(argv) /\ ~Stops(argv[index])
    BY <2>1 DEF ScanInv
  <2>3. ~Stops(Word(index))
    BY <2>2 DEF Word
  <2>4. /\ Letterly \in [0 .. Len(argv[index]) -> Lists]
        /\ Len(argv[index]) - 1 - position \in 1 .. Len(argv[index]) /\ Len(argv[index]) \in Nat
    BY <2>3, LetterRead
  <2>5. Len(argv[index]) - 1 - position \in 0 .. Len(argv[index])
    BY <2>4
  <2> QED
    BY <1>2, <2>4, <2>5 DEF Remaining
<1> QED
  BY <1>1, <1>2

\* main's other steps leave xgetopt where it is.
LEMMA ScanRests ==
    ASSUME Typed, ScanInv, prog' = prog, argv' = argv, index' = index, position' = position,
           option' = option, got' = got,
           \/ pc' = pc
           \/ pc = "case" /\ option \notin {"?", ":"} /\ pc' \in {"getopt", "ended", "undefined"}
           \/ pc = "case" /\ pc' = "ended"
           \/ pc \notin {"getopt", "case", "ended", "undefined"} /\ pc' \notin {"getopt", "case"}
    PROVE  ScanInv'
<1>1. Remaining' = Remaining
  BY DEF Remaining, Letterly, Behind, Skip
<1>2. Options(prog, argv)' = Options(prog, argv)
  OBVIOUS
<1>3. got \in Lists /\ << >> \in Lists /\ got \o << >> = got
  BY ConcatEmptySeq DEF ScanInv, Lists
<1>4. Remaining \in Lists
  BY RemainingIs
<1>5. position' > 0 =>
          index' <= Len(argv') /\ ~Stops(argv'[index']) /\ position' < Len(argv'[index']) - 1
  BY DEF ScanInv
<1>6. CASE pc' = pc
  BY <1>1, <1>2, <1>5, <1>6 DEF ScanInv
<1>7. CASE pc = "case" /\ option \notin {"?", ":"} /\ pc' \in {"getopt", "ended", "undefined"}
  <2>1. got \o Remaining = Options(prog, argv)
    BY <1>7 DEF ScanInv
  <2>2. pc' = "getopt" => (got \o Remaining)' = Options(prog, argv)'
    BY <1>1, <1>2, <2>1
  <2>3. \E l \in Lists : got' \o l = Options(prog, argv)'
    BY <1>2, <1>4, <2>1
  <2> QED
    BY <1>3, <1>5, <1>7, <2>2, <2>3 DEF ScanInv
<1>8. CASE pc = "case" /\ option \in {"?", ":"} /\ pc' = "ended"
  <2>1. got \o << >> = Options(prog, argv)
    BY <1>3, <1>8 DEF ScanInv
  <2>2. \E l \in Lists : got' \o l = Options(prog, argv)'
    BY <1>2, <1>3, <2>1
  <2> QED
    BY <1>3, <1>5, <1>8, <2>2 DEF ScanInv
<1>9. CASE pc \notin {"getopt", "case", "ended", "undefined"} /\ pc' \notin {"getopt", "case"}
  <2>1. got \o << >> = Options(prog, argv) /\ got = Options(prog, argv)
    BY <1>3, <1>9 DEF ScanInv
  <2>2. (\E l \in Lists : got' \o l = Options(prog, argv)') /\ got' = Options(prog, argv)'
    BY <1>2, <1>3, <2>1
  <2> QED
    BY <1>3, <1>5, <1>9, <2>2 DEF ScanInv
<1> QED
  BY <1>6, <1>7, <1>8, <1>9

\* All together.
LEMMA ScanNext ==
    ASSUME Typed, ScanInv, [StartNext]_startvars
    PROVE  ScanInv'
<1>1. CASE UNCHANGED startvars
  BY <1>1, ScanRests DEF startvars, xgo
<1>2. CASE xgetopt_stop
  BY <1>2, ScanEnds
<1>3. CASE xgetopt
  BY <1>3, ScanStep
<1>4. CASE case_a \/ case_u \/ case_p \/ case_l \/ case_q
  <2>1. /\ prog' = prog /\ argv' = argv /\ index' = index /\ position' = position
        /\ option' = option /\ got' = got /\ pc = "case" /\ option \in {"a", "u", "p", "l", "q"}
    BY <1>4 DEF case_a, case_u, case_p, case_l, case_q, Case, xgo
  <2>2. pc' \in {"getopt", "undefined"}
    BY <1>4 DEF case_a, case_u, case_p, case_l, case_q, Refuse, Accept
  <2> QED
    BY <2>1, <2>2, ScanRests
<1>5. CASE case_ends
  <2>1. /\ prog' = prog /\ argv' = argv /\ index' = index /\ position' = position
        /\ option' = option /\ got' = got /\ pc = "case" /\ pc' = "ended"
    BY <1>5 DEF case_ends, Case, xgo
  <2> QED
    BY <2>1, ScanRests
<1>6. CASE prompt_args \/ connect_server
  <2>1. /\ prog' = prog /\ argv' = argv /\ index' = index /\ position' = position
        /\ option' = option /\ got' = got
    BY <1>6 DEF prompt_args, connect_server, xgo
  <2>2. pc \in {"prompt", "lookup"}
    BY <1>6 DEF prompt_args, connect_server
  <2>3. pc' \in {"lookup", "undefined", "running", "ended"}
    BY <1>6 DEF prompt_args, connect_server
  <2> QED
    BY <2>1, <2>2, <2>3, ScanRests
<1> QED
  BY <1>1, <1>2, <1>3, <1>4, <1>5, <1>6 DEF StartNext

-----------------------------------------------------------------------------
(***************************************************************************)
(* SettingsAsGiven for every command line, length of the arrays, login and *)
(* answer, empty ones too: when main looks the address up, a setting reads *)
(* as the last value it was given, unless a longer one was there before.   *)
(***************************************************************************)
THEOREM SettingsTheorem == StartSpec => []SettingsAsGiven
<1>1. ASSUME Typed, SettingsInv PROVE SettingsAsGiven
  <2>1. SUFFICES ASSUME NEW s \in Settings, Growing(given[s])
                 PROVE  String(set[s]) = Last(given[s])
    BY DEF SettingsAsGiven
  <2>2. Last(given[s]) \in Seq(Letters)
    <3> DEFINE S == Seq(Letters)
               g == given[s]
    <3>1. g \in Seq(S) /\ g # << >>
      BY <1>1 DEF Typed, Values
    <3> HIDE DEF S, g
    <3>2. Len(g) \in 1 .. Len(g)
      BY <3>1, EmptySeq
    <3>3. g[Len(g)] \in S
      BY <3>1, <3>2
    <3> QED
      BY <3>3 DEF Last, S, g
  <2>3. Reads(set[s], Last(given[s]))
    BY <1>1, <2>1 DEF SettingsInv
  <2> QED
    BY <2>2, <2>3, StringRead
<1> QED
  BY <1>1, SettingsInit, SettingsNext, PTL DEF StartSpec

(***************************************************************************)
(* OptionsAsGetopt for every command line, of any number of words of any   *)
(* length: xgetopt returns the options of the reference, each once and in  *)
(* order, and all of them unless main ends before.                         *)
(***************************************************************************)
THEOREM OptionsTheorem == StartSpec => []OptionsAsGetopt
<1>1. ASSUME Typed, ScanInv PROVE OptionsAsGetopt
  <2>1. got \in Lists /\ << >> \in Lists /\ got \o << >> = got
    BY <1>1, ConcatEmptySeq DEF ScanInv, Lists
  <2>2. PICK l \in Lists : got \o l = Options(prog, argv)
    <3>1. CASE pc \in {"ended", "undefined"}
      BY <1>1, <3>1 DEF ScanInv
    <3>2. CASE pc \in {"getopt", "case"}
      <4>1. Remaining \in Lists
        BY <1>1, RemainingIs
      <4> QED
        BY <1>1, <2>1, <3>2, <4>1 DEF ScanInv
    <3>3. CASE pc \notin {"ended", "undefined", "getopt", "case"}
      BY <1>1, <2>1, <3>3 DEF ScanInv
    <3> QED
      BY <3>1, <3>2, <3>3
  <2>3. IsPrefix(got, got \o l)
    <3>1. Len(got) \in Nat /\ Len(l) \in Nat /\ Len(got \o l) = Len(got) + Len(l)
      BY <2>1, ConcatProperties DEF Lists
    <3>2. SubSeq(got \o l, 1, Len(got)) = got
      BY <2>1, SubSeqOfConcat1 DEF Lists
    <3>3. SubSeq(got, 1, Len(got)) = got
      BY <2>1, SubSeqFull DEF Lists
    <3> QED
      BY <3>1, <3>2, <3>3 DEF IsPrefix
  <2> QED
    BY <1>1, <2>2, <2>3 DEF ScanInv, OptionsAsGetopt
<1> QED
  BY <1>1, SettingsInit, SettingsNext, ScanBegins, ScanNext, PTL DEF StartSpec

=============================================================================
