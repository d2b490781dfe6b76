------------------------- MODULE FramedStreamProofs -------------------------
(***************************************************************************)
(* Proofs about FramedStream for any number of threads and cables of any   *)
(* length, in the case that one send is over before the next one begins    *)
(* and that a header is written and read in one piece (the two hazards of  *)
(* the code that the constants Overlap and ShortHeader stand for).         *)
(***************************************************************************)
EXTENDS FramedStream, SequenceTheorems, TLAPS

\* b is byte p of cable c.
Is(b, c, p) == b.cable = c /\ b.pos = p

\* The bytes written and not relayed: those in buf, then those on their way.
Line == buf \o stream

(***************************************************************************)
(* A sequence of bytes w that was cut out of cables of the lengths s: each *)
(* byte belongs to one of them, around it lie the bytes of the same cable  *)
(* in order, and behind the last one of a cable begins the next.  (All are *)
(* stated between arbitrary positions, so that no induction along the      *)
(* sequence is needed.)                                                    *)
(***************************************************************************)
Genuine(w, s) ==
    \A i \in 1 .. Len(w) : /\ w[i].cable \in 1 .. Len(s)
                           /\ w[i].len = s[w[i].cable]
                           /\ w[i].pos \in 1 .. w[i].len

Runs(w) ==
    \A i, j \in 1 .. Len(w) :
        w[i].pos + (j - i) \in 1 .. w[i].len => Is(w[j], w[i].cable, w[i].pos + (j - i))

Follows(w) ==
    \A i \in 1 .. Len(w) - 1 : w[i].pos = w[i].len => Is(w[i + 1], w[i].cable + 1, 1)

CutFrom(w, s) == Genuine(w, s) /\ Runs(w) /\ Follows(w)

\* It begins with the cable that the daemon is receiving, or will receive next.
Current == Len(relayed) + 1
Starts == Len(Line) > 0 => Is(Line[1], Current, 1)

\* The last byte written is byte q of the last cable.
EndsAt(q) == Len(Line) > 0 /\ Is(Line[Len(Line)], Len(sent), q)

\* At most one send is unfinished, and goes on behind the last byte ...
Unfinished ==
    /\ \A t, u \in Thread : out[t] # << >> /\ out[u] # << >> => t = u
    /\ \A t \in Thread : out[t] # << >> =>
          LET q == sent[Len(sent)] - Len(out[t])
          IN  /\ q > 0 /\ EndsAt(q)
              /\ \A p \in 1 .. Len(out[t]) :
                    Is(out[t][p], Len(sent), q + p) /\ out[t][p].len = sent[Len(sent)]

\* ... or all cables are written to the end.
Finished ==
    (\A t \in Thread : out[t] = << >>) =>
        \/ Len(Line) = 0 /\ Len(relayed) = Len(sent)
        \/ EndsAt(sent[Len(sent)])

Reading ==
    /\ rpc # "payload" => buf = << >>
    /\ rpc = "payload" => /\ HeaderSize <= Len(buf)
                          /\ need > 0 /\ Len(buf) + need = sent[Current]

StreamInv ==
    /\ TypeOK /\ CutFrom(Line, sent) /\ Starts /\ Unfinished /\ Finished
    /\ Reading /\ NeverFails

-----------------------------------------------------------------------------
(***************************************************************************)
(* Sequences.                                                              *)
(***************************************************************************)

\* The first n elements.
LEMMA TakeFacts ==
    ASSUME NEW S, NEW s \in Seq(S), NEW n \in 0 .. Len(s)
    PROVE  /\ Take(s, n) \in Seq(S) /\ Len(Take(s, n)) = n
           /\ \A i \in 1 .. n : Take(s, n)[i] = s[i]
<1>1. Len(s) \in Nat /\ \A i \in 1 .. n : s[i] \in S
  BY LenProperties
<1>2. QED
  BY <1>1, SubSeqProperties DEF Take

\* All but the first n elements.
LEMMA DropFacts ==
    ASSUME NEW S, NEW s \in Seq(S), NEW n \in 0 .. Len(s)
    PROVE  /\ Drop(s, n) \in Seq(S) /\ Len(Drop(s, n)) = Len(s) - n
           /\ \A i \in 1 .. Len(s) - n : Drop(s, n)[i] = s[n + i]
<1>1. Len(s) \in Nat /\ \A i \in n + 1 .. Len(s) : s[i] \in S
  BY LenProperties
<1>2. QED
  BY <1>1, SubSeqProperties DEF Drop

\* xrecvall moves bytes from the stream to the buffer: together they stay the same.
LEMMA MoveFacts ==
    ASSUME NEW S, NEW a \in Seq(S), NEW b \in Seq(S), NEW n \in 0 .. Len(b)
    PROVE  (a \o Take(b, n)) \o Drop(b, n) = a \o b
<1> DEFINE t == Take(b, n)
           d == Drop(b, n)
<1>1. t \in Seq(S) /\ Len(t) = n /\ \A i \in 1 .. n : t[i] = b[i]
  BY TakeFacts
<1>2. d \in Seq(S) /\ Len(d) = Len(b) - n /\ \A i \in 1 .. Len(b) - n : d[i] = b[n + i]
  BY DropFacts
<1> HIDE DEF t, d
<1>3. t \o d = b
  <2>1. /\ t \o d \in Seq(S) /\ Len(t \o d) = n + Len(d)
        /\ \A i \in 1 .. n + Len(d) : (t \o d)[i] = IF i <= n THEN t[i] ELSE d[i - n]
    BY <1>1, <1>2, ConcatProperties
  <2>2. Len(b) \in Nat /\ Len(t \o d) = Len(b)
    BY <1>2, <2>1, LenProperties
  <2>3. ASSUME NEW i \in 1 .. Len(b) PROVE (t \o d)[i] = b[i]
    <3>1. CASE i <= n
      BY <1>1, <1>2, <2>1, <2>2, <3>1
    <3>2. CASE i > n
      <4>1. i - n \in 1 .. Len(b) - n /\ n + (i - n) = i /\ i \in 1 .. n + Len(d)
        BY <1>2, <2>2, <3>2
      <4>2. (t \o d)[i] = d[i - n] /\ d[i - n] = b[n + (i - n)]
        BY <1>2, <2>1, <3>2, <4>1
      <4>3. QED
        BY <4>1, <4>2
    <3>3. QED
      BY <2>2, <3>1, <3>2
  <2>4. QED
    BY <2>1, <2>2, <2>3, SeqEqual
<1>4. (a \o t) \o d = a \o (t \o d)
  BY <1>1, <1>2, ConcatAssociative
<1>5. QED
  BY <1>3, <1>4 DEF t, d

\* What two sequences put together have in each place.
LEMMA Joined ==
    ASSUME NEW S, NEW c \in Seq(S), NEW d \in Seq(S), NEW w, c \o d = w
    PROVE  /\ Len(w) = Len(c) + Len(d)
           /\ \A i \in 1 .. Len(c) + Len(d) : w[i] = IF i <= Len(c) THEN c[i] ELSE d[i - Len(c)]
  BY ConcatProperties

\* xsend puts bytes behind those in the buffer and on their way.
LEMMA WriteFacts ==
    ASSUME NEW S, NEW a \in Seq(S), NEW b \in Seq(S), NEW e \in Seq(S)
    PROVE  a \o (b \o e) = (a \o b) \o e
  BY ConcatAssociative

-----------------------------------------------------------------------------
(***************************************************************************)
(* Sequences cut out of the cables.                                        *)
(***************************************************************************)

\* Bytes relayed leave such a sequence.
LEMMA DropCut ==
    ASSUME NEW s \in Seq(Nat), NEW w \in Seq(Byte), CutFrom(w, s), NEW n \in 0 .. Len(w)
    PROVE  CutFrom(Drop(w, n), s)
<1> DEFINE d == Drop(w, n)
<1>1. Len(w) \in Nat /\ Len(d) = Len(w) - n /\ \A i \in 1 .. Len(w) - n : d[i] = w[n + i]
  BY DropFacts, LenProperties
<1> HIDE DEF d
<1>2. \A i \in 1 .. Len(d) : n + i \in 1 .. Len(w) /\ d[i] = w[n + i]
  BY <1>1
<1>3. Genuine(d, s)
  BY <1>2 DEF CutFrom, Genuine
<1>4. Runs(d)
  <2> SUFFICES ASSUME NEW i \in 1 .. Len(d), NEW j \in 1 .. Len(d),
                      d[i].pos + (j - i) \in 1 .. d[i].len
               PROVE  Is(d[j], d[i].cable, d[i].pos + (j - i))
    BY DEF Runs
  <2>1. (n + j) - (n + i) = j - i
    BY <1>1
  <2>2. QED
    BY <1>2, <2>1 DEF CutFrom, Runs
<1>5. Follows(d)
  <2> SUFFICES ASSUME NEW i \in 1 .. Len(d) - 1, d[i].pos = d[i].len
               PROVE  Is(d[i + 1], d[i].cable + 1, 1)
    BY DEF Follows
  <2>1. n + i \in 1 .. Len(w) - 1 /\ d[i] = w[n + i] /\ d[i + 1] = w[(n + i) + 1]
    BY <1>1
  <2>2. QED
    BY <2>1 DEF CutFrom, Follows
<1>6. QED
  BY <1>3, <1>4, <1>5 DEF CutFrom, d

\* It begins with a whole cable, as far as it goes, and then comes the next one.
LEMMA FirstCable ==
    ASSUME NEW s \in Seq(Nat), NEW w \in Seq(Byte), CutFrom(w, s), Len(w) > 0,
           NEW k \in Nat, Is(w[1], k, 1)
    PROVE  /\ k \in 1 .. Len(s) /\ w[1].len = s[k] /\ 1 <= s[k]
           /\ \A j \in 1 .. Len(w) : j <= s[k] => Is(w[j], k, j) /\ w[j].len = s[k]
           /\ Len(w) > s[k] => Is(w[s[k] + 1], k + 1, 1)
<1>1. Len(w) \in Nat /\ 1 \in 1 .. Len(w)
  BY LenProperties
<1>2. w[1].pos = 1 /\ w[1].len = s[k] /\ w[1].cable = k /\ k \in 1 .. Len(s) /\ 1 \in 1 .. s[k]
  BY <1>1 DEF Is, CutFrom, Genuine
<1>3. s[k] \in Nat /\ 1 <= s[k] /\ Len(s) \in Nat
  BY <1>2, LenProperties
<1>4. ASSUME NEW j \in 1 .. Len(w), j <= s[k] PROVE Is(w[j], k, j) /\ w[j].len = s[k]
  <2>1. w[1].pos + (j - 1) = j /\ j \in 1 .. w[1].len
    BY <1>1, <1>2, <1>3, <1>4
  <2>2. Is(w[j], k, j)
    BY <1>1, <1>2, <2>1 DEF CutFrom, Runs
  <2>3. QED
    BY <2>2 DEF CutFrom, Genuine, Is
<1>5. ASSUME Len(w) > s[k] PROVE Is(w[s[k] + 1], k + 1, 1)
  <2>1. s[k] \in 1 .. Len(w) - 1 /\ s[k] \in 1 .. Len(w) /\ s[k] <= s[k]
    BY <1>1, <1>3, <1>5
  <2>2. w[s[k]].pos = s[k] /\ w[s[k]].len = s[k] /\ w[s[k]].cable = k
    BY <1>4, <2>1 DEF Is
  <2>3. QED
    BY <2>1, <2>2 DEF CutFrom, Follows
<1>6. QED
  BY <1>2, <1>3, <1>4, <1>5

(***************************************************************************)
(* e is bytes q + 1, q + 2, ... of the last cable of s2, and fits behind   *)
(* w: behind byte q of that cable, or behind the end of the one before.    *)
(***************************************************************************)
Continues(w, s, e, s2, q) ==
    LET K == Len(s2)
    IN  /\ Len(s) <= K /\ K > 0 /\ \A c \in 1 .. Len(s) : s2[c] = s[c]
        /\ q + Len(e) <= s2[K]
        /\ \A p \in 1 .. Len(e) : Is(e[p], K, q + p) /\ e[p].len = s2[K]
        /\ \/ q = 0 /\ K = Len(s) + 1 /\ (Len(w) > 0 => Is(w[Len(w)], Len(s), s[Len(s)]))
           \/ q > 0 /\ K = Len(s) /\ Len(w) > 0 /\ Is(w[Len(w)], K, q)

\* Written bytes that continue such a sequence may be added to it.
LEMMA AppendCut ==
    ASSUME NEW s \in Seq(Nat), NEW s2 \in Seq(Nat), NEW w \in Seq(Byte), NEW e \in Seq(Byte),
           NEW q \in Nat, CutFrom(w, s), Continues(w, s, e, s2, q)
    PROVE  CutFrom(w \o e, s2)
<1>0. PICK K : K = Len(s2)
  OBVIOUS
<1>K. /\ Len(s) <= K /\ K > 0 /\ \A c \in 1 .. Len(s) : s2[c] = s[c]
      /\ q + Len(e) <= s2[K]
      /\ \A p \in 1 .. Len(e) : Is(e[p], K, q + p) /\ e[p].len = s2[K]
      /\ \/ q = 0 /\ K = Len(s) + 1 /\ (Len(w) > 0 => Is(w[Len(w)], Len(s), s[Len(s)]))
         \/ q > 0 /\ K = Len(s) /\ Len(w) > 0 /\ Is(w[Len(w)], K, q)
  BY <1>0 DEF Continues
<1> USE <1>0, <1>K
<1> DEFINE v == w \o e
           L == Len(w)
           M == Len(e)
<1>1. /\ L \in Nat /\ M \in Nat /\ Len(s) \in Nat /\ K \in Nat
      /\ K \in 1 .. Len(s2) /\ s2[K] \in Nat /\ Len(s2) \in Nat
      /\ \A c \in 1 .. Len(s2) : s2[c] \in Nat
  BY LenProperties
<1>2. Len(v) = L + M /\ \A i \in 1 .. L + M : v[i] = IF i <= L THEN w[i] ELSE e[i - L]
  BY ConcatProperties
<1> HIDE DEF v
<1>3. \A i \in 1 .. L : /\ v[i] = w[i] /\ w[i].cable \in 1 .. Len(s) /\ w[i].cable \in 1 .. K
                        /\ w[i].len = s2[w[i].cable] /\ w[i].len \in Nat
                        /\ w[i].pos \in 1 .. w[i].len /\ w[i].pos \in Nat
  <2> TAKE i \in 1 .. L
  <2>1. w[i].cable \in 1 .. Len(s) /\ w[i].len = s[w[i].cable] /\ w[i].pos \in 1 .. w[i].len
    BY DEF CutFrom, Genuine
  <2>2. w[i].cable \in 1 .. K /\ w[i].cable \in 1 .. Len(s2)
    BY <1>1, <2>1
  <2>3. w[i].len = s2[w[i].cable] /\ s2[w[i].cable] \in Nat
    BY <1>1, <2>1, <2>2
  <2>4. v[i] = w[i]
    BY <1>1, <1>2
  <2>5. QED
    BY <2>1, <2>2, <2>3, <2>4
<1>4. \A i \in L + 1 .. L + M : /\ v[i].cable = K /\ v[i].pos = q + (i - L) /\ v[i].len = s2[K]
                               /\ q + (i - L) \in 1 .. s2[K]
  <2> TAKE i \in L + 1 .. L + M
  <2>1. i - L \in 1 .. M /\ i \in 1 .. L + M /\ ~(i <= L)
    BY <1>1
  <2>2. v[i] = e[i - L]
    BY <1>2, <2>1
  <2>3. Is(e[i - L], K, q + (i - L)) /\ e[i - L].len = s2[K]
    BY <2>1
  <2>4. q + (i - L) \in 1 .. s2[K]
    BY <1>1, <2>1
  <2>5. QED
    BY <2>2, <2>3, <2>4 DEF Is
<1>5. \A i \in 1 .. L + M : i \in 1 .. L \/ i \in L + 1 .. L + M
  BY <1>1
<1>6. Genuine(v, s2)
  BY <1>1, <1>2, <1>3, <1>4, <1>5 DEF Genuine
<1>7. Runs(v)
  <2> SUFFICES ASSUME NEW i \in 1 .. L + M, NEW j \in 1 .. L + M,
                      v[i].pos + (j - i) \in 1 .. v[i].len
               PROVE  Is(v[j], v[i].cable, v[i].pos + (j - i))
    BY <1>2 DEF Runs
  <2>1. CASE i \in 1 .. L
    <3> DEFINE c == w[i].cable
               p == w[i].pos
    <3>1. v[i] = w[i] /\ p \in Nat /\ w[i].len \in Nat /\ w[i].len = s2[c] /\ c \in 1 .. Len(s)
      BY <1>3, <2>1
    <3> HIDE DEF c, p
    <3>2. CASE j \in 1 .. L
      <4>1. Is(w[j], c, p + (j - i))
        BY <2>1, <3>1, <3>2 DEF CutFrom, Runs, c, p
      <4>2. QED
        BY <1>3, <3>1, <3>2, <4>1 DEF c, p
    <3>3. CASE j \in L + 1 .. L + M
      <4>1. L \in 1 .. L /\ p + (L - i) \in 1 .. w[i].len /\ p + (L - i) < w[i].len
        <5> DEFINE l == w[i].len
        <5>1. p + (j - i) \in 1 .. l /\ p \in 1 .. l /\ l \in Nat
          BY <1>3, <2>1, <3>1 DEF p
        <5> HIDE DEF l
        <5>2. L \in 1 .. L /\ p + (L - i) \in 1 .. l /\ p + (L - i) < l
          BY <1>1, <2>1, <3>3, <5>1
        <5>3. QED
          BY <5>2 DEF l
      <4>2. w[L].cable = c /\ w[L].pos = p + (L - i)
        BY <2>1, <4>1 DEF CutFrom, Runs, Is, c, p
      <4>3. w[L].len = w[i].len /\ w[L].pos # w[L].len
        <5>1. w[L].len = s2[c]
          BY <1>3, <4>1, <4>2
        <5>2. QED
          BY <3>1, <4>1, <4>2, <5>1
      <4>4. q > 0 /\ K = Len(s) /\ Is(w[L], K, q)
        <5>1. CASE q = 0
          <6>1. Is(w[L], Len(s), s[Len(s)])
            BY <1>1, <4>1, <5>1
          <6>2. w[L].len = s[Len(s)]
            BY <4>1, <6>1 DEF CutFrom, Genuine, Is
          <6>3. QED
            BY <4>3, <6>1, <6>2 DEF Is
        <5>2. QED
          BY <5>1
      <4>5. c = K /\ q = p + (L - i)
        BY <4>2, <4>4 DEF Is
      <4>6. v[j].cable = K /\ v[j].pos = q + (j - L)
        BY <1>4, <3>3
      <4>7. q + (j - L) = p + (j - i)
        BY <1>1, <3>1, <4>5
      <4>8. QED
        BY <3>1, <4>5, <4>6, <4>7 DEF Is, c, p
    <3>4. QED
      BY <1>5, <3>2, <3>3
  <2>2. CASE i \in L + 1 .. L + M
    <3>1. v[i].cable = K /\ v[i].pos = q + (i - L) /\ v[i].len = s2[K]
      BY <1>4, <2>2
    <3>2. v[i].pos + (j - i) = q + (j - L)
      BY <1>1, <3>1
    <3>3. CASE j \in L + 1 .. L + M
      BY <1>4, <3>1, <3>2, <3>3 DEF Is
    <3>4. CASE j \in 1 .. L
      <4>1. q > 0 /\ K = Len(s) /\ Is(w[L], K, q)
        BY <1>1, <3>2, <3>4
      <4>2. L \in 1 .. L /\ w[L].pos = q /\ w[L].cable = K /\ w[L].len = s2[K]
        <5>1. L \in 1 .. L
          BY <1>1, <3>4
        <5>2. w[L].pos = q /\ w[L].cable = K
          BY <4>1 DEF Is
        <5>3. QED
          BY <1>3, <5>1, <5>2
      <4>3. Is(w[j], K, q + (j - L))
        BY <3>1, <3>2, <3>4, <4>2 DEF CutFrom, Runs
      <4>4. QED
        BY <1>3, <3>1, <3>2, <3>4, <4>3
    <3>5. QED
      BY <1>5, <3>3, <3>4
  <2>3. QED
    BY <1>5, <2>1, <2>2
<1>8. Follows(v)
  <2> SUFFICES ASSUME NEW i \in 1 .. Len(v) - 1, v[i].pos = v[i].len
               PROVE  Is(v[i + 1], v[i].cable + 1, 1)
    BY DEF Follows
  <2>0. i \in 1 .. L + M - 1
    BY <1>2
  <2>1. CASE i < L
    <3>1. i \in 1 .. L /\ i + 1 \in 1 .. L /\ i \in 1 .. L - 1
      BY <1>1, <2>0, <2>1
    <3>2. QED
      BY <1>3, <3>1 DEF CutFrom, Follows
  <2>2. CASE i = L
    <3>1. L > 0 /\ L \in 1 .. L /\ v[L] = w[L] /\ w[L].pos = w[L].len /\ M > 0
      <4>1. L > 0 /\ M > 0 /\ L \in 1 .. L
        BY <1>1, <2>0, <2>2
      <4>2. QED
        BY <1>3, <2>2, <4>1
    <3>2. v[L + 1].cable = K /\ v[L + 1].pos = q + 1 /\ q + 1 <= s2[K]
      <4>1. L + 1 \in L + 1 .. L + M /\ (L + 1) - L = 1
        BY <1>1, <3>1
      <4>2. /\ v[L + 1].cable = K /\ v[L + 1].pos = q + ((L + 1) - L)
            /\ q + ((L + 1) - L) \in 1 .. s2[K]
        BY <1>4, <4>1
      <4>3. QED
        BY <1>1, <4>1, <4>2
    <3>3. CASE q > 0
      <4>1. K = Len(s) /\ w[L].cable = K /\ w[L].pos = q
        BY <3>3 DEF Is
      <4>2. w[L].len = s2[K]
        BY <1>3, <3>1, <4>1
      <4>3. QED
        <5>1. q = s2[K]
          BY <3>1, <4>1, <4>2
        <5>2. QED
          BY <1>1, <3>2, <5>1
    <3>4. CASE q = 0
      <4>1. K = Len(s) + 1 /\ w[L].cable = Len(s)
        BY <3>1, <3>4 DEF Is
      <4>2. QED
        BY <2>2, <3>1, <3>2, <3>4, <4>1 DEF Is
    <3>5. QED
      BY <3>3, <3>4
  <2>3. CASE i > L
    <3>1. i \in L + 1 .. L + M /\ q + (i - L) < q + M
      BY <1>1, <2>0, <2>3
    <3>2. v[i].pos = q + (i - L) /\ v[i].len = s2[K]
      BY <1>4, <3>1
    <3>3. q + (i - L) = s2[K]
      BY <3>2
    <3>4. QED
      BY <1>1, <3>1, <3>3
  <2>4. QED
    BY <1>1, <2>0, <2>1, <2>2, <2>3
<1>9. QED
  BY <1>6, <1>7, <1>8 DEF CutFrom, v

-----------------------------------------------------------------------------
(***************************************************************************)
(* The steps of writer and reader.                                         *)
(***************************************************************************)

\* Cables are longer than their headers.
LEMMA Lengths ==
    ASSUME NEW s \in Seq(Total)
    PROVE  /\ s \in Seq(Nat) /\ Len(s) \in Nat
           /\ \A c \in 1 .. Len(s) : s[c] \in Nat /\ s[c] > HeaderSize
<1>1. Len(s) \in Nat /\ s \in [1 .. Len(s) -> Total]
  BY LenProperties
<1>2. s \in [1 .. Len(s) -> Nat]
  BY <1>1, StreamAssumption
<1>3. s \in Seq(Nat)
  BY <1>1, <1>2, SeqDef
<1>4. QED
  BY <1>1, <1>3, StreamAssumption

\* The types of what the invariant speaks about.
LEMMA LineFacts ==
    ASSUME TypeOK
    PROVE  /\ sent \in Seq(Nat) /\ Len(sent) \in Nat /\ Len(relayed) \in Nat
           /\ \A c \in 1 .. Len(sent) : sent[c] \in Nat /\ sent[c] > HeaderSize
           /\ buf \in Seq(Byte) /\ stream \in Seq(Byte) /\ Line \in Seq(Byte)
           /\ Len(buf) \in Nat /\ Len(stream) \in Nat /\ Len(Line) = Len(buf) + Len(stream)
           /\ \A i \in 1 .. Len(buf) + Len(stream) :
                 Line[i] = IF i <= Len(buf) THEN buf[i] ELSE stream[i - Len(buf)]
           /\ HeaderSize \in Nat /\ HeaderSize > 0
<1>1. buf \in Seq(Byte) /\ stream \in Seq(Byte) /\ sent \in Seq(Total) /\ relayed \in Seq(0 .. MaxCables)
  BY DEF TypeOK
<1>2. /\ Line \in Seq(Byte) /\ Len(Line) = Len(buf) + Len(stream)
      /\ \A i \in 1 .. Len(buf) + Len(stream) :
             Line[i] = IF i <= Len(buf) THEN buf[i] ELSE stream[i - Len(buf)]
  BY <1>1, ConcatProperties DEF Line
<1>3. Len(buf) \in Nat /\ Len(stream) \in Nat /\ Len(sent) \in Nat /\ Len(relayed) \in Nat
  BY <1>1, LenProperties
<1>4. sent \in Seq(Nat) /\ \A c \in 1 .. Len(sent) : sent[c] \in Nat /\ sent[c] > HeaderSize
  BY <1>1, Lengths
<1>5. QED
  BY <1>1, <1>2, <1>3, <1>4, StreamAssumption

\* Nothing is written or read yet.
LEMMA InitStream == Init => StreamInv
<1> SUFFICES ASSUME Init PROVE StreamInv
  OBVIOUS
<1>1. TypeOK
  <2>1. \A S : << >> \in Seq(S) /\ Len(<< >>) = 0
    OBVIOUS
  <2>2. closed \in BOOLEAN
    BY Zenon DEF Init
  <2>3. out \in [Thread -> Seq(Byte)]
    BY <2>1 DEF Init
  <2>4. Len(sent) <= MaxCables
    BY <2>1, StreamAssumption DEF Init
  <2>5. QED
    BY <2>1, <2>2, <2>3, <2>4 DEF Init, TypeOK
<1>2. Len(Line) = 0 /\ Len(relayed) = Len(sent)
  BY <1>1, LineFacts DEF Init
<1>3. CutFrom(Line, sent)
  BY <1>2 DEF CutFrom, Genuine, Runs, Follows
<1>4. Starts /\ Unfinished /\ Finished /\ Reading /\ NeverFails
  BY <1>2 DEF Init, Starts, Unfinished, Finished, Reading, NeverFails
<1>5. QED
  BY <1>1, <1>3, <1>4 DEF StreamInv

(***************************************************************************)
(* One xsend by thread t, with b still to be written: bytes q + 1 and on   *)
(* of the last cable, which the other bytes of Line end just before.       *)
(***************************************************************************)
LEMMA WriteStep ==
    ASSUME StreamInv, NEW t \in Thread, NEW b \in Seq(Byte), NEW n \in 1 .. Len(b),
           stream' = stream \o Take(b, n), out' = [out EXCEPT ![t] = Drop(b, n)],
           \A u \in Thread : u # t => out[u] = << >>,
           sent' \in Seq(Total), Len(sent') <= MaxCables, Len(sent) <= Len(sent'),
           \A c \in 1 .. Len(sent) : sent'[c] = sent[c],
           NEW K, K = Len(sent'), K > 0, NEW q \in Nat, Len(b) = sent'[K] - q,
           \A p \in 1 .. Len(b) : Is(b[p], K, q + p) /\ b[p].len = sent'[K],
           \/ /\ q = 0 /\ K = Len(sent) + 1
              /\ IF Len(Line) > 0 THEN Is(Line[Len(Line)], Len(sent), sent[Len(sent)])
                                  ELSE Len(relayed) = Len(sent)
           \/ q > 0 /\ K = Len(sent) /\ EndsAt(q),
           UNCHANGED <<closed, rpc, buf, need, relayed>>
    PROVE  StreamInv'
<1> DEFINE e == Take(b, n)
           L == Len(Line)
<1>1. TypeOK /\ CutFrom(Line, sent) /\ Starts /\ Reading /\ NeverFails
  BY DEF StreamInv
<1>2. n \in 0 .. Len(b) /\ Len(b) \in Nat
  BY LenProperties
<1>3. e \in Seq(Byte) /\ Len(e) = n /\ \A i \in 1 .. n : e[i] = b[i]
  BY <1>2, TakeFacts
<1>4. Drop(b, n) \in Seq(Byte) /\ Len(Drop(b, n)) = Len(b) - n
      /\ \A i \in 1 .. Len(b) - n : Drop(b, n)[i] = b[n + i]
  BY <1>2, DropFacts
<1> HIDE DEF e
<1>5. TypeOK'
  <2>1. stream' \in Seq(Byte)
    BY <1>1, <1>3, ConcatProperties DEF TypeOK, e
  <2>2. out' \in [Thread -> Seq(Byte)]
    BY <1>1, <1>4 DEF TypeOK
  <2>3. QED
    BY <1>1, <2>1, <2>2 DEF TypeOK
<1>6. /\ sent' \in Seq(Nat) /\ K \in Nat /\ sent'[K] \in Nat
      /\ \A c \in 1 .. K : sent'[c] \in Nat
  <2>1. sent' \in Seq(Nat) /\ K \in Nat /\ \A c \in 1 .. K : sent'[c] \in Nat
    BY Lengths
  <2>2. K \in 1 .. K
    BY <2>1
  <2>3. QED
    BY <2>1, <2>2
<1>7. Line \in Seq(Byte) /\ L \in Nat /\ sent \in Seq(Nat) /\ Len(relayed) \in Nat /\ Len(sent) \in Nat
  BY <1>1, LineFacts
<1>8. Line' = Line \o e
  <2>1. buf \o (stream \o e) = (buf \o stream) \o e
    <3>1. buf \in Seq(Byte) /\ stream \in Seq(Byte)
      BY <1>1 DEF TypeOK
    <3>2. QED
      BY ONLY <1>3, <3>1, WriteFacts
  <2>2. QED
    BY <2>1 DEF Line, e
<1>9. /\ Len(Line') = L + n
      /\ \A i \in 1 .. L : Line'[i] = Line[i]
      /\ \A i \in 1 .. n : Line'[L + i] = b[i]
  <2>1. /\ Len(Line') = L + n
        /\ \A i \in 1 .. L + n : Line'[i] = IF i <= L THEN Line[i] ELSE e[i - L]
    BY <1>3, <1>7, <1>8, ConcatProperties
  <2>2. \A i \in 1 .. n : L + i \in 1 .. L + n /\ ~(L + i <= L) /\ (L + i) - L = i
    BY <1>7
  <2>3. \A i \in 1 .. n : Line'[L + i] = b[i]
    BY <1>3, <2>1, <2>2
  <2>4. \A i \in 1 .. L : Line'[i] = Line[i]
    <3>1. \A i \in 1 .. L : i \in 1 .. L + n /\ i <= L
      BY <1>7
    <3>2. QED
      BY <2>1, <3>1
  <2>5. QED
    BY <2>1, <2>3, <2>4
<1>10. CutFrom(Line', sent')
  <2>1. q + Len(e) <= sent'[K]
    BY <1>2, <1>3, <1>6
  <2>2. \A p \in 1 .. Len(e) : Is(e[p], K, q + p) /\ e[p].len = sent'[K]
    <3>1. \A p \in 1 .. n : p \in 1 .. Len(b)
      BY <1>2
    <3>2. QED
      BY <1>3, <3>1
  <2>3. \/ q = 0 /\ K = Len(sent) + 1 /\ (Len(Line) > 0 => Is(Line[Len(Line)], Len(sent), sent[Len(sent)]))
        \/ q > 0 /\ K = Len(sent) /\ Len(Line) > 0 /\ Is(Line[Len(Line)], K, q)
    BY DEF EndsAt
  <2>4. Continues(Line, sent, e, sent', q)
    BY <2>1, <2>2, <2>3 DEF Continues
  <2>5. CutFrom(Line \o e, sent')
    BY <1>1, <1>3, <1>6, <1>7, <2>4, AppendCut
  <2>6. QED
    BY <1>8, <2>5
<1>11. EndsAt(q + n)'
  <2>1. Line'[L + n] = b[n] /\ L + n > 0
    BY <1>2, <1>7, <1>9
  <2>2. QED
    BY <1>2, <1>9, <2>1 DEF EndsAt
<1>12. out'[t] = Drop(b, n) /\ \A u \in Thread : u # t => out'[u] = << >>
  BY <1>1 DEF TypeOK
<1>13. Unfinished'
  <2>1. sent'[K] - Len(out'[t]) = q + n
    <3>1. Len(out'[t]) = Len(b) - n
      BY <1>4, <1>12
    <3>2. PICK m \in Nat : m = sent'[K] /\ Len(b) = m - q
      BY <1>6
    <3>3. m - (Len(b) - n) = q + n
      BY <1>2, <3>2
    <3>4. QED
      BY <3>1, <3>2, <3>3
  <2>2. \A p \in 1 .. Len(out'[t]) : Is(out'[t][p], K, (q + n) + p) /\ out'[t][p].len = sent'[K]
    <3> TAKE p \in 1 .. Len(out'[t])
    <3>1. out'[t][p] = b[n + p] /\ n + p \in 1 .. Len(b) /\ q + (n + p) = (q + n) + p
      <4>1. p \in 1 .. Len(b) - n
        BY <1>4, <1>12
      <4>2. n + p \in 1 .. Len(b) /\ q + (n + p) = (q + n) + p
        BY <1>2, <4>1
      <4>3. QED
        BY <1>4, <1>12, <4>1, <4>2
    <3>2. QED
      BY <3>1
  <2>3. q + n > 0
    BY <1>2
  <2>4. QED
    BY <1>11, <1>12, <2>1, <2>2, <2>3 DEF Unfinished
<1>14. Finished'
  <2>1. out'[t] = << >> => q + n = sent'[K]
    <3> HAVE out'[t] = << >>
    <3>1. Len(b) = n
      BY <1>2, <1>4, <1>12
    <3>2. n = sent'[K] - q /\ n \in Nat
      BY <1>2, <3>1
    <3>3. QED
      BY <1>6, <3>2
  <2>2. QED
    BY <1>11, <2>1 DEF Finished
<1>15. Starts'
  <2>1. CASE L > 0
    <3>1. 1 \in 1 .. L
      BY <1>7, <2>1
    <3>2. Line'[1] = Line[1]
      BY <1>9, <3>1
    <3>3. QED
      BY <1>1, <2>1, <3>2 DEF Starts, Current
  <2>2. CASE L = 0
    <3>1. q = 0 /\ K = Len(relayed) + 1
      BY <2>2 DEF EndsAt
    <3>2. Line'[1] = b[1] /\ Is(b[1], K, 1)
      BY <1>2, <1>9, <2>2, <3>1
    <3>3. QED
      BY <3>1, <3>2 DEF Starts, Current
  <2>3. QED
    BY <1>7, <2>1, <2>2
<1>16. Reading'
  <2>1. rpc = "payload" => Current \in 1 .. Len(sent)
    <3> HAVE rpc = "payload"
    <3>1. L > 0
      BY <1>1, LineFacts DEF Reading
    <3>2. Is(Line[1], Current, 1) /\ 1 \in 1 .. L
      BY <1>1, <1>7, <3>1 DEF Starts
    <3>3. QED
      BY <1>1, <3>2 DEF CutFrom, Genuine, Is
  <2>2. QED
    BY <1>1, <2>1 DEF Reading, Current
<1>17. QED
  BY <1>1, <1>5, <1>10, <1>13, <1>14, <1>15, <1>16 DEF StreamInv, NeverFails

\* A send that has begun goes on.
LEMMA XsendallStep ==
    ASSUME StreamInv, NEW t \in Thread, xsendall(t)
    PROVE  StreamInv'
<1>1. PICK n \in 1 .. Len(out[t]) : /\ stream' = stream \o Take(out[t], n)
                                    /\ out' = [out EXCEPT ![t] = Drop(out[t], n)]
  BY DEF xsendall, xsend, Resume
<1>2. TypeOK /\ Unfinished /\ CutFrom(Line, sent)
  BY DEF StreamInv
<1>3. out[t] # << >> /\ UNCHANGED <<sent, closed, rpc, buf, need, relayed>>
  BY DEF xsendall
<1>4. out[t] \in Seq(Byte) /\ Len(out[t]) \in Nat /\ sent \in Seq(Total) /\ Len(sent) <= MaxCables
  BY <1>2, LenProperties DEF TypeOK
<1>5. PICK q : q = sent[Len(sent)] - Len(out[t])
  OBVIOUS
<1>6. /\ q > 0 /\ EndsAt(q)
      /\ \A p \in 1 .. Len(out[t]) :
            Is(out[t][p], Len(sent), q + p) /\ out[t][p].len = sent[Len(sent)]
  BY <1>2, <1>3, <1>5 DEF Unfinished
<1>7. Len(sent) > 0 /\ sent[Len(sent)] \in Nat
  <2>1. Len(Line) \in 1 .. Len(Line) /\ Line[Len(Line)].cable = Len(sent)
    BY <1>2, <1>6, LineFacts DEF EndsAt, Is
  <2>2. Len(sent) \in 1 .. Len(sent)
    BY <1>2, <2>1 DEF CutFrom, Genuine
  <2>3. QED
    BY <1>2, <2>2, LineFacts
<1>8. q \in Nat /\ Len(out[t]) = sent'[Len(sent')] - q
  BY <1>3, <1>4, <1>5, <1>6, <1>7
<1>9. \A u \in Thread : u # t => out[u] = << >>
  BY <1>2, <1>3 DEF Unfinished
<1>10. Len(sent) <= Len(sent') /\ Len(sent') > 0
  BY <1>3, <1>7, <1>4, LenProperties
<1>11. QED
  BY <1>1, <1>3, <1>4, <1>6, <1>8, <1>9, <1>10, WriteStep

\* A new cable, when no other send is under way.
LEMMA TransmitStep ==
    ASSUME ~Overlap, StreamInv, NEW t \in Thread, transmit_wire(t)
    PROVE  StreamInv'
<1>1. PICK m \in Total :
        /\ sent' = Append(sent, m)
        /\ xsend(t, CableBytes(Len(sent) + 1, m), IF ShortHeader THEN 1 ELSE HeaderSize)
  BY DEF transmit_wire
<1> DEFINE b == CableBytes(Len(sent) + 1, m)
<1>K. PICK K : K = Len(sent) + 1
  OBVIOUS
<1>2. /\ TypeOK /\ Finished
      /\ \A u \in Thread : out[u] = << >>
      /\ Len(sent) < MaxCables
      /\ UNCHANGED <<closed, rpc, buf, need, relayed>>
  BY DEF StreamInv, transmit_wire
<1>3. /\ sent \in Seq(Total) /\ Len(sent) \in Nat /\ m \in Nat /\ m > HeaderSize
      /\ HeaderSize \in Nat /\ HeaderSize > 0 /\ MaxCables \in Nat
  BY <1>2, StreamAssumption, LenProperties DEF TypeOK
<1>4. /\ sent' \in Seq(Total) /\ Len(sent') = K /\ sent'[K] = m
      /\ \A c \in 1 .. Len(sent) : sent'[c] = sent[c]
  BY <1>1, <1>3, <1>K, AppendProperties
<1>5. /\ b \in Seq(Byte) /\ Len(b) = m
      /\ \A p \in 1 .. m : Is(b[p], K, 0 + p) /\ b[p].len = m
  <2>1. \A p \in 1 .. m : [cable |-> K, pos |-> p, len |-> m] \in Byte
    BY <1>2, <1>3, <1>K DEF Byte
  <2>2. b \in [1 .. m -> Byte]
    BY <2>1, <1>K DEF CableBytes
  <2>3. b \in Seq(Byte)
    BY <1>3, <2>2, SeqDef
  <2>4. DOMAIN b = 1 .. Len(b) /\ DOMAIN b = 1 .. m /\ Len(b) \in Nat
    BY <2>2, <2>3, LenProperties
  <2>5. Len(b) = m
    BY <1>3, <2>4
  <2>6. \A p \in 1 .. m : Is(b[p], K, 0 + p) /\ b[p].len = m
    BY <1>3, <1>K DEF CableBytes, Is
  <2>7. QED
    BY <2>3, <2>5, <2>6
<1> HIDE DEF b
<1>6. PICK n \in 1 .. Len(b) : stream' = stream \o Take(b, n) /\ out' = [out EXCEPT ![t] = Drop(b, n)]
  <2>1. PICK n \in (IF ShortHeader THEN 1 ELSE HeaderSize) .. Len(b) :
           stream' = stream \o Take(b, n) /\ out' = [out EXCEPT ![t] = Drop(b, n)]
    BY <1>1 DEF xsend, Resume, b
  <2>2. n \in 1 .. Len(b)
    BY <1>3, <1>5, <2>1
  <2>3. QED
    BY <2>1, <2>2
<1>7. IF Len(Line) > 0 THEN Is(Line[Len(Line)], Len(sent), sent[Len(sent)])
                       ELSE Len(relayed) = Len(sent)
  BY <1>2 DEF Finished, EndsAt
<1>8. K > 0 /\ Len(sent') <= MaxCables /\ Len(sent) <= Len(sent') /\ Len(b) = sent'[K] - 0
  BY <1>2, <1>3, <1>4, <1>5, <1>K
<1>9. \A p \in 1 .. Len(b) : Is(b[p], K, 0 + p) /\ b[p].len = sent'[K]
  BY <1>4, <1>5
<1>10. 0 \in Nat /\ \A u \in Thread : u # t => out[u] = << >>
  BY <1>2
<1>11. QED
  BY <1>2, <1>4, <1>5, <1>6, <1>7, <1>8, <1>9, <1>10, <1>K, WriteStep

(***************************************************************************)
(* A step of the reader that hands nothing on yet only moves bytes.        *)
(***************************************************************************)
LEMMA MoveStep ==
    ASSUME StreamInv, Line' = Line, UNCHANGED <<sent, out, closed, relayed>>,
           TypeOK', Reading', rpc' # "failed"
    PROVE  StreamInv'
<1> USE DEF StreamInv
<1>1. CutFrom(Line, sent)'
  OBVIOUS
<1>2. Starts'
  BY DEF Starts, Current
<1>3. Unfinished' /\ Finished'
  BY DEF Unfinished, Finished, EndsAt
<1>4. QED
  BY <1>1, <1>2, <1>3 DEF NeverFails

(***************************************************************************)
(* While bytes are pending, they begin with the current cable: whole as    *)
(* far as it goes, followed by the next one.                               *)
(***************************************************************************)
LEMMA CurrentCable ==
    ASSUME StreamInv, Len(Line) > 0
    PROVE  LET l == sent[Current]
           IN  /\ Current \in 1 .. Len(sent) /\ l \in Nat /\ HeaderSize < l /\ l \in Total
               /\ \A j \in 1 .. Len(Line) : j <= l => Is(Line[j], Current, j) /\ Line[j].len = l
               /\ Len(Line) > l => Is(Line[l + 1], Current + 1, 1)
<1>1. TypeOK /\ CutFrom(Line, sent) /\ Is(Line[1], Current, 1)
  BY DEF StreamInv, Starts
<1>2. Line \in Seq(Byte) /\ sent \in Seq(Nat) /\ Current \in Nat
  BY <1>1, LineFacts DEF Current
<1>3. /\ Current \in 1 .. Len(sent)
      /\ \A j \in 1 .. Len(Line) : j <= sent[Current] => Is(Line[j], Current, j) /\ Line[j].len = sent[Current]
      /\ Len(Line) > sent[Current] => Is(Line[sent[Current] + 1], Current + 1, 1)
  BY <1>1, <1>2, FirstCable
<1>4. sent[Current] \in Nat /\ HeaderSize < sent[Current]
  BY <1>1, <1>3, LineFacts
<1>5. sent[Current] \in Total
  BY <1>1, <1>3, ElementOfSeq DEF TypeOK
<1>6. QED
  BY <1>3, <1>4, <1>5

\* The header is that of the current cable, and says how long it is.
LEMMA RecvClientStep ==
    ASSUME ~ShortHeader, StreamInv, recv_client
    PROVE  StreamInv'
<1> DEFINE b == Take(stream, HeaderSize)
<1>1. /\ rpc = "header" /\ HeaderSize <= Len(stream)
      /\ buf' = b /\ stream' = Drop(stream, HeaderSize) /\ cable_recv_data(b)
      /\ UNCHANGED <<sent, out, closed, relayed>>
  BY DEF recv_client
<1>2. TypeOK /\ buf = << >> /\ rpc # "payload"
  BY <1>1 DEF StreamInv, Reading
<1>3. /\ stream \in Seq(Byte) /\ Len(stream) \in Nat /\ Len(Line) = Len(stream)
      /\ \A i \in 1 .. Len(stream) : Line[i] = stream[i]
      /\ HeaderSize \in Nat /\ HeaderSize > 0 /\ HeaderSize \in 0 .. Len(stream) /\ Line = stream
  <2>1. Len(buf) = 0 /\ stream \in Seq(Byte) /\ Line = stream
    BY <1>2, ConcatEmptySeq DEF TypeOK, Line
  <2>2. QED
    BY <1>1, <1>2, <2>1, LineFacts
<1>4. /\ b \in Seq(Byte) /\ Len(b) = HeaderSize /\ \A i \in 1 .. HeaderSize : b[i] = stream[i]
  BY <1>3, TakeFacts
<1>5. PICK l : l = sent[Current]
  OBVIOUS
<1>6. /\ l \in Nat /\ HeaderSize < l
      /\ \A j \in 1 .. Len(Line) : j <= l => Is(Line[j], Current, j) /\ Line[j].len = l
  BY <1>1, <1>3, <1>5, CurrentCable
<1> HIDE DEF b
<1>7. \A i \in 1 .. HeaderSize : b[i].cable = Current /\ b[i].pos = i /\ b[i].len = l
  <2> TAKE i \in 1 .. HeaderSize
  <2>1. i \in 1 .. Len(Line) /\ i <= l /\ b[i] = Line[i]
    BY <1>1, <1>3, <1>4, <1>6
  <2>2. QED
    BY <1>6, <2>1 DEF Is
<1>8. 1 \in 1 .. HeaderSize /\ \A i \in 1 .. SigSize : i \in 1 .. HeaderSize
  BY <1>3, StreamAssumption
<1>9. Signed(b)
  BY <1>3, <1>4, <1>7, <1>8, StreamAssumption DEF Signed
<1>10. Declared(b) = {l}
  BY <1>4, <1>7, <1>8 DEF Declared
<1>11. rpc' = "payload" /\ need' = l - HeaderSize
  BY <1>1, <1>3, <1>6, <1>9, <1>10 DEF cable_recv_data, Remaining
<1>12. Line' = Line
  <2>1. (<< >> \o b) \o Drop(stream, HeaderSize) = << >> \o stream
    BY <1>3, EmptySeq, MoveFacts DEF b
  <2>2. << >> \o b = b /\ << >> \o stream = stream
    BY <1>3, <1>4, ConcatEmptySeq
  <2>3. QED
    BY <1>1, <1>3, <2>1, <2>2 DEF Line
<1>13. TypeOK'
  <2>1. stream' \in Seq(Byte) /\ need' \in Nat
    BY <1>1, <1>3, <1>6, <1>11, DropFacts
  <2>2. QED
    BY <1>1, <1>2, <1>4, <1>11, <2>1 DEF TypeOK
<1>14. Reading'
  <2>1. sent'[Current'] = l
    BY <1>1, <1>5 DEF Current
  <2>2. Len(buf') = HeaderSize /\ need' > 0 /\ Len(buf') + need' = l
    BY <1>1, <1>3, <1>4, <1>6, <1>11
  <2>3. HeaderSize <= Len(buf')
    BY <1>3, <2>2
  <2>4. QED
    BY <1>11, <2>1, <2>2, <2>3 DEF Reading
<1>15. QED
  BY <1>1, <1>11, <1>12, <1>13, <1>14, MoveStep

(***************************************************************************)
(* What is left when the current cable has been handed on.                 *)
(***************************************************************************)
LEMMA HandedOn ==
    ASSUME StreamInv, Len(Line) > 0, sent[Current] <= Len(Line),
           Line' = Drop(Line, sent[Current]), UNCHANGED <<sent, out>>,
           Len(relayed') = Len(relayed) + 1
    PROVE  CutFrom(Line, sent)' /\ Starts' /\ Unfinished' /\ Finished'
<1>1. PICK l : l = sent[Current]
  OBVIOUS
<1>2. TypeOK /\ CutFrom(Line, sent) /\ Unfinished /\ Finished
  BY DEF StreamInv
<1>3. /\ Line \in Seq(Byte) /\ Len(Line) \in Nat /\ sent \in Seq(Nat)
      /\ Len(relayed) \in Nat /\ Len(sent) \in Nat
  BY <1>2, LineFacts, LenProperties
<1>4. /\ Current \in 1 .. Len(sent) /\ l \in Nat /\ HeaderSize < l /\ HeaderSize \in Nat
      /\ l \in 1 .. Len(Line) /\ Is(Line[l], Current, l)
      /\ Len(Line) > l => Is(Line[l + 1], Current + 1, 1)
  <2>1. /\ Current \in 1 .. Len(sent) /\ l \in Nat /\ HeaderSize < l
        /\ \A j \in 1 .. Len(Line) : j <= l => Is(Line[j], Current, j)
        /\ Len(Line) > l => Is(Line[l + 1], Current + 1, 1)
    BY <1>1, CurrentCable
  <2>2. l \in 1 .. Len(Line) /\ l <= l /\ HeaderSize \in Nat
    BY <1>1, <1>3, <2>1, StreamAssumption
  <2>3. QED
    BY <2>1, <2>2
<1>5. /\ Len(Line') = Len(Line) - l
      /\ \A i \in 1 .. Len(Line) - l : Line'[i] = Line[l + i]
  <2>1. l \in 0 .. Len(Line)
    BY <1>4
  <2>2. QED
    <3>1. /\ Len(Drop(Line, l)) = Len(Line) - l
          /\ \A i \in 1 .. Len(Line) - l : Drop(Line, l)[i] = Line[l + i]
      BY <1>3, <2>1, DropFacts
    <3>2. Line' = Drop(Line, l)
      BY <1>1
    <3>3. QED
      BY <3>1, <3>2
<1>6. CutFrom(Line, sent)'
  <2>1. l \in 0 .. Len(Line)
    BY <1>4
  <2>2. CutFrom(Drop(Line, l), sent)
    BY <1>2, <1>3, <2>1, DropCut
  <2>3. QED
    BY <1>1, <2>2
<1>7. Starts'
  <2> SUFFICES ASSUME Len(Line') > 0 PROVE Is(Line'[1], Current + 1, 1)
    BY <1>3 DEF Starts, Current
  <2>1. Len(Line) > l /\ 1 \in 1 .. Len(Line) - l
    BY <1>3, <1>4, <1>5
  <2>2. QED
    BY <1>4, <1>5, <2>1
<1>8. ASSUME NEW q, EndsAt(q), Len(Line) > l PROVE EndsAt(q)'
  <2>1. Len(Line') > 0 /\ Len(Line') \in 1 .. Len(Line) - l /\ l + Len(Line') = Len(Line)
    BY <1>3, <1>4, <1>5, <1>8
  <2>2. Line'[Len(Line')] = Line[Len(Line)]
    BY <1>5, <2>1
  <2>3. QED
    BY <1>8, <2>1, <2>2 DEF EndsAt
<1>9. ASSUME NEW q, EndsAt(q), ~(Len(Line) > l)
      PROVE  Len(sent) = Current /\ q = l /\ Len(Line) = l
  <2>1. Len(Line) = l
    BY <1>3, <1>4, <1>9
  <2>2. QED
    BY <1>4, <1>9, <2>1 DEF EndsAt, Is
<1>10. Unfinished'
  <2> SUFFICES ASSUME NEW t \in Thread, out[t] # << >>
               PROVE  EndsAt(sent[Len(sent)] - Len(out[t]))'
    BY <1>2 DEF Unfinished
  <2>1. PICK q : q = sent[Len(sent)] - Len(out[t])
    OBVIOUS
  <2>2. EndsAt(q)
    BY <1>2, <2>1 DEF Unfinished
  <2>3. Len(Line) > l
    <3>1. SUFFICES ASSUME ~(Len(Line) > l) PROVE FALSE
      OBVIOUS
    <3>2. Len(sent) = Current /\ q = l
      BY <1>9, <2>2, <3>1
    <3>3. out[t] \in Seq(Byte)
      BY <1>2 DEF TypeOK
    <3>4. Len(out[t]) \in Nat \ {0}
      BY <3>3, EmptySeq
    <3>5. q = l - Len(out[t])
      BY <1>1, <2>1, <3>2
    <3>6. QED
      BY <1>4, <3>2, <3>4, <3>5
  <2>4. EndsAt(q)'
    BY <1>8, <2>2, <2>3
  <2>5. QED
    BY <2>1, <2>4
<1>11. Finished'
  <2> SUFFICES ASSUME \A t \in Thread : out[t] = << >>
               PROVE  (Len(Line') = 0 /\ Len(relayed') = Len(sent)) \/ EndsAt(sent[Len(sent)])'
    BY DEF Finished
  <2>1. EndsAt(sent[Len(sent)])
    BY <1>2, <1>3 DEF Finished
  <2>2. CASE Len(Line) > l
    BY <1>8, <2>1, <2>2
  <2>3. CASE ~(Len(Line) > l)
    <3>1. Len(sent) = Current /\ Len(Line) = l
      BY <1>9, <2>1, <2>3
    <3>2. QED
      BY <1>3, <1>4, <1>5, <3>1 DEF Current
  <2>4. QED
    BY <2>2, <2>3
<1>12. QED
  BY <1>6, <1>7, <1>10, <1>11

(***************************************************************************)
(* xrecvall: what it hands on is the current cable, byte for byte.         *)
(***************************************************************************)
LEMMA XrecvallStep ==
    ASSUME StreamInv, xrecvall
    PROVE  /\ StreamInv'
           /\ sent' = sent
           /\ \/ relayed' = relayed
              \/ relayed' = Append(relayed, Len(relayed) + 1) /\ Len(relayed) < Len(sent)
<1>1. PICK n \in 0 .. need :
        /\ n <= Len(stream) /\ (n > 0 \/ need = 0)
        /\ stream' = Drop(stream, n) /\ need' = need - n
        /\ IF need = n
           THEN /\ relayed' = Append(relayed, Identify(buf \o Take(stream, n)))
                /\ rpc' = "header" /\ buf' = << >>
           ELSE /\ buf' = buf \o Take(stream, n)
                /\ UNCHANGED <<rpc, relayed>>
  BY DEF xrecvall
<1>2. rpc = "payload" /\ UNCHANGED <<sent, out, closed>>
  BY DEF xrecvall
<1>3. PICK l : l = sent[Current]
  OBVIOUS
<1>4. /\ TypeOK /\ HeaderSize <= Len(buf) /\ need > 0 /\ Len(buf) + need = l
  BY <1>2, <1>3 DEF StreamInv, Reading
<1>5. /\ Len(buf) \in Nat /\ Len(stream) \in Nat /\ need \in Nat /\ Len(relayed) \in Nat
      /\ buf \in Seq(Byte) /\ stream \in Seq(Byte) /\ Line \in Seq(Byte)
      /\ Len(Line) = Len(buf) + Len(stream) /\ Len(Line) > 0
      /\ HeaderSize \in Nat /\ HeaderSize > 0 /\ n \in 0 .. Len(stream)
  BY <1>1, <1>4, LineFacts DEF TypeOK
<1>6. /\ Current \in 1 .. Len(sent) /\ l \in Nat /\ HeaderSize < l /\ l \in Total
      /\ \A j \in 1 .. Len(Line) : j <= l => Is(Line[j], Current, j) /\ Line[j].len = l
  BY <1>3, <1>5, CurrentCable
<1> DEFINE e == Take(stream, n)
           d == Drop(stream, n)
           c == buf \o e
<1>7. /\ e \in Seq(Byte) /\ Len(e) = n
      /\ d \in Seq(Byte) /\ Len(d) = Len(stream) - n
  BY <1>5, TakeFacts, DropFacts
<1>8. c \o d = Line
  BY <1>5, MoveFacts DEF Line
<1> HIDE DEF e, d
<1>9. /\ c \in Seq(Byte) /\ Len(c) = Len(buf) + n
  BY <1>5, <1>7, ConcatProperties
<1> HIDE DEF c
<1>10. /\ Len(Line) = Len(c) + Len(d)
       /\ \A i \in 1 .. Len(c) + Len(d) : Line[i] = IF i <= Len(c) THEN c[i] ELSE d[i - Len(c)]
  BY ONLY <1>7, <1>8, <1>9, Joined
<1>11. CASE need # n
  <2>1. buf' = c /\ stream' = d /\ rpc' = "payload" /\ relayed' = relayed /\ need' = need - n
    BY <1>1, <1>2, <1>11 DEF c, d, e
  <2>2. Line' = Line
    BY <1>8, <2>1 DEF Line
  <2>3. need' \in Nat /\ need' > 0 /\ Len(buf') + need' = l /\ HeaderSize <= Len(buf')
    <3>1. n \in Nat /\ n <= need /\ Len(buf') = Len(buf) + n
      BY <1>1, <1>5, <1>9, <2>1
    <3>2. QED
      BY <1>4, <1>5, <1>11, <2>1, <3>1
  <2>4. TypeOK'
    BY <1>2, <1>4, <1>7, <1>9, <2>1, <2>3 DEF TypeOK
  <2>5. Reading'
    BY <1>2, <1>3, <2>1, <2>3 DEF Reading, Current
  <2>6. QED
    BY <1>2, <2>1, <2>2, <2>4, <2>5, MoveStep
<1>12. CASE need = n
  <2>1. /\ stream' = d /\ rpc' = "header" /\ buf' = << >> /\ need' = 0
        /\ relayed' = Append(relayed, Identify(c))
    BY <1>1, <1>5, <1>12 DEF c, d, e
  <2>2. Len(c) = l /\ 1 \in 1 .. l /\ l <= Len(Line) /\ l \in 0 .. Len(Line)
    BY <1>4, <1>5, <1>6, <1>7, <1>9, <1>10, <1>12
  <2>3. \A i \in 1 .. l : c[i].cable = Current /\ c[i].pos = i /\ c[i].len = l
    <3> TAKE i \in 1 .. l
    <3>1. i \in 1 .. Len(Line) /\ i <= l /\ i \in 1 .. Len(c) + Len(d)
      BY <1>5, <1>6, <1>7, <1>10, <2>2
    <3>2. c[i] = Line[i]
      BY <1>10, <2>2, <3>1
    <3>3. QED
      BY <1>6, <3>1, <3>2 DEF Is
  <2>4. Identify(c) = Current
    <3>1. c \in [1 .. l -> Byte]
      BY <1>9, <2>2, LenProperties
    <3>2. ASSUME NEW i \in 1 .. l PROVE c[i] = [cable |-> Current, pos |-> i, len |-> l]
      BY <2>3, <3>1 DEF Byte
    <3>3. c = CableBytes(Current, l)
      BY <3>1, <3>2 DEF CableBytes
    <3>4. QED
      BY <2>2, <2>3, <3>3 DEF Identify
  <2>5. Line' = Drop(Line, l)
    <3>1. d = Drop(Line, l)
      <4>1. /\ Drop(Line, l) \in Seq(Byte) /\ Len(Drop(Line, l)) = Len(Line) - l
            /\ \A i \in 1 .. Len(Line) - l : Drop(Line, l)[i] = Line[l + i]
        BY <1>5, <2>2, DropFacts
      <4>2. Len(Line) - l = Len(d) /\ Len(d) \in Nat
        <5>1. Len(d) \in Nat
          BY <1>7, LenProperties
        <5>2. QED
          BY <1>6, <1>10, <2>2, <5>1
      <4>3. ASSUME NEW i \in 1 .. Len(d) PROVE Line[l + i] = d[i]
        <5>1. l + i \in 1 .. Len(c) + Len(d) /\ ~(l + i <= Len(c)) /\ (l + i) - Len(c) = i
          BY <1>6, <2>2, <4>2
        <5>2. QED
          BY <1>10, <5>1
      <4>4. QED
        BY <1>7, <4>1, <4>2, <4>3, SeqEqual
    <3>2. << >> \o d = d
      BY <1>7, ConcatEmptySeq
    <3>3. QED
      BY <2>1, <3>1, <3>2 DEF Line
  <2>6. /\ relayed' = Append(relayed, Len(relayed) + 1) /\ Len(relayed) < Len(sent)
        /\ relayed' \in Seq(0 .. MaxCables) /\ Len(relayed') = Len(relayed) + 1
    <3>1. Len(relayed) + 1 \in 0 .. MaxCables /\ Len(relayed) < Len(sent)
      <4>1. Len(sent) \in Nat /\ Len(sent) <= MaxCables /\ MaxCables \in Nat
        BY <1>4, LineFacts, StreamAssumption DEF TypeOK
      <4>2. QED
        BY <1>5, <1>6, <4>1 DEF Current
    <3>2. relayed \in Seq(0 .. MaxCables)
      BY <1>4 DEF TypeOK
    <3>3. QED
      BY <2>1, <2>4, <3>1, <3>2, AppendProperties DEF Current
  <2>7. CutFrom(Line, sent)' /\ Starts' /\ Unfinished' /\ Finished'
    BY <1>2, <1>3, <1>5, <2>2, <2>5, <2>6, HandedOn
  <2>8. TypeOK'
    BY <1>2, <1>4, <1>7, <2>1, <2>6, EmptySeq DEF TypeOK
  <2>9. Reading' /\ NeverFails'
    BY <2>1 DEF Reading, NeverFails
  <2>10. QED
    BY <1>2, <2>6, <2>7, <2>8, <2>9 DEF StreamInv
<1>13. QED
  BY <1>11, <1>12

-----------------------------------------------------------------------------
(***************************************************************************)
(* Every step keeps the invariant and is, for the abstract channel, the    *)
(* sending of a cable, the relaying of the next one, or no step.           *)
(***************************************************************************)
LEMMA NextStream ==
    ASSUME ~Overlap, ~ShortHeader, StreamInv, [Next]_vars
    PROVE  StreamInv' /\ [Channel!Next]_<<sent, relayed>>
<1>1. CASE recv_client
  BY <1>1, RecvClientStep DEF recv_client
<1>2. CASE disconnect
  <2>1. Line' = Line /\ buf = << >> /\ rpc' = "disconnected"
    BY <1>2 DEF disconnect, Line, StreamInv, Reading
  <2>2. TypeOK' /\ Reading'
    BY <1>2, <2>1 DEF disconnect, StreamInv, TypeOK, Reading
  <2>3. QED
    BY <1>2, <2>1, <2>2, MoveStep DEF disconnect
<1>3. CASE xrecvall
  <2>1. StreamInv' /\ sent' = sent
    BY <1>3, XrecvallStep
  <2>2. relayed' = relayed \/ Channel!Relay
    BY <1>3, XrecvallStep DEF Channel!Relay
  <2>3. QED
    BY <2>1, <2>2 DEF Channel!Next
<1>4. CASE close
  <2>1. Line' = Line /\ closed' = TRUE
    BY <1>4 DEF close, Line
  <2>2. StreamInv'
    BY <1>4, <2>1 DEF close, StreamInv, TypeOK, Starts, Current, Unfinished, Finished, EndsAt, Reading, NeverFails
  <2>3. QED
    BY <1>4, <2>2 DEF close
<1>5. ASSUME NEW t \in Thread, transmit_wire(t)
      PROVE  StreamInv' /\ Channel!Next
  <2>1. StreamInv'
    BY <1>5, TransmitStep
  <2>2. PICK m \in Total : sent' = Append(sent, m) /\ relayed' = relayed
    BY <1>5 DEF transmit_wire
  <2>3. QED
    BY <2>1, <2>2 DEF Channel!Next, Channel!Send
<1>6. ASSUME NEW t \in Thread, xsendall(t)
      PROVE  StreamInv' /\ UNCHANGED <<sent, relayed>>
  BY <1>6, XsendallStep DEF xsendall
<1>7. CASE UNCHANGED vars
  <2>1. UNCHANGED <<sent, out, stream, closed, rpc, buf, need, relayed>> /\ Line' = Line
    BY <1>7 DEF vars, Line
  <2>2. TypeOK' /\ Reading' /\ rpc' # "failed"
    BY <2>1 DEF StreamInv, TypeOK, Reading, Current, NeverFails
  <2>3. QED
    BY <2>1, <2>2, MoveStep
<1>8. QED
  BY <1>1, <1>2, <1>3, <1>4, <1>5, <1>6, <1>7 DEF Next, Reader

(***************************************************************************)
(* As long as the threads of a client send one after the other and headers *)
(* are not split, every header the daemon reads is one that init_cable     *)
(* wrote: recv_client never refuses a client's cable, however the kernel   *)
(* splits everything else.                                                 *)
(***************************************************************************)
THEOREM NeverFailsTheorem ==
    ASSUME ~Overlap, ~ShortHeader
    PROVE  Spec => []NeverFails
<1>1. StreamInv => NeverFails
  BY DEF StreamInv
<1>2. StreamInv /\ [Next]_vars => StreamInv'
  BY NextStream
<1>3. QED
  BY <1>1, <1>2, InitStream, PTL DEF Spec

(***************************************************************************)
(* Under the same conditions the framing implements the abstract channel:  *)
(* the daemon relays exactly the cables that were sent, whole and in       *)
(* order.                                                                  *)
(***************************************************************************)
THEOREM ImplementsChannelTheorem ==
    ASSUME ~Overlap, ~ShortHeader
    PROVE  Spec => ImplementsChannel
<1>1. Init => Channel!Init
  BY DEF Init, Channel!Init
<1>2. StreamInv /\ [Next]_vars => StreamInv' /\ [Channel!Next]_<<sent, relayed>>
  BY NextStream
<1>3. QED
  BY <1>1, <1>2, InitStream, PTL DEF Spec, ImplementsChannel, Channel!Spec

=============================================================================
