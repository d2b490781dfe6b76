---------------------------- MODULE PayloadProofs ----------------------------
(***************************************************************************)
(* Proofs about Wire and Payload for every set of keys, every block length *)
(* and every layout of the messages.                                       *)
(***************************************************************************)
EXTENDS Payload, WellFoundedInduction, TLAPS

-----------------------------------------------------------------------------
(***************************************************************************)
(* Padding.                                                                *)
(***************************************************************************)

\* Whole blocks are q blocks, for the quotient q of get_aligned_len.
LEMMA Quotient ==
    ASSUME NEW m \in Nat
    PROVE  \E q, r \in Nat : /\ get_aligned_len(m) = q * BLOCK_LEN
                             /\ m + BLOCK_LEN - 1 = q * BLOCK_LEN + r /\ r < BLOCK_LEN
<1> DEFINE q == (m + BLOCK_LEN - 1) \div BLOCK_LEN
           r == (m + BLOCK_LEN - 1) % BLOCK_LEN
<1>1. q \in Nat /\ r \in Nat /\ r < BLOCK_LEN
  BY WireAssumption
<1>2. m + BLOCK_LEN - 1 = q * BLOCK_LEN + r
  BY WireAssumption
<1>3. QED
  BY <1>1, <1>2 DEF get_aligned_len

(***************************************************************************)
(* get_aligned_len adds less than a block, so that init_wire can keep the  *)
(* number of bytes added in one byte of the header.                        *)
(***************************************************************************)
LEMMA Padding ==
    ASSUME NEW m \in Nat
    PROVE  /\ get_aligned_len(m) \in Nat
           /\ m <= get_aligned_len(m) /\ get_aligned_len(m) < m + BLOCK_LEN
           /\ Alignment(m) = get_aligned_len(m) - m
<1>1. PICK q \in Nat, r \in Nat : /\ get_aligned_len(m) = q * BLOCK_LEN
                                 /\ m + BLOCK_LEN - 1 = q * BLOCK_LEN + r /\ r < BLOCK_LEN
  BY Quotient
<1>2. q * BLOCK_LEN \in Nat /\ BLOCK_LEN \in Nat
  BY WireAssumption
<1>3. m <= get_aligned_len(m) /\ get_aligned_len(m) < m + BLOCK_LEN
  BY <1>1, <1>2, WireAssumption
<1>4. get_aligned_len(m) - m \in 0 .. 255
  BY <1>1, <1>2, <1>3, WireAssumption
<1>5. QED
  BY <1>1, <1>2, <1>3, <1>4 DEF Alignment

-----------------------------------------------------------------------------
(***************************************************************************)
(* What decrypt_wire has established when it reaches each of its steps.    *)
(***************************************************************************)
Tried ==
    /\ key = key1 \/ (key = key2 /\ HasSecond)
    /\ key # key1 => under # key1 \/ changed \cap {"mac_inner", "header"} # {}

Verified ==
    /\ pc \in {"header", "outer"} => InnerMacOk
    /\ pc = "outer" => wire_len = len /\ ("iv" \notin changed => wire_len = init_wire_len(n))
    /\ pc = "accepted" => wire_len = init_wire_len(n)

WireInv == WireTypeOK /\ Tried /\ Verified /\ AcceptsExactlyAuthentic

\* decrypt_wire begins with key1 and nothing verified.
LEMMA InitWire == WireInit => WireInv
<1> SUFFICES ASSUME WireInit PROVE WireInv
  OBVIOUS
<1>1. n \in Nat /\ get_aligned_len(n) \in Nat
  BY WireAssumption, Padding DEF WireInit
<1>2. WireTypeOK
  BY <1>1, WireAssumption DEF WireInit, WireTypeOK, init_wire_len, WireSize
<1>3. QED
  BY <1>2 DEF WireInit, WireInv, Tried, Verified, AcceptsExactlyAuthentic

\* Each check of decrypt_wire adds to what is established.
LEMMA NextWire ==
    ASSUME WireInv, WireNext
    PROVE  WireInv'
<1> USE WireAssumption DEF WireInv, input
<1>1. n \in Nat /\ get_aligned_len(n) \in Nat /\ init_wire_len(n) \in Nat
  BY Padding DEF WireTypeOK, init_wire_len, WireSize
<1>2. init_wire_len(n)' = init_wire_len(n)
  BY DEF WireNext, wire_verify_inner_mac, wire_decrypt_header, wire_verify_outer_mac
<1>3. CASE wire_verify_inner_mac
  <2>1. WireTypeOK'
    BY <1>3 DEF wire_verify_inner_mac, WireTypeOK, HasSecond
  <2>2. Tried' /\ Verified'
    BY <1>2, <1>3 DEF wire_verify_inner_mac, WireTypeOK, HasSecond, Tried, Verified, InnerMacOk
  <2>3. AcceptsExactlyAuthentic'
    BY <1>2, <1>3 DEF wire_verify_inner_mac, WireTypeOK, HasSecond, Tried, AcceptsExactlyAuthentic, InnerMacOk
  <2>4. QED
    BY <2>1, <2>2, <2>3
<1>4. CASE wire_decrypt_header
  <2>1. WireTypeOK'
    BY <1>1, <1>4 DEF wire_decrypt_header, WireTypeOK
  <2>2. Tried' /\ Verified'
    BY <1>2, <1>4 DEF wire_decrypt_header, LengthOk, WireTypeOK, HasSecond, Tried, Verified, InnerMacOk
  <2>3. AcceptsExactlyAuthentic'
    BY <1>2, <1>4 DEF wire_decrypt_header, LengthOk, AcceptsExactlyAuthentic
  <2>4. QED
    BY <2>1, <2>2, <2>3
<1>5. CASE wire_verify_outer_mac
  <2>1. WireTypeOK'
    BY <1>5 DEF wire_verify_outer_mac, WireTypeOK
  <2>2. Tried' /\ Verified'
    BY <1>2, <1>5 DEF wire_verify_outer_mac, HasSecond, Tried, Verified
  <2>3. AcceptsExactlyAuthentic'
    BY <1>2, <1>5 DEF wire_verify_outer_mac, Verified, InnerMacOk, OuterMacOk, Tried, AcceptsExactlyAuthentic
  <2>4. QED
    BY <2>1, <2>2, <2>3
<1>6. QED
  BY <1>3, <1>4, <1>5 DEF WireNext

-----------------------------------------------------------------------------
(***************************************************************************)
(* The message in the wire.                                                *)
(***************************************************************************)
Message == named \in BOOLEAN /\ data \in Nat

PayloadInv == WireInv /\ Message

\* The sender has built a message.
LEMMA InitPayload == Init => PayloadInv
<1> SUFFICES ASSUME Init PROVE PayloadInv
  OBVIOUS
<1>1. WireInv
  BY InitWire DEF Init
<1>2. data \in Nat
  BY PayloadAssumption DEF Init, DataOf, Kinds
<1>3. named \in BOOLEAN
  BY Zenon DEF Init
<1>4. QED
  BY <1>1, <1>2, <1>3 DEF PayloadInv, Message

\* The steps of decrypt_wire touch no message, and those of the readers no wire.
LEMMA NextPayload == PayloadInv /\ [Next]_vars => PayloadInv'
<1> SUFFICES ASSUME PayloadInv, [Next]_vars PROVE PayloadInv'
  OBVIOUS
<1> USE DEF PayloadInv, Message
<1>1. CASE WireNext /\ UNCHANGED pvars
  <2>1. WireInv'
    BY <1>1, NextWire
  <2>2. QED
    BY <1>1, <2>1 DEF pvars
<1>2. CASE UNCHANGED <<wvars, kind, named, data, field>>
  BY <1>2 DEF wvars, WireInv, WireTypeOK, Tried, Verified, AcceptsExactlyAuthentic,
     HasSecond, InnerMacOk
<1>3. QED
  BY <1>1, <1>2 DEF Next, proc_text, proc_stat, proc_file, proc_ctrl, Reads, vars, pvars

\* The invariant holds in every reachable state.
LEMMA PayloadInvariance == Spec => []PayloadInv
  BY InitPayload, NextPayload, PTL DEF Spec

(***************************************************************************)
(* decrypt_wire accepts a wire exactly if it is whole, unchanged and under *)
(* one of the receiver's keys, for every block length and any number of    *)
(* keys.                                                                   *)
(***************************************************************************)
THEOREM AuthenticTheorem == Spec => []AcceptsExactlyAuthentic
<1>1. PayloadInv => AcceptsExactlyAuthentic
  BY DEF PayloadInv, WireInv
<1>2. QED
  BY <1>1, PayloadInvariance, PTL

-----------------------------------------------------------------------------
(***************************************************************************)
(* Recursive functions on 0 .. N: induction, in a form without operator    *)
(* parameters, and that such a function exists.                            *)
(***************************************************************************)

\* What holds of 0 and goes on from each number to the next holds up to N.
LEMMA Induction ==
    ASSUME NEW N \in Nat, NEW T, 0 \in T, \A i \in 1 .. N : i - 1 \in T => i \in T
    PROVE  \A i \in 0 .. N : i \in T
<1> DEFINE R == OpToRel(<, Nat)
           F == {i \in 0 .. N : i \notin T}
<1>1. IsWellFoundedOn(R, Nat)
  BY NatLessThanWellFounded, Zenon
<1>2. \A k, m \in Nat : k < m => <<k, m>> \in R
  BY DEF OpToRel
<1> HIDE DEF R
<1>3. SUFFICES ASSUME F # {} PROVE FALSE
  OBVIOUS
<1>4. F \subseteq Nat
  OBVIOUS
<1>5. PICK m \in F : \A y \in F : ~(<<y, m>> \in R)
  <2> HIDE DEF F
  <2> QED
    BY <1>1, <1>3, <1>4, WFMin
<1>6. m \in 1 .. N /\ m - 1 \in 0 .. N /\ m - 1 \in Nat /\ m \in Nat /\ m - 1 < m
  OBVIOUS
<1>7. m - 1 \in T
  BY <1>2, <1>5, <1>6
<1> QED
  BY <1>5, <1>6, <1>7

\* f begins with b and goes on by the steps h
Iterates(f, N, b, h) ==
    f \in [0 .. N -> Nat] /\ f[0] = b /\ \A i \in 1 .. N : f[i] = h[i][f[i - 1]]

\* There is such a function.
LEMMA Recursion ==
    ASSUME NEW N \in Nat, NEW b \in Nat, NEW h, \A i \in 1 .. N : \A x \in Nat : h[i][x] \in Nat
    PROVE  \E f : Iterates(f, N, b, h)
<1> DEFINE T == {k \in 0 .. N : \E f : Iterates(f, k, b, h)}
<1>1. 0 \in T
  <2> DEFINE f == [i \in 0 .. 0 |-> b]
  <2>1. f \in [0 .. 0 -> Nat] /\ f[0] = b
    OBVIOUS
  <2>2. \A i \in 1 .. 0 : f[i] = h[i][f[i - 1]]
    OBVIOUS
  <2> HIDE DEF f
  <2>3. Iterates(f, 0, b, h)
    BY <2>1, <2>2 DEF Iterates
  <2> QED
    BY <2>3
<1>2. ASSUME NEW m \in 1 .. N, m - 1 \in T PROVE m \in T
  <2>1. PICK g : Iterates(g, m - 1, b, h)
    BY <1>2
  <2>2. /\ g \in [0 .. m - 1 -> Nat] /\ g[0] = b
        /\ \A i \in 1 .. m - 1 : g[i] = h[i][g[i - 1]]
    BY <2>1 DEF Iterates
  <2> DEFINE f == [i \in 0 .. m |-> IF i = m THEN h[m][g[m - 1]] ELSE g[i]]
  <2>3. f \in [0 .. m -> Nat] /\ f[0] = b
    BY <2>2
  <2>4. ASSUME NEW i \in 1 .. m PROVE f[i] = h[i][f[i - 1]]
    <3>1. f[i - 1] = g[i - 1]
      OBVIOUS
    <3>2. i # m => f[i] = g[i] /\ i \in 1 .. m - 1
      OBVIOUS
    <3>3. i = m => f[i] = h[m][g[m - 1]]
      OBVIOUS
    <3> HIDE DEF f
    <3> QED
      BY <2>2, <3>1, <3>2, <3>3
  <2> HIDE DEF f
  <2>5. Iterates(f, m, b, h)
    BY <2>3, <2>4 DEF Iterates
  <2> QED
    BY <2>5
<1> HIDE DEF T
<1>3. \A i \in 0 .. N : i \in T
  BY <1>1, <1>2, Induction
<1> QED
  BY <1>3 DEF T

-----------------------------------------------------------------------------
(***************************************************************************)
(* Lengths as bytes.                                                       *)
(***************************************************************************)

\* A byte counts Radix times what the one before it counts.
LEMMA Places ==
    /\ \A i \in 0 .. LEN_BYTES : Place[i] \in Nat \ {0}
    /\ Place[0] = 1
    /\ \A i \in 1 .. LEN_BYTES : Place[i] = Radix * Place[i - 1]
<1> DEFINE P(f) == f = [i \in 0 .. LEN_BYTES |-> IF i = 0 THEN 1 ELSE Radix * f[i - 1]]
           h == [i \in 1 .. LEN_BYTES |-> [x \in Nat |-> Radix * x]]
<1>1. Radix \in Nat \ {0} /\ LEN_BYTES \in Nat /\ 1 \in Nat
  BY PayloadAssumption
<1>2. \A i \in 1 .. LEN_BYTES : \A x \in Nat : h[i][x] = Radix * x /\ h[i][x] \in Nat
  BY <1>1
<1> HIDE DEF h
<1>3. PICK f : Iterates(f, LEN_BYTES, 1, h)
  BY ONLY <1>1, <1>2, Recursion
<1>4. /\ f \in [0 .. LEN_BYTES -> Nat] /\ f[0] = 1
      /\ \A i \in 1 .. LEN_BYTES : f[i] = h[i][f[i - 1]]
  BY <1>3 DEF Iterates
<1>5. ASSUME NEW i \in 1 .. LEN_BYTES PROVE f[i] = Radix * f[i - 1]
  <2>1. i - 1 \in 0 .. LEN_BYTES
    BY <1>1
  <2>2. PICK x \in Nat : x = f[i - 1]
    BY <1>4, <2>1
  <2> QED
    BY <1>2, <1>4, <2>2
<1>6. P(f)
  BY <1>1, <1>4, <1>5
<1>7. Place = CHOOSE g : P(g)
  BY DEF Place
<1>8. P(Place)
  BY <1>6, <1>7
<1>9. Place[0] = 1 /\ \A i \in 1 .. LEN_BYTES : Place[i] = Radix * Place[i - 1]
  <2> HIDE DEF P
  <2>1. 0 \in 0 .. LEN_BYTES /\ \A i \in 1 .. LEN_BYTES : i \in 0 .. LEN_BYTES /\ i # 0
    BY <1>1
  <2> QED
    BY <1>8, <2>1 DEF P
<1> DEFINE T == {i \in 0 .. LEN_BYTES : Place[i] \in Nat \ {0}}
<1>10. 0 \in T
  BY <1>1, <1>9
<1>11. ASSUME NEW i \in 1 .. LEN_BYTES, i - 1 \in T PROVE i \in T
  <2>1. PICK p \in Nat \ {0} : p = Place[i - 1]
    BY <1>11
  <2>2. Radix * p \in Nat \ {0}
    BY <1>1
  <2> QED
    BY <1>1, <1>9, <2>1, <2>2
<1> HIDE DEF T
<1>12. \A i \in 0 .. LEN_BYTES : i \in T
  BY <1>1, <1>10, <1>11, Induction
<1> QED
  BY <1>9, <1>12 DEF T

\* wire_pack64 adds up the bytes, each counted by its place.
LEMMA Packed ==
    ASSUME NEW b, \A i \in 0 .. LEN_BYTES - 1 : b[i] \in Nat
    PROVE  \E s : /\ s[0] = 0 /\ wire_pack64(b) = s[LEN_BYTES]
                  /\ \A i \in 1 .. LEN_BYTES : s[i] = s[i - 1] + b[i - 1] * Place[i - 1]
<1> DEFINE P(f) == f = [i \in 0 .. LEN_BYTES |-> IF i = 0 THEN 0 ELSE f[i - 1] + b[i - 1] * Place[i - 1]]
           h == [i \in 1 .. LEN_BYTES |-> [x \in Nat |-> x + b[i - 1] * Place[i - 1]]]
           s == CHOOSE g : P(g)
<1>1. LEN_BYTES \in Nat /\ 0 \in Nat
  BY PayloadAssumption
<1>2. \A i \in 1 .. LEN_BYTES : \A x \in Nat : h[i][x] = x + b[i - 1] * Place[i - 1] /\ h[i][x] \in Nat
  <2>1. \A i \in 1 .. LEN_BYTES : i - 1 \in 0 .. LEN_BYTES /\ i - 1 \in 0 .. LEN_BYTES - 1
    BY <1>1
  <2>2. \A i \in 1 .. LEN_BYTES : b[i - 1] * Place[i - 1] \in Nat
    BY <2>1, Places
  <2> QED
    BY <2>2
<1> HIDE DEF h
<1>3. PICK f : Iterates(f, LEN_BYTES, 0, h)
  BY ONLY <1>1, <1>2, Recursion
<1>4. /\ f \in [0 .. LEN_BYTES -> Nat] /\ f[0] = 0
      /\ \A i \in 1 .. LEN_BYTES : f[i] = h[i][f[i - 1]]
  BY <1>3 DEF Iterates
<1>5. ASSUME NEW i \in 1 .. LEN_BYTES PROVE f[i] = f[i - 1] + b[i - 1] * Place[i - 1]
  <2>1. i - 1 \in 0 .. LEN_BYTES
    BY <1>1
  <2>2. PICK x \in Nat : x = f[i - 1]
    BY <1>4, <2>1
  <2> QED
    BY <1>2, <1>4, <2>2
<1>6. P(f)
  BY <1>1, <1>4, <1>5
<1>7. P(s)
  BY <1>6
<1>8. wire_pack64(b) = s[LEN_BYTES]
  BY DEF wire_pack64
<1> HIDE DEF s
<1>9. s[0] = 0 /\ \A i \in 1 .. LEN_BYTES : s[i] = s[i - 1] + b[i - 1] * Place[i - 1]
  <2> HIDE DEF P
  <2>1. 0 \in 0 .. LEN_BYTES /\ \A i \in 1 .. LEN_BYTES : i \in 0 .. LEN_BYTES /\ i # 0
    BY <1>1
  <2> QED
    BY <1>7, <2>1 DEF P
<1> QED
  BY <1>8, <1>9

\* A number is divided in one way only.
LEMMA OneQuotient ==
    ASSUME NEW m \in Nat \ {0}, NEW a \in Nat, NEW b \in Nat, NEW c \in Nat, NEW d \in Nat,
           b < m, d < m, a * m + b = c * m + d
    PROVE  a = c
<1>1. a * m \in Nat /\ c * m \in Nat
  OBVIOUS
<1>2. CASE a >= c + 1
  <2>1. a * m >= (c + 1) * m /\ (c + 1) * m = c * m + m
    BY <1>2
  <2> QED
    BY <1>1, <2>1
<1>3. CASE c >= a + 1
  <2>1. c * m >= (a + 1) * m /\ (a + 1) * m = a * m + m
    BY <1>3
  <2> QED
    BY <1>1, <2>1
<1> QED
  BY <1>2, <1>3

\* What is left of x above a byte is the next byte, and what is left above that.
LEMMA NextByte ==
    ASSUME NEW x \in Nat, NEW p \in Nat \ {0}
    PROVE  /\ x \div p \in Nat /\ x \div (Radix * p) \in Nat /\ (x \div p) % Radix \in 0 .. Radix - 1
           /\ x \div p = ((x \div p) % Radix) + (x \div (Radix * p)) * Radix
<1> DEFINE a == x \div p
           b == x % p
           c == a \div Radix
           d == a % Radix
           r == Radix * p
           e == x \div r
           f == x % r
<1>1. Radix \in Nat \ {0} /\ r \in Nat \ {0}
  BY PayloadAssumption
<1>2. a \in Nat /\ b \in Nat /\ b < p /\ x = a * p + b
  OBVIOUS
<1> HIDE DEF r
<1>3. e \in Nat /\ f \in Nat /\ f < r /\ x = e * r + f
  BY <1>1
<1> HIDE DEF a, b
<1>4. c \in Nat /\ d \in Nat /\ d <= Radix - 1 /\ a = c * Radix + d
  BY <1>1, <1>2
<1> HIDE DEF c, d, e, f
<1>5. d * p + b \in Nat /\ d * p + b < r
  <2>1. d * p <= (Radix - 1) * p
    BY <1>1, <1>4
  <2>2. (Radix - 1) * p + p = r /\ d * p \in Nat /\ (Radix - 1) * p \in Nat
    BY <1>1, <1>4 DEF r
  <2> QED
    BY <1>2, <2>1, <2>2
<1>6. x = c * r + (d * p + b)
  <2>1. a * p = (c * Radix) * p + d * p
    BY <1>1, <1>4
  <2>2. (c * Radix) * p = c * r
    BY <1>1, <1>4 DEF r
  <2>3. c * r \in Nat /\ d * p \in Nat
    BY <1>1, <1>4
  <2> QED
    BY <1>2, <2>1, <2>2, <2>3
<1>7. e = c
  <2>1. PICK g \in Nat : g = d * p + b
    BY <1>5
  <2>2. e * r + f = c * r + g /\ g < r
    BY <1>3, <1>5, <1>6, <2>1
  <2> QED
    BY <1>1, <1>3, <1>4, <2>1, <2>2, OneQuotient
<1>8. x \div p = a /\ x \div (Radix * p) = e /\ a % Radix = d
  BY DEF a, e, d, r
<1> QED
  BY <1>1, <1>2, <1>3, <1>4, <1>7, <1>8

\* wire_pack64 undoes wire_unpack64 for what fits into the bytes.
LEMMA RoundTrip ==
    ASSUME NEW x \in 0 .. MaxPayload
    PROVE  /\ wire_pack64(wire_unpack64(x)) = x
           /\ wire_unpack64(x) \in [0 .. LEN_BYTES - 1 -> 0 .. Radix - 1]
<1> DEFINE b == wire_unpack64(x)
<1>1. LEN_BYTES \in Nat /\ x \in Nat /\ Radix \in Nat /\ Place[LEN_BYTES] \in Nat \ {0} /\ x < Place[LEN_BYTES]
  BY PayloadAssumption, WireAssumption, Places
<1>2. \A i \in 0 .. LEN_BYTES - 1 : i \in 0 .. LEN_BYTES /\ Place[i] \in Nat \ {0}
  BY <1>1, Places
<1>3. \A i \in 0 .. LEN_BYTES - 1 : b[i] = (x \div Place[i]) % Radix /\ b[i] \in 0 .. Radix - 1
  BY <1>1, <1>2, NextByte DEF wire_unpack64
<1>4. b \in [0 .. LEN_BYTES - 1 -> 0 .. Radix - 1]
  BY <1>3 DEF wire_unpack64
<1> HIDE DEF b
<1>5. PICK s : /\ s[0] = 0 /\ wire_pack64(b) = s[LEN_BYTES]
               /\ \A i \in 1 .. LEN_BYTES : s[i] = s[i - 1] + b[i - 1] * Place[i - 1]
  <2>1. \A i \in 0 .. LEN_BYTES - 1 : b[i] \in Nat
    BY <1>1, <1>3
  <2> QED
    BY <2>1, Packed
<1> DEFINE T == {i \in 0 .. LEN_BYTES : s[i] \in Nat /\ x = s[i] + (x \div Place[i]) * Place[i]}
<1>6. 0 \in T
  BY <1>1, <1>5, Places
<1>7. ASSUME NEW i \in 1 .. LEN_BYTES, i - 1 \in T PROVE i \in T
  <2>1. i - 1 \in 0 .. LEN_BYTES - 1
    BY <1>1
  <2>2. PICK p \in Nat \ {0} : p = Place[i - 1] /\ Place[i] = Radix * p
    BY <1>2, <2>1, Places
  <2>3. PICK t \in Nat : t = s[i - 1] /\ x = t + (x \div p) * p
    BY <1>7, <2>2
  <2> DEFINE a == x \div p
             d == (x \div p) % Radix
             e == x \div (Radix * p)
  <2>4. a \in Nat /\ e \in Nat /\ d \in Nat /\ a = d + e * Radix
    <3>1. a \in Nat /\ e \in Nat /\ d \in 0 .. Radix - 1 /\ a = d + e * Radix
      BY ONLY <1>1, NextByte
    <3> HIDE DEF a, d, e
    <3> QED
      BY <1>1, <3>1
  <2>5. s[i] = t + d * p
    BY <1>3, <1>5, <2>1, <2>2, <2>3
  <2>6. x = t + a * p
    BY <2>3
  <2>7. x \div Place[i] = e
    BY <2>2
  <2> HIDE DEF a, d, e
  <2>8. a * p = d * p + e * (Radix * p) /\ d * p \in Nat /\ e * (Radix * p) \in Nat
    BY <1>1, <2>4
  <2>9. x = (t + d * p) + e * (Radix * p) /\ t + d * p \in Nat
    BY <2>6, <2>8
  <2> QED
    BY <1>1, <2>2, <2>5, <2>7, <2>9
<1> HIDE DEF T
<1>8. LEN_BYTES \in T
  <2>1. \A i \in 0 .. LEN_BYTES : i \in T
    BY <1>1, <1>6, <1>7, Induction
  <2> QED
    BY <1>1, <2>1
<1>9. s[LEN_BYTES] \in Nat /\ x = s[LEN_BYTES] + (x \div Place[LEN_BYTES]) * Place[LEN_BYTES]
  BY <1>8 DEF T
<1>10. x \div Place[LEN_BYTES] = 0
  BY <1>1
<1>11. s[LEN_BYTES] = x
  BY <1>1, <1>9, <1>10
<1> QED
  BY <1>4, <1>5, <1>11 DEF b

-----------------------------------------------------------------------------
(***************************************************************************)
(* The lengths of a message.                                               *)
(***************************************************************************)
Lengths ==
    /\ kind \in Kinds /\ n = sizeof(kind) + data
    /\ field = wire_unpack64(n)
    /\ shown # "nothing" => pc = "accepted"

\* The structures have a size.
LEMMA Sizes == \A k \in Kinds : sizeof(k) \in Nat
  BY PayloadAssumption DEF Kinds, sizeof

\* No step changes the message, and the readers take only what is accepted.
LEMMA LengthsKept == PayloadInv /\ Lengths /\ [Next]_vars => Lengths'
<1> SUFFICES ASSUME PayloadInv, Lengths, [Next]_vars PROVE Lengths'
  OBVIOUS
<1>1. CASE WireNext /\ UNCHANGED pvars
  <2>1. n' = n /\ kind' = kind /\ data' = data /\ field' = field /\ shown' = shown
    BY <1>1 DEF WireNext, wire_verify_inner_mac, wire_decrypt_header, wire_verify_outer_mac, input, pvars
  <2>2. pc # "accepted"
    BY <1>1 DEF WireNext, wire_verify_inner_mac, wire_decrypt_header, wire_verify_outer_mac
  <2> QED
    BY <2>1, <2>2 DEF Lengths
<1>2. CASE proc_text \/ proc_stat \/ proc_file \/ proc_ctrl
  <2>1. pc = "accepted" /\ UNCHANGED <<wvars, kind, named, data, field>>
    BY <1>2 DEF proc_text, proc_stat, proc_file, proc_ctrl, Reads
  <2> QED
    BY <2>1 DEF Lengths, wvars
<1>3. CASE UNCHANGED vars
  BY <1>3 DEF vars, wvars, pvars, Lengths
<1> QED
  BY <1>1, <1>2, <1>3 DEF Next

\* Both parts of the invariant hold in every reachable state.
LEMMA LengthsInvariance == Spec => [](PayloadInv /\ Lengths)
<1>1. Init => Lengths
  BY DEF Init, Lengths
<1> QED
  BY <1>1, LengthsKept, PayloadInvariance, PTL DEF Spec

(***************************************************************************)
(* The bytes that wire_unpack64 writes (wire-util.c) are bytes, and the    *)
(* readers of proc-type.c touch only what decrypt_wire has accepted.       *)
(***************************************************************************)
THEOREM PayloadTypeTheorem == Spec => []TypeOK
<1>1. PayloadInv /\ Lengths => TypeOK
  <2> SUFFICES ASSUME PayloadInv, Lengths PROVE TypeOK
    OBVIOUS
  <2>1. n \in 0 .. MaxPayload
    BY WireAssumption DEF PayloadInv, WireInv, WireTypeOK
  <2>2. field \in [0 .. LEN_BYTES - 1 -> 0 .. Radix - 1]
    BY <2>1, RoundTrip DEF Lengths
  <2> QED
    BY <2>2 DEF PayloadInv, WireInv, Message, Lengths, TypeOK
<1> QED
  BY <1>1, LengthsInvariance, PTL

(***************************************************************************)
(* The two lengths of a message agree once its wire is accepted, for every *)
(* radix and number of bytes they are written in: wire_pack64 reads back   *)
(* what wire_unpack64 wrote, the payload is as long as the data its sender *)
(* put in, and the data ends within what was received.                     *)
(***************************************************************************)
THEOREM LengthsAgreeTheorem == Spec => []LengthsAgree
<1>1. PayloadInv /\ Lengths => LengthsAgree
  <2> SUFFICES ASSUME PayloadInv, Lengths, pc = "accepted" PROVE
               /\ wire_pack64(field) = data_length(wire_len, Alignment(n))
               /\ payload_length = data
               /\ WireSize + sizeof(kind) + payload_length <= len
    BY DEF LengthsAgree
  <2>1. n \in 0 .. MaxPayload /\ n \in Nat
    BY WireAssumption DEF PayloadInv, WireInv, WireTypeOK
  <2>2. wire_pack64(field) = n
    BY <2>1, RoundTrip DEF Lengths
  <2>3. wire_len = init_wire_len(n) /\ len = init_wire_len(n)
    BY DEF PayloadInv, WireInv, Verified, AcceptsExactlyAuthentic
  <2>4. /\ get_aligned_len(n) \in Nat /\ n <= get_aligned_len(n) /\ WireSize \in Nat
        /\ Alignment(n) = get_aligned_len(n) - n
    BY <2>1, Padding, WireAssumption DEF WireSize
  <2>5. n = sizeof(kind) + data /\ sizeof(kind) \in Nat /\ data \in Nat
    BY Sizes DEF PayloadInv, Message, Lengths
  <2>6. payload_length = data
    BY <2>2, <2>5 DEF payload_length
  <2>7. data_length(wire_len, Alignment(n)) = n
    BY <2>1, <2>3, <2>4 DEF data_length, init_wire_len
  <2>8. WireSize + sizeof(kind) + data <= len
    BY <2>1, <2>3, <2>4, <2>5 DEF init_wire_len
  <2> QED
    BY <2>2, <2>6, <2>7, <2>8
<1> QED
  BY <1>1, LengthsInvariance, PTL

=============================================================================
