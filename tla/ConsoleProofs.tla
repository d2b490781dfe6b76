-------------------------- MODULE ConsoleProofs --------------------------
(***************************************************************************)
(* What utf8.c and console.c do for the prompt: search_table is correct    *)
(* for every sorted table and every code point, and the line editor keeps  *)
(* its counts, its buffer and its distances sound for every line, prompt   *)
(* and console width.                                                      *)
(***************************************************************************)
EXTENDS LineEditor, SearchTable, SequenceTheorems, WellFoundedInduction, TLAPS

(***************************************************************************)
(* The entry read by a pass of the loop is within the table.               *)
(***************************************************************************)
LEMMA AvgInTable ==
    ASSUME SearchInv, pc = "loop", hi >= lo
    PROVE  /\ avg \in Idx /\ lo <= avg /\ avg <= hi
           /\ avg \in Nat /\ len \in Nat /\ lo \in Nat /\ hi \in Nat
           /\ hi < len
           /\ table[avg].start \in Nat /\ table[avg].end \in Nat /\ c \in Nat
<1>1. len \in Nat /\ lo \in Nat /\ hi \in Nat /\ hi < len
  BY SizeAssumption DEF SearchInv, SearchTypeOK, InBounds
<1>2. avg \in Nat /\ lo <= avg /\ avg <= hi
  BY <1>1 DEF avg
<1>3. avg \in Idx
  BY <1>1, <1>2 DEF Idx
<1>4. table[avg] \in CpRange /\ c \in Cp
  BY <1>3 DEF SearchInv, SearchTypeOK
<1>5. QED
  BY <1>1, <1>2, <1>3, <1>4, SizeAssumption DEF CpRange, Cp

(***************************************************************************)
(* What a step leaves alone, and the facts a sorted table gives.           *)
(***************************************************************************)
LEMMA TableFacts ==
    ASSUME SearchInv
    PROVE  /\ len \in Nat /\ len >= 1 /\ 0 \in Idx /\ len - 1 \in Idx /\ c \in Nat
           /\ \A i \in Idx : i \in Nat /\ table[i].start \in Nat /\ table[i].end \in Nat
           /\ \A i \in Idx : table[i].start <= table[i].end
           /\ \A i, j \in Idx : i < j => table[i].end < table[j].start
<1>1. len \in Nat /\ len >= 1 /\ 0 \in Idx /\ len - 1 \in Idx /\ c \in Nat
  BY SizeAssumption DEF SearchInv, SearchTypeOK, Idx, Cp
<1>2. ASSUME NEW i \in Idx
      PROVE  i \in Nat /\ table[i].start \in Nat /\ table[i].end \in Nat
  <2>1. table[i] \in CpRange
    BY DEF SearchInv, SearchTypeOK
  <2>2. QED
    BY <2>1, SizeAssumption DEF CpRange, Cp, Idx
<1>3. Sorted(table, len)
  BY DEF SearchInv, LoopInv
<1>4. QED
  BY <1>1, <1>2, <1>3 DEF Sorted, Idx

(***************************************************************************)
(* The range test establishes the loop's invariant, or answers at once.    *)
(***************************************************************************)
LEMMA CheckStep ==
    ASSUME SearchInv, check
    PROVE  SearchInv'
<1>1. pc = "check" /\ table' = table /\ len' = len /\ c' = c
  BY DEF check
<1>2. /\ len \in Nat /\ len >= 1 /\ 0 \in Idx /\ len - 1 \in Idx /\ c \in Nat
      /\ \A i \in Idx : i \in Nat /\ table[i].start \in Nat /\ table[i].end \in Nat
      /\ \A i \in Idx : table[i].start <= table[i].end
      /\ \A i, j \in Idx : i < j => table[i].end < table[j].start
  BY TableFacts
<1>3. Idx' = Idx /\ \A i \in Idx : In(i)' <=> In(i)
  BY <1>1 DEF Idx, In
<1>4. Sorted(table, len)'
  BY <1>1 DEF SearchInv, LoopInv, Sorted
<1>5. CASE Outside
  <2>1. pc' = "absent" /\ hi' = hi /\ lo' = lo
    BY <1>5 DEF check
  <2>2. ASSUME NEW i \in Idx PROVE ~In(i)
    <3>1. table[0].start <= table[i].start
      <4>1. CASE i = 0
        BY <1>2, <4>1
      <4>2. CASE i # 0
        <5>1. 0 < i
          BY <1>2, <4>2
        <5>2. table[0].end < table[i].start /\ table[0].start <= table[0].end
          BY <1>2, <5>1
        <5>3. QED
          BY <1>2, <5>2
      <4>3. QED
        BY <4>1, <4>2
    <3>2. table[i].end <= table[len - 1].end
      <4>1. CASE i = len - 1
        BY <1>2, <4>1
      <4>2. CASE i # len - 1
        <5>1. i < len - 1
          BY <1>2, <4>2 DEF Idx
        <5>2. table[i].end < table[len - 1].start
              /\ table[len - 1].start <= table[len - 1].end
          BY <1>2, <5>1
        <5>3. QED
          BY <1>2, <5>2
      <4>3. QED
        BY <4>1, <4>2
    <3>3. QED
      BY <1>2, <1>5, <3>1, <3>2 DEF Outside, In
  <2>3. QED
    BY <1>1, <1>3, <1>4, <2>1, <2>2 DEF SearchInv, SearchTypeOK, Correct, InBounds, LoopInv
<1>6. CASE ~Outside
  <2>1. pc' = "loop" /\ hi' = len - 1 /\ lo' = 0
    BY <1>6 DEF check
  <2>2. table[0].start <= c
    BY <1>2, <1>6 DEF Outside
  <2>3. \A i \in Idx : 0 <= i /\ i <= len - 1
    BY <1>2 DEF Idx
  <2>4. SearchTypeOK'
    <3>1. hi' \in 0 .. SIZE_MAX /\ lo' \in 0 .. MaxLen
      BY <2>1, SizeAssumption DEF SearchInv, SearchTypeOK
    <3>2. QED
      BY <1>1, <1>3, <2>1, <3>1 DEF SearchInv, SearchTypeOK
  <2>5. Correct' /\ InBounds'
    BY <1>1, <1>2, <2>1 DEF Correct, InBounds
  <2>6. LoopInv'
    BY <1>1, <1>3, <1>4, <2>1, <2>2, <2>3 DEF LoopInv
  <2>7. QED
    BY <2>4, <2>5, <2>6 DEF SearchInv
<1>7. QED
  BY <1>5, <1>6

(***************************************************************************)
(* A pass of the loop keeps the invariant: the half that is given up does  *)
(* not hold c, and the lower half is given up only if there is one.        *)
(***************************************************************************)
LEMMA LoopStep ==
    ASSUME SearchInv, loop
    PROVE  SearchInv'
<1>1. pc = "loop" /\ table' = table /\ len' = len /\ c' = c
  BY DEF loop
<1>2. /\ len \in Nat /\ len >= 1 /\ 0 \in Idx /\ len - 1 \in Idx /\ c \in Nat
      /\ \A i \in Idx : i \in Nat /\ table[i].start \in Nat /\ table[i].end \in Nat
      /\ \A i \in Idx : table[i].start <= table[i].end
      /\ \A i, j \in Idx : i < j => table[i].end < table[j].start
  BY TableFacts
<1>3. Idx' = Idx /\ \A i \in Idx : In(i)' <=> In(i)
  BY <1>1 DEF Idx, In
<1>4. Sorted(table, len)'
  BY <1>1 DEF SearchInv, LoopInv, Sorted
<1>5. /\ table[0].start <= c
      /\ \A i \in Idx : In(i) => lo <= i /\ i <= hi
      /\ hi \in Nat /\ lo \in Nat /\ hi < len /\ lo <= len
  BY <1>1 DEF SearchInv, LoopInv, SearchTypeOK, InBounds
<1>6. CASE hi < lo /\ pc' = "absent" /\ UNCHANGED <<hi, lo>>
  <2>1. \A i \in Idx : ~In(i)
    BY <1>2, <1>5, <1>6
  <2>2. QED
    BY <1>1, <1>3, <1>4, <1>6, <2>1 DEF SearchInv, SearchTypeOK, Correct, InBounds, LoopInv
<1>7. CASE /\ hi >= lo /\ c > table[avg].end
           /\ lo' = Lower /\ UNCHANGED <<hi, pc>>
  <2>1. avg \in Idx /\ avg \in Nat /\ avg <= hi /\ table[avg].end \in Nat
    BY <1>1, <1>7, AvgInTable
  <2>2. lo' = avg + 1 /\ lo' \in Nat /\ lo' <= len /\ hi' = hi /\ pc' = "loop"
    BY <1>1, <1>5, <1>2, <1>7, <2>1 DEF Lower
  <2>3. ASSUME NEW i \in Idx, In(i) PROVE avg + 1 <= i
    <3>1. ~(i < avg)
      <4>1. ASSUME i < avg PROVE FALSE
        <5>1. table[i].end < table[avg].start /\ table[avg].start <= table[avg].end
              /\ c <= table[i].end
          BY <1>2, <2>1, <2>3, <4>1 DEF In
        <5>2. /\ c \in Nat /\ table[i].end \in Nat /\ table[avg].start \in Nat
              /\ table[avg].end \in Nat /\ c > table[avg].end
          BY <1>2, <1>7, <2>1
        <5>3. QED
          BY ONLY <5>1, <5>2
      <4>2. QED
        BY <4>1
    <3>2. i # avg
      BY <1>2, <1>7, <2>1, <2>3 DEF In
    <3>3. QED
      BY <1>2, <2>1, <3>1, <3>2
  <2>4. lo' \in 0 .. MaxLen
    BY <2>2, SizeAssumption DEF SearchInv, SearchTypeOK
  <2>5. QED
    BY <1>1, <1>3, <1>4, <1>5, <2>2, <2>3, <2>4
       DEF SearchInv, SearchTypeOK, Correct, InBounds, LoopInv
<1>8. CASE /\ hi >= lo /\ c <= table[avg].end /\ c < table[avg].start
           /\ hi' = Upper /\ UNCHANGED <<lo, pc>>
  <2>1. /\ avg \in Idx /\ avg \in Nat /\ avg <= hi
        /\ table[avg].start \in Nat /\ table[avg].end \in Nat
    BY <1>1, <1>8, AvgInTable
  <2>2. avg # 0
    BY <1>2, <1>5, <1>8, <2>1
  <2>3. hi' = avg - 1 /\ hi' \in Nat /\ hi' < len /\ lo' = lo /\ pc' = "loop"
    BY <1>1, <1>2, <1>5, <1>8, <2>1, <2>2 DEF Upper, Pred
  <2>4. ASSUME NEW i \in Idx, In(i) PROVE i <= avg - 1
    <3>1. ~(avg < i)
      <4>1. ASSUME avg < i PROVE FALSE
        <5>1. table[avg].end < table[i].start /\ table[avg].start <= table[avg].end
              /\ table[i].start <= c
          BY <1>2, <2>1, <2>4, <4>1 DEF In
        <5>2. table[i].start \in Nat /\ c \in Nat /\ c < table[avg].start
          BY <1>2, <1>8
        <5>3. QED
          BY <2>1, <5>1, <5>2
      <4>2. QED
        BY <4>1
    <3>2. i # avg
      BY <1>2, <1>8, <2>1, <2>4 DEF In
    <3>3. QED
      BY <1>2, <2>1, <3>1, <3>2
  <2>5. hi' \in 0 .. SIZE_MAX
    BY <2>3, SizeAssumption DEF SearchInv, SearchTypeOK
  <2>6. QED
    BY <1>1, <1>3, <1>4, <1>5, <2>3, <2>4, <2>5
       DEF SearchInv, SearchTypeOK, Correct, InBounds, LoopInv
<1>9. CASE /\ hi >= lo /\ c <= table[avg].end /\ c >= table[avg].start
           /\ pc' = "found" /\ UNCHANGED <<hi, lo>>
  <2>1. avg \in Idx /\ table[avg].start \in Nat
    BY <1>1, <1>9, AvgInTable
  <2>2. In(avg)
    BY <1>2, <1>9, <2>1 DEF In
  <2>3. QED
    BY <1>1, <1>3, <1>4, <1>9, <2>1, <2>2
       DEF SearchInv, SearchTypeOK, Correct, InBounds, LoopInv
<1>10. QED
  BY <1>6, <1>7, <1>8, <1>9 DEF loop

(***************************************************************************)
(* The three facts that make SearchInv an invariant.                       *)
(***************************************************************************)
LEMMA SearchInductive == (SearchInit => SearchInv) /\ (SearchInv /\ [SearchNext]_searchvars => SearchInv')
<1>1. SearchInit => SearchInv
  BY SizeAssumption
     DEF SearchInit, SearchInv, SearchTypeOK, Correct, InBounds, LoopInv
<1>2. ASSUME SearchInv, UNCHANGED searchvars PROVE SearchInv'
  <2>1. Idx' = Idx /\ (\A i \in Idx : In(i)' <=> In(i)) /\ Sorted(table, len)'
    BY <1>2 DEF searchvars, Idx, In, SearchInv, LoopInv, Sorted
  <2>2. QED
    BY <1>2, <2>1 DEF searchvars, SearchInv, SearchTypeOK, Correct, InBounds, LoopInv
<1>3. QED
  BY <1>1, <1>2, CheckStep, LoopStep DEF SearchNext

(***************************************************************************)
(* search_table answers like a linear search, for every sorted table.      *)
(***************************************************************************)
THEOREM SearchCorrect == SearchSpec => []Correct
<1>1. SearchInv => Correct
  BY DEF SearchInv
<1>2. QED
  BY <1>1, SearchInductive, PTL DEF SearchSpec

(***************************************************************************)
(* The unsigned bounds never wrap around and the table is never left.      *)
(***************************************************************************)
THEOREM SearchInBounds == SearchSpec => []InBounds
<1>1. SearchInv => InBounds
  BY DEF SearchInv
<1>2. QED
  BY <1>1, SearchInductive, PTL DEF SearchSpec

-----------------------------------------------------------------------------
(***************************************************************************)
(* Recursive functions on 0 .. N: induction, in a form without operator    *)
(* parameters, and that such a function exists.                            *)
(***************************************************************************)

\* A set of numbers that is not empty has a least one.
LEMMA Least ==
    ASSUME NEW F, F \subseteq Nat, F # {}
    PROVE  \E m \in F : \A y \in F : m <= y
<1> DEFINE R == OpToRel(<, Nat)
<1>1. IsWellFoundedOn(R, Nat)
  BY NatLessThanWellFounded, Zenon
<1>2. \A k, m \in Nat : k < m => <<k, m>> \in R
  BY DEF OpToRel
<1> HIDE DEF R
<1>3. PICK m \in F : \A y \in F : ~(<<y, m>> \in R)
  BY <1>1, WFMin
<1>4. ASSUME NEW y \in F PROVE m <= y
  <2>1. m \in Nat /\ y \in Nat /\ ~(<<y, m>> \in R)
    BY <1>3
  <2>2. ~(y < m)
    BY <1>2, <2>1
  <2> QED
    BY <2>1, <2>2
<1> QED
  BY <1>4

\* What holds of 0 and goes on from each number to the next holds up to N.
LEMMA Induction ==
    ASSUME NEW N \in Nat, NEW T, 0 \in T, \A i \in 1 .. N : i - 1 \in T => i \in T
    PROVE  \A i \in 0 .. N : i \in T
<1> DEFINE F == {i \in 0 .. N : i \notin T}
<1>1. SUFFICES ASSUME F # {} PROVE FALSE
  OBVIOUS
<1>2. F \subseteq Nat
  OBVIOUS
<1>3. PICK m \in F : \A y \in F : m <= y
  <2> HIDE DEF F
  <2> QED
    BY <1>1, <1>2, Least
<1>4. m \in 1 .. N /\ m - 1 \in 0 .. N /\ ~(m <= m - 1)
  OBVIOUS
<1>5. m - 1 \in T
  BY <1>3, <1>4
<1> QED
  BY <1>3, <1>4, <1>5

\* f begins with b and goes on by the steps h
Iterates(f, N, b, h) ==
    f \in [0 .. N -> Nat] /\ f[0] = b /\ \A i \in 1 .. N : f[i] = h[i][f[i - 1]]

\* There is such a function.
LEMMA Recursion ==
    ASSUME NEW N \in Nat, NEW b \in Nat, NEW h, \A i \in 1 .. N : \A x \in Nat : h[i][x] \in Nat
    PROVE  \E f : Iterates(f, N, b, h)
<1> DEFINE T == {k \in 0 .. N : \E f : Iterates(f, k, b, h)}
<1>1. 0 \in T
  <2> DEFINE f == [i \in 0 .. 0 |-> b]
  <2>1. f \in [0 .. 0 -> Nat] /\ f[0] = b
    OBVIOUS
  <2>2. \A i \in 1 .. 0 : f[i] = h[i][f[i - 1]]
    OBVIOUS
  <2> HIDE DEF f
  <2>3. Iterates(f, 0, b, h)
    BY <2>1, <2>2 DEF Iterates
  <2> QED
    BY <2>3
<1>2. ASSUME NEW m \in 1 .. N, m - 1 \in T PROVE m \in T
  <2>1. PICK g : Iterates(g, m - 1, b, h)
    BY <1>2
  <2>2. /\ g \in [0 .. m - 1 -> Nat] /\ g[0] = b
        /\ \A i \in 1 .. m - 1 : g[i] = h[i][g[i - 1]]
    BY <2>1 DEF Iterates
  <2> DEFINE f == [i \in 0 .. m |-> IF i = m THEN h[m][g[m - 1]] ELSE g[i]]
  <2>3. f \in [0 .. m -> Nat] /\ f[0] = b
    BY <2>2
  <2>4. ASSUME NEW i \in 1 .. m PROVE f[i] = h[i][f[i - 1]]
    <3>1. f[i - 1] = g[i - 1]
      OBVIOUS
    <3>2. i # m => f[i] = g[i] /\ i \in 1 .. m - 1
      OBVIOUS
    <3>3. i = m => f[i] = h[m][g[m - 1]]
      OBVIOUS
    <3> HIDE DEF f
    <3> QED
      BY <2>2, <3>1, <3>2, <3>3
  <2> HIDE DEF f
  <2>5. Iterates(f, m, b, h)
    BY <2>3, <2>4 DEF Iterates
  <2> QED
    BY <2>5
<1> HIDE DEF T
<1>3. \A i \in 0 .. N : i \in T
  BY <1>1, <1>2, Induction
<1> QED
  BY <1>3 DEF T

-----------------------------------------------------------------------------
(***************************************************************************)
(* Bytes and cells of a line: Total counts up from the first character.    *)
(***************************************************************************)

\* f has what Total has counted behind each character of s.
Sums(f, s, w) ==
    f \in [0 .. Len(s) -> Nat] /\ f[0] = 0 /\ \A i \in 1 .. Len(s) : f[i] = f[i - 1] + w[s[i]]

\* There is such a count.
LEMMA Summed ==
    ASSUME NEW C, NEW w, \A x \in C : w[x] \in Nat, NEW s \in Seq(C)
    PROVE  \E f : Sums(f, s, w)
<1> DEFINE N == Len(s)
           h == [i \in 1 .. N |-> [x \in Nat |-> x + w[s[i]]]]
<1>1. N \in Nat /\ \A i \in 1 .. N : w[s[i]] \in Nat
  OBVIOUS
<1>2. \A i \in 1 .. N : \A x \in Nat : h[i][x] = x + w[s[i]] /\ h[i][x] \in Nat
  BY <1>1
<1> HIDE DEF h, N
<1>3. PICK f : Iterates(f, N, 0, h)
  BY ONLY <1>1, <1>2, Recursion
<1>4. /\ f \in [0 .. N -> Nat] /\ f[0] = 0
      /\ \A i \in 1 .. N : f[i] = h[i][f[i - 1]]
  BY <1>3 DEF Iterates
<1>5. ASSUME NEW i \in 1 .. N PROVE f[i] = f[i - 1] + w[s[i]]
  <2>1. i - 1 \in 0 .. N
    BY <1>1
  <2>2. PICK x \in Nat : x = f[i - 1]
    BY <1>4, <2>1
  <2> QED
    BY <1>2, <1>4, <2>2
<1> QED
  BY <1>4, <1>5 DEF Sums, N

\* It is the only one, and Total is its last number.
LEMMA TotalIs ==
    ASSUME NEW C, NEW w, \A x \in C : w[x] \in Nat, NEW s \in Seq(C), NEW f, Sums(f, s, w)
    PROVE  Total(s, w) = f[Len(s)]
<1> DEFINE N == Len(s)
           P(g) == g = [k \in 0 .. N |-> IF k = 0 THEN 0 ELSE g[k - 1] + w[s[k]]]
           t == CHOOSE g : P(g)
<1>1. /\ N \in Nat /\ f \in [0 .. N -> Nat] /\ f[0] = 0
      /\ \A i \in 1 .. N : f[i] = f[i - 1] + w[s[i]]
  BY DEF Sums
<1>2. P(f)
  BY <1>1
<1>3. P(t)
  BY <1>2
<1>4. Total(s, w) = t[N]
  BY DEF Total
<1> HIDE DEF t, N
<1>5. t[0] = 0 /\ \A i \in 1 .. N : t[i] = t[i - 1] + w[s[i]]
  <2> HIDE DEF P
  <2>1. 0 \in 0 .. N /\ \A i \in 1 .. N : i \in 0 .. N /\ i # 0
    BY <1>1
  <2> QED
    BY <1>3, <2>1 DEF P
<1> DEFINE T == {i \in 0 .. N : t[i] = f[i]}
<1>6. 0 \in T
  BY <1>1, <1>5
<1>7. ASSUME NEW i \in 1 .. N, i - 1 \in T PROVE i \in T
  BY <1>1, <1>5, <1>7
<1> HIDE DEF T
<1>8. \A i \in 0 .. N : i \in T
  BY <1>1, <1>6, <1>7, Induction
<1>9. N \in T
  BY <1>1, <1>8
<1> QED
  BY <1>4, <1>9 DEF T, N

\* The characters from one place of s to another.
LEMMA Part ==
    ASSUME NEW C, NEW s \in Seq(C), NEW a \in 0 .. Len(s), NEW b \in a .. Len(s)
    PROVE  /\ SubSeq(s, a + 1, b) \in Seq(C) /\ Len(SubSeq(s, a + 1, b)) = b - a
           /\ \A i \in 1 .. b - a : SubSeq(s, a + 1, b)[i] = s[a + i]
<1>1. a \in Nat /\ b \in Nat /\ a <= b /\ Len(s) \in Nat /\ b <= Len(s) /\ a + 1 \in Int
  OBVIOUS
<1>2. \A i \in a + 1 .. b : s[i] \in C
  BY <1>1
<1>3. /\ SubSeq(s, a + 1, b) \in Seq(C)
      /\ Len(SubSeq(s, a + 1, b)) = (IF a + 1 <= b THEN b - (a + 1) + 1 ELSE 0)
      /\ \A i \in 1 .. b - (a + 1) + 1 : SubSeq(s, a + 1, b)[i] = s[a + 1 + i - 1]
  BY <1>1, <1>2, SubSeqProperties
<1>4. b - (a + 1) + 1 = b - a /\ (~(a + 1 <= b) => b - a = 0)
  BY <1>1
<1>5. \A i \in 1 .. b - a : a + 1 + i - 1 = a + i
  BY <1>1
<1> QED
  BY <1>3, <1>4, <1>5

\* What is between two places of s counts as much as the second place is
\* behind the first.
LEMMA TotalBetween ==
    ASSUME NEW C, NEW w, \A x \in C : w[x] \in Nat, NEW s \in Seq(C), NEW f, Sums(f, s, w),
           NEW a \in 0 .. Len(s), NEW b \in a .. Len(s)
    PROVE  Total(SubSeq(s, a + 1, b), w) = f[b] - f[a] /\ f[b] >= f[a] /\ f[a] \in Nat /\ f[b] \in Nat
<1> DEFINE N == Len(s)
           u == SubSeq(s, a + 1, b)
           g == [i \in 0 .. b - a |-> f[a + i] - f[a]]
           T == {i \in 0 .. b - a : g[i] \in Nat}
<1>1. /\ N \in Nat /\ f \in [0 .. N -> Nat]
      /\ \A i \in 1 .. N : f[i] = f[i - 1] + w[s[i]] /\ w[s[i]] \in Nat
  BY DEF Sums
<1>2. a \in Nat /\ b \in Nat /\ b - a \in Nat /\ b <= N /\ a <= b
  BY <1>1
<1>3. u \in Seq(C) /\ Len(u) = b - a /\ \A i \in 1 .. b - a : u[i] = s[a + i]
  BY Part
<1>4. /\ \A i \in 0 .. b - a : g[i] = f[a + i] - f[a] /\ a + i \in 0 .. N
      /\ \A i \in 1 .. b - a : a + i \in 1 .. N /\ (a + i) - 1 = a + (i - 1) /\ i - 1 \in 0 .. b - a
  BY <1>1, <1>2
<1>5. ASSUME NEW i \in 1 .. b - a PROVE g[i] = g[i - 1] + w[u[i]]
  <2>1. f[a + i] = f[a + (i - 1)] + w[s[a + i]] /\ w[s[a + i]] \in Nat
    BY <1>1, <1>4
  <2>2. i \in 0 .. b - a /\ i - 1 \in 0 .. b - a /\ a \in 0 .. N
    BY <1>1, <1>2
  <2> HIDE DEF g, u
  <2>3. /\ f[a + i] \in Nat /\ f[a + (i - 1)] \in Nat /\ f[a] \in Nat
        /\ g[i] = f[a + i] - f[a] /\ g[i - 1] = f[a + (i - 1)] - f[a] /\ u[i] = s[a + i]
    BY <1>1, <1>3, <1>4, <2>2
  <2>4. w[u[i]] = w[s[a + i]]
    BY <2>3
  <2>5. PICK d \in Nat, e \in Nat, o \in Nat, x \in Nat :
           d = f[a + i] /\ e = f[a + (i - 1)] /\ o = f[a] /\ x = w[s[a + i]]
    BY <2>1, <2>3
  <2>6. d = e + x
    BY <2>1, <2>5
  <2>7. d - o = (e - o) + x
    BY ONLY <2>6, d \in Nat, e \in Nat, o \in Nat, x \in Nat
  <2> QED
    BY <2>3, <2>4, <2>5, <2>7
<1>6. DOMAIN g = 0 .. b - a /\ g = [i \in 0 .. b - a |-> g[i]]
  OBVIOUS
<1>7. g[0] = 0 /\ 0 \in T
  <2>1. 0 \in 0 .. b - a /\ a + 0 = a /\ a \in 0 .. N
    BY <1>1, <1>2
  <2>2. f[a] \in Nat
    BY <1>1, <2>1
  <2> HIDE DEF g
  <2> QED
    BY <1>4, <2>1, <2>2
<1> HIDE DEF g, u
<1>8. ASSUME NEW i \in 1 .. b - a, i - 1 \in T PROVE i \in T
  <2>1. w[u[i]] \in Nat
    BY <1>1, <1>3, <1>4
  <2> QED
    BY <1>5, <1>8, <2>1
<1> HIDE DEF T
<1>9. \A i \in 0 .. b - a : i \in T
  BY <1>2, <1>7, <1>8, Induction
<1>10. Sums(g, u, w)
  <2>1. g \in [0 .. b - a -> Nat]
    BY <1>6, <1>9 DEF T
  <2> QED
    BY <1>3, <1>5, <1>7, <2>1 DEF Sums
<1>11. Total(u, w) = g[b - a]
  BY <1>3, <1>10, TotalIs
<1>12. g[b - a] = f[b] - f[a] /\ g[b - a] \in Nat /\ f[a] \in Nat /\ f[b] \in Nat
  <2>1. b - a \in 0 .. b - a /\ a + (b - a) = b /\ a \in 0 .. N /\ b \in 0 .. N
    BY <1>2
  <2>2. f[a] \in Nat /\ f[b] \in Nat
    BY <1>1, <2>1
  <2> QED
    BY <1>4, <1>9, <2>1, <2>2 DEF T
<1> QED
  BY <1>11, <1>12 DEF u

\* In particular the first k characters count f[k].
LEMMA TotalFirst ==
    ASSUME NEW C, NEW w, \A x \in C : w[x] \in Nat, NEW s \in Seq(C), NEW f, Sums(f, s, w)
    PROVE  \A k \in 0 .. Len(s) : Total(SubSeq(s, 1, k), w) = f[k] /\ f[k] \in Nat
<1> SUFFICES ASSUME NEW k \in 0 .. Len(s) PROVE Total(SubSeq(s, 1, k), w) = f[k] /\ f[k] \in Nat
  OBVIOUS
<1>1. 0 \in 0 .. Len(s) /\ k \in 0 .. Len(s) /\ 0 + 1 = 1
  OBVIOUS
<1>2. Total(SubSeq(s, 0 + 1, k), w) = f[k] - f[0] /\ f[k] \in Nat
  BY ONLY <1>1, TotalBetween, Sums(f, s, w), \A x \in C : w[x] \in Nat, s \in Seq(C)
<1>3. f[0] = 0
  BY DEF Sums
<1> QED
  BY <1>1, <1>2, <1>3

\* A later place of s counts more, if every character counts.
LEMMA Increasing ==
    ASSUME NEW C, NEW w, \A x \in C : w[x] \in Nat, NEW s \in Seq(C), NEW f, Sums(f, s, w),
           \A x \in C : w[x] > 0,
           NEW a \in 0 .. Len(s), NEW b \in a .. Len(s), a # b
    PROVE  f[a] < f[b]
<1>1. b - 1 \in a .. Len(s) /\ b \in 1 .. Len(s) /\ b - 1 \in 0 .. Len(s)
  OBVIOUS
<1>2. f[b - 1] >= f[a] /\ f[a] \in Nat /\ f[b - 1] \in Nat
  BY <1>1, TotalBetween
<1>3. f[b] = f[b - 1] + w[s[b]]
  BY <1>1 DEF Sums
<1>4. w[s[b]] \in Nat /\ w[s[b]] > 0
  BY <1>1
<1> QED
  BY ONLY <1>2, <1>3, <1>4

\* s with x behind its k-th character, and s without its k-th character
With(s, k, x) == SubSeq(s, 1, k) \o <<x>> \o SubSeq(s, k + 1, Len(s))
Less(s, k) == SubSeq(s, 1, k - 1) \o SubSeq(s, k + 1, Len(s))

\* s counts a up to its k-th character, and b in all.
Counts(s, w, k, a, b) == \E g : Sums(g, s, w) /\ g[k] = a /\ g[Len(s)] = b

\* A character put in behind the k-th counts from there on.
LEMMA Inserted ==
    ASSUME NEW C, NEW w, \A x \in C : w[x] \in Nat, NEW s \in Seq(C), NEW f, Sums(f, s, w),
           NEW k \in 0 .. Len(s), NEW x \in C
    PROVE  /\ With(s, k, x) \in Seq(C) /\ Len(With(s, k, x)) = Len(s) + 1
           /\ Counts(With(s, k, x), w, k + 1, f[k] + w[x], f[Len(s)] + w[x])
<1> DEFINE N == Len(s)
           t == With(s, k, x)
           p == SubSeq(s, 1, k)
           q == p \o <<x>>
           r == SubSeq(s, k + 1, N)
           g == [i \in 0 .. N + 1 |-> IF i <= k THEN f[i] ELSE f[i - 1] + w[x]]
<1>1. N \in Nat /\ k \in Nat /\ k <= N /\ 0 \in 0 .. N /\ 0 + 1 = 1 /\ k \in 0 .. N /\ N \in k .. N
  OBVIOUS
<1>2. p \in Seq(C) /\ Len(p) = k /\ \A i \in 1 .. k : p[i] = s[i]
  <2>1. /\ SubSeq(s, 0 + 1, k) \in Seq(C) /\ Len(SubSeq(s, 0 + 1, k)) = k - 0
        /\ \A i \in 1 .. k - 0 : SubSeq(s, 0 + 1, k)[i] = s[0 + i]
    BY <1>1, Part
  <2> QED
    BY <1>1, <2>1
<1>3. r \in Seq(C) /\ Len(r) = N - k /\ \A i \in 1 .. N - k : r[i] = s[k + i]
  BY <1>1, Part
<1> HIDE DEF p, r
<1>4. <<x>> \in Seq(C) /\ Len(<<x>>) = 1 /\ <<x>>[1] = x
  OBVIOUS
<1>5. q \in Seq(C) /\ Len(q) = k + 1 /\ q[k + 1] = x /\ \A i \in 1 .. k : q[i] = s[i]
  <2>1. /\ q \in Seq(C) /\ Len(q) = Len(p) + Len(<<x>>)
        /\ \A i \in 1 .. Len(p) + Len(<<x>>) :
              q[i] = IF i <= Len(p) THEN p[i] ELSE <<x>>[i - Len(p)]
    BY <1>2, <1>4, ConcatProperties
  <2> HIDE DEF q
  <2>2. /\ q \in Seq(C) /\ Len(q) = k + 1
        /\ \A i \in 1 .. k + 1 : q[i] = IF i <= k THEN p[i] ELSE <<x>>[i - k]
    BY <1>2, <1>4, <2>1
  <2>3. k + 1 \in 1 .. k + 1 /\ ~(k + 1 <= k) /\ (k + 1) - k = 1
    BY <1>1
  <2>4. \A i \in 1 .. k : i \in 1 .. k + 1 /\ i <= k
    BY <1>1
  <2> QED
    BY <1>2, <1>4, <2>2, <2>3, <2>4
<1>6. t = q \o r
  BY DEF p, r, With
<1> HIDE DEF q, t
<1>7. /\ t \in Seq(C) /\ Len(t) = N + 1
      /\ \A i \in 1 .. N + 1 : t[i] = IF i <= k + 1 THEN q[i] ELSE r[i - (k + 1)]
  <2>1. /\ (q \o r) \in Seq(C) /\ Len(q \o r) = Len(q) + Len(r)
        /\ \A i \in 1 .. Len(q) + Len(r) :
              (q \o r)[i] = IF i <= Len(q) THEN q[i] ELSE r[i - Len(q)]
    BY <1>3, <1>5, ConcatProperties
  <2>2. Len(q) + Len(r) = N + 1
    BY <1>1, <1>3, <1>5
  <2> QED
    BY <1>5, <1>6, <2>1, <2>2
<1>8. /\ \A i \in 1 .. k : t[i] = s[i]
      /\ t[k + 1] = x
      /\ \A i \in k + 2 .. N + 1 : t[i] = s[i - 1]
  <2>1. ASSUME NEW i \in 1 .. k PROVE t[i] = s[i]
    <3>1. i \in 1 .. N + 1 /\ i <= k + 1
      BY <1>1
    <3> QED
      BY <1>5, <1>7, <3>1
  <2>2. t[k + 1] = x
    <3>1. k + 1 \in 1 .. N + 1 /\ k + 1 <= k + 1
      BY <1>1
    <3> QED
      BY <1>5, <1>7, <3>1
  <2>3. ASSUME NEW i \in k + 2 .. N + 1 PROVE t[i] = s[i - 1]
    <3>1. i \in 1 .. N + 1 /\ ~(i <= k + 1) /\ i - (k + 1) \in 1 .. N - k /\ k + (i - (k + 1)) = i - 1
      BY <1>1
    <3> QED
      BY <1>3, <1>7, <3>1
  <2> QED
    BY <2>1, <2>2, <2>3
<1>9. /\ f \in [0 .. N -> Nat] /\ f[0] = 0 /\ w[x] \in Nat
      /\ \A i \in 1 .. N : f[i] = f[i - 1] + w[s[i]] /\ w[s[i]] \in Nat
  BY DEF Sums
<1>10. ASSUME NEW i \in 0 .. N + 1
       PROVE  (i <= k => g[i] = f[i] /\ f[i] \in Nat) /\ (i > k => g[i] = f[i - 1] + w[x] /\ f[i - 1] \in Nat)
  <2>1. (i <= k => i \in 0 .. N) /\ (i > k => i - 1 \in 0 .. N /\ ~(i <= k))
    BY <1>1
  <2> QED
    BY <1>9, <2>1
<1>11. g \in [0 .. N + 1 -> Nat]
  <2>1. g = [i \in 0 .. N + 1 |-> g[i]]
    OBVIOUS
  <2>2. \A i \in 0 .. N + 1 : g[i] \in Nat
    <3> HIDE DEF g
    <3> QED
      BY <1>1, <1>9, <1>10
  <2> HIDE DEF g
  <2> QED
    BY <2>1, <2>2
<1> HIDE DEF g
<1>12. ASSUME NEW i \in 1 .. N + 1 PROVE g[i] = g[i - 1] + w[t[i]]
  <2>1. i \in 0 .. N + 1 /\ i - 1 \in 0 .. N + 1
    BY <1>1
  <2>2. CASE i <= k
    <3>1. i \in 1 .. N /\ i \in 1 .. k /\ i - 1 <= k
      BY <1>1, <2>2
    <3> QED
      BY <1>8, <1>9, <1>10, <2>1, <2>2, <3>1
  <2>3. CASE i = k + 1
    <3>1. i > k /\ i - 1 <= k /\ i - 1 = k
      BY <1>1, <2>3
    <3>2. g[i] = f[k] + w[x] /\ g[i - 1] = f[k]
      BY <1>10, <2>1, <3>1
    <3> QED
      BY <1>8, <2>3, <3>2
  <2>4. CASE i > k + 1
    <3>1. i > k /\ i - 1 > k /\ i - 1 \in 1 .. N /\ i \in k + 2 .. N + 1
      BY <1>1, <2>4
    <3>2. /\ g[i] = f[i - 1] + w[x] /\ g[i - 1] = f[(i - 1) - 1] + w[x] /\ t[i] = s[i - 1]
          /\ f[i - 1] \in Nat /\ f[(i - 1) - 1] \in Nat
      BY <1>8, <1>10, <2>1, <3>1
    <3>3. f[i - 1] = f[(i - 1) - 1] + w[s[i - 1]] /\ w[s[i - 1]] \in Nat /\ w[t[i]] = w[s[i - 1]]
      BY <1>9, <3>1, <3>2
    <3> QED
      BY ONLY <3>2, <3>3, <1>9
  <2>5. i <= k \/ i = k + 1 \/ i > k + 1
    BY <1>1
  <2> QED
    BY <2>2, <2>3, <2>4, <2>5
<1>13. g[0] = 0
  <2>1. 0 \in 0 .. N + 1 /\ 0 <= k
    BY <1>1
  <2> QED
    BY <1>9, <1>10, <2>1
<1>14. Sums(g, t, w)
  BY <1>7, <1>11, <1>12, <1>13 DEF Sums
<1>15. g[k + 1] = f[k] + w[x] /\ g[N + 1] = f[N] + w[x]
  <2>1. /\ k + 1 \in 0 .. N + 1 /\ k + 1 > k /\ (k + 1) - 1 = k
        /\ N + 1 \in 0 .. N + 1 /\ N + 1 > k /\ (N + 1) - 1 = N
    BY <1>1
  <2> QED
    BY <1>10, <2>1
<1> QED
  BY <1>7, <1>14, <1>15 DEF Counts, t

\* A character taken out no longer counts from its place on.
LEMMA Removed ==
    ASSUME NEW C, NEW w, \A x \in C : w[x] \in Nat, NEW s \in Seq(C), NEW f, Sums(f, s, w),
           NEW k \in 1 .. Len(s)
    PROVE  /\ Less(s, k) \in Seq(C) /\ Len(Less(s, k)) = Len(s) - 1
           /\ Counts(Less(s, k), w, k - 1, f[k - 1], f[Len(s)] - w[s[k]])
<1> DEFINE N == Len(s)
           t == Less(s, k)
           p == SubSeq(s, 1, k - 1)
           r == SubSeq(s, k + 1, N)
           g == [i \in 0 .. N - 1 |-> IF i < k THEN f[i] ELSE f[i + 1] - w[s[k]]]
<1>1. /\ N \in Nat /\ k \in Nat /\ k <= N /\ k >= 1 /\ 0 \in 0 .. N /\ 0 + 1 = 1
      /\ k - 1 \in 0 .. N /\ k \in 0 .. N /\ N \in k .. N
  OBVIOUS
<1>2. p \in Seq(C) /\ Len(p) = k - 1 /\ \A i \in 1 .. k - 1 : p[i] = s[i]
  <2>1. /\ SubSeq(s, 0 + 1, k - 1) \in Seq(C) /\ Len(SubSeq(s, 0 + 1, k - 1)) = (k - 1) - 0
        /\ \A i \in 1 .. (k - 1) - 0 : SubSeq(s, 0 + 1, k - 1)[i] = s[0 + i]
    BY <1>1, Part
  <2> QED
    BY <1>1, <2>1
<1>3. r \in Seq(C) /\ Len(r) = N - k /\ \A i \in 1 .. N - k : r[i] = s[k + i]
  BY <1>1, Part
<1>4. t = p \o r
  BY DEF Less
<1> HIDE DEF p, r, t
<1>5. /\ t \in Seq(C) /\ Len(t) = N - 1
      /\ \A i \in 1 .. N - 1 : t[i] = IF i <= k - 1 THEN p[i] ELSE r[i - (k - 1)]
  <2>1. /\ (p \o r) \in Seq(C) /\ Len(p \o r) = Len(p) + Len(r)
        /\ \A i \in 1 .. Len(p) + Len(r) :
              (p \o r)[i] = IF i <= Len(p) THEN p[i] ELSE r[i - Len(p)]
    BY <1>2, <1>3, ConcatProperties
  <2>2. Len(p) + Len(r) = N - 1
    BY <1>1, <1>2, <1>3
  <2> QED
    BY <1>2, <1>4, <2>1, <2>2
<1>6. /\ \A i \in 1 .. k - 1 : t[i] = s[i]
      /\ \A i \in k .. N - 1 : t[i] = s[i + 1]
  <2>1. ASSUME NEW i \in 1 .. k - 1 PROVE t[i] = s[i]
    <3>1. i \in 1 .. N - 1 /\ i <= k - 1
      BY <1>1
    <3> QED
      BY <1>2, <1>5, <3>1
  <2>2. ASSUME NEW i \in k .. N - 1 PROVE t[i] = s[i + 1]
    <3>1. i \in 1 .. N - 1 /\ ~(i <= k - 1) /\ i - (k - 1) \in 1 .. N - k /\ k + (i - (k - 1)) = i + 1
      BY <1>1
    <3> QED
      BY <1>3, <1>5, <3>1
  <2> QED
    BY <2>1, <2>2
<1>7. /\ f \in [0 .. N -> Nat] /\ f[0] = 0 /\ w[s[k]] \in Nat
      /\ \A i \in 1 .. N : f[i] = f[i - 1] + w[s[i]] /\ w[s[i]] \in Nat
      /\ f[k] = f[k - 1] + w[s[k]] /\ f[k] \in Nat /\ f[k - 1] \in Nat
  <2>1. /\ f \in [0 .. N -> Nat] /\ f[0] = 0
        /\ \A i \in 1 .. N : f[i] = f[i - 1] + w[s[i]]
    BY DEF Sums
  <2>2. \A i \in 1 .. N : w[s[i]] \in Nat
    OBVIOUS
  <2>3. k \in 1 .. N
    OBVIOUS
  <2> HIDE DEF N
  <2> QED
    BY <1>1, <2>1, <2>2, <2>3
<1>8. ASSUME NEW i \in 0 .. N - 1
      PROVE  /\ i < k => g[i] = f[i] /\ f[i] \in Nat
             /\ i >= k => g[i] = f[i + 1] - w[s[k]] /\ f[i + 1] \in Nat /\ f[i + 1] >= f[k]
  <2>1. i < k => i \in 0 .. N
    BY <1>1
  <2>2. i >= k => i + 1 \in k .. N /\ i + 1 \in 0 .. N /\ ~(i < k)
    BY <1>1
  <2>3. i >= k => f[i + 1] >= f[k]
    <3>1. ASSUME NEW b \in k .. N PROVE f[b] >= f[k]
      BY <1>1, TotalBetween
    <3> QED
      BY <2>2, <3>1
  <2> QED
    BY <1>7, <2>1, <2>2, <2>3
<1>9. g \in [0 .. N - 1 -> Nat]
  <2>1. g = [i \in 0 .. N - 1 |-> g[i]]
    OBVIOUS
  <2> HIDE DEF g
  <2>2. \A i \in 0 .. N - 1 : g[i] \in Nat
    <3>1. SUFFICES ASSUME NEW i \in 0 .. N - 1 PROVE g[i] \in Nat
      OBVIOUS
    <3>2. CASE i < k
      BY <1>8, <3>2
    <3>3. CASE i >= k
      <4>1. g[i] = f[i + 1] - w[s[k]] /\ f[i + 1] \in Nat /\ f[i + 1] >= f[k]
        BY <1>8, <3>3
      <4>2. w[s[k]] \in Nat /\ f[k] = f[k - 1] + w[s[k]] /\ f[k - 1] \in Nat
        BY <1>7
      <4> QED
        BY ONLY <4>1, <4>2
    <3> QED
      BY <1>1, <3>2, <3>3
  <2> QED
    BY <2>1, <2>2
<1> HIDE DEF g
<1>10. ASSUME NEW i \in 1 .. N - 1 PROVE g[i] = g[i - 1] + w[t[i]]
  <2>1. i \in 0 .. N - 1 /\ i - 1 \in 0 .. N - 1
    BY <1>1
  <2>2. CASE i < k
    <3>1. i \in 1 .. N /\ i \in 1 .. k - 1 /\ i - 1 < k
      BY <1>1, <2>2
    <3> QED
      BY <1>6, <1>7, <1>8, <2>1, <2>2, <3>1
  <2>3. CASE i = k
    <3>1. i >= k /\ i - 1 < k /\ i \in k .. N - 1 /\ k + 1 \in 1 .. N /\ (k + 1) - 1 = k
      BY <1>1, <2>3
    <3>2. /\ g[i] = f[k + 1] - w[s[k]] /\ g[i - 1] = f[k - 1] /\ w[t[i]] = w[s[k + 1]]
          /\ f[k + 1] \in Nat
      BY <1>6, <1>8, <2>1, <2>3, <3>1
    <3>3. f[k + 1] = f[k] + w[s[k + 1]] /\ w[s[k + 1]] \in Nat
      BY <1>7, <3>1
    <3>4. f[k] = f[k - 1] + w[s[k]] /\ f[k] \in Nat /\ f[k - 1] \in Nat /\ w[s[k]] \in Nat
      BY <1>7
    <3>5. PICK d \in Nat, e \in Nat, o \in Nat, y \in Nat, z \in Nat :
             d = f[k + 1] /\ e = f[k] /\ o = f[k - 1] /\ y = w[s[k + 1]] /\ z = w[s[k]]
      BY <3>2, <3>3, <3>4
    <3>6. d = e + y /\ e = o + z
      BY <3>3, <3>4, <3>5
    <3>7. d - z = o + y
      BY ONLY <3>6, d \in Nat, e \in Nat, o \in Nat, y \in Nat, z \in Nat
    <3> QED
      BY <3>2, <3>5, <3>7
  <2>4. CASE i > k
    <3>1. i >= k /\ i - 1 >= k /\ i \in k .. N - 1 /\ i + 1 \in 1 .. N /\ (i - 1) + 1 = i /\ (i + 1) - 1 = i
      BY <1>1, <2>4
    <3>2. /\ g[i] = f[i + 1] - w[s[k]] /\ g[i - 1] = f[i] - w[s[k]] /\ w[t[i]] = w[s[i + 1]]
          /\ f[i] \in Nat /\ f[i + 1] \in Nat
      BY <1>6, <1>8, <2>1, <3>1
    <3>3. f[i + 1] = f[i] + w[s[i + 1]] /\ w[s[i + 1]] \in Nat /\ w[s[k]] \in Nat
      BY <1>7, <3>1
    <3> QED
      BY ONLY <3>2, <3>3
  <2>5. i < k \/ i = k \/ i > k
    BY <1>1
  <2> QED
    BY <2>2, <2>3, <2>4, <2>5
<1>11. g[0] = 0 /\ g[k - 1] = f[k - 1]
  <2>1. 0 \in 0 .. N - 1 /\ 0 < k /\ k - 1 \in 0 .. N - 1 /\ k - 1 < k
    BY <1>1
  <2> QED
    BY <1>7, <1>8, <2>1
<1>12. Sums(g, t, w)
  BY <1>5, <1>9, <1>10, <1>11 DEF Sums
<1>13. g[N - 1] = f[N] - w[s[k]]
  <2>1. CASE k = N
    <3>1. N - 1 \in 0 .. N - 1 /\ N - 1 < k /\ N - 1 = k - 1
      BY <1>1, <2>1
    <3> QED
      BY <1>7, <1>8, <2>1, <3>1
  <2>2. CASE k # N
    <3>1. N - 1 \in 0 .. N - 1 /\ N - 1 >= k /\ (N - 1) + 1 = N
      BY <1>1, <2>2
    <3> QED
      BY <1>8, <3>1
  <2> QED
    BY <2>1, <2>2
<1> QED
  BY <1>5, <1>11, <1>12, <1>13 DEF Counts, t

\* What a count says of the line and of its first k characters.
LEMMA Counted ==
    ASSUME NEW C, NEW w, \A x \in C : w[x] \in Nat, NEW s \in Seq(C),
           NEW k \in 0 .. Len(s), NEW a, NEW b, Counts(s, w, k, a, b)
    PROVE  Total(s, w) = b /\ Total(SubSeq(s, 1, k), w) = a
<1>1. PICK g : Sums(g, s, w) /\ g[k] = a /\ g[Len(s)] = b
  BY DEF Counts
<1>2. Total(s, w) = g[Len(s)]
  BY <1>1, TotalIs
<1>3. Total(SubSeq(s, 1, k), w) = g[k]
  BY <1>1, TotalFirst
<1> QED
  BY <1>1, <1>2, <1>3

-----------------------------------------------------------------------------
(***************************************************************************)
(* The line and its cursor.                                                *)
(***************************************************************************)

\* the characters that get into the line
Solid == Alphabet \ {"bad"}

\* What a character counts.
LEMMA CharFacts ==
    /\ \A x \in Solid : x \in Chars /\ Size[x] \in Nat /\ Size[x] > 0
    /\ \A x \in Solid : Width[x] \in Nat /\ Width[x] > 0 /\ Width[x] <= 2
    /\ \A x \in Alphabet : x \in Chars /\ Size[x] \in Nat /\ (Size[x] = 0 <=> x = "bad")
<1>1. \A x \in Alphabet : x \in Chars
  BY LineAssumption
<1>2. ASSUME NEW x \in Chars
      PROVE  /\ Size[x] \in Nat /\ (Size[x] = 0 <=> x = "bad")
             /\ Width[x] \in Nat /\ Width[x] > 0 /\ Width[x] <= 2
  <2>1. CASE x = "bad"
    BY <2>1 DEF Size, Width, Chars
  <2>2. CASE x \in {"a", "blank"}
    BY <2>2 DEF Size, Width, Chars
  <2>3. CASE x = "accent"
    BY <2>3 DEF Size, Width, Chars
  <2>4. CASE x = "wide"
    BY <2>4 DEF Size, Width, Chars
  <2> QED
    BY <2>1, <2>2, <2>3, <2>4 DEF Chars
<1> QED
  BY <1>1, <1>2 DEF Solid

\* Only one place of a line is behind a number of bytes.
LEMMA OnePlace ==
    ASSUME NEW s \in Seq(Solid), NEW k \in 0 .. Len(s), NEW off, off = Bytes(SubSeq(s, 1, k))
    PROVE  k = CHOOSE j \in 0 .. Len(s) : Bytes(SubSeq(s, 1, j)) = off
<1>1. PICK f : Sums(f, s, Size)
  BY CharFacts, Summed
<1>2. \A j \in 0 .. Len(s) : Bytes(SubSeq(s, 1, j)) = f[j] /\ f[j] \in Nat
  BY <1>1, CharFacts, TotalFirst DEF Bytes
<1>3. \A i \in 0 .. Len(s), j \in 0 .. Len(s) : i < j => f[i] < f[j]
  <2>1. SUFFICES ASSUME NEW i \in 0 .. Len(s), NEW j \in 0 .. Len(s), i < j PROVE f[i] < f[j]
    OBVIOUS
  <2>2. j \in i .. Len(s) /\ i # j
    BY <2>1
  <2> QED
    BY <1>1, <2>2, CharFacts, Increasing
<1>4. ASSUME NEW j \in 0 .. Len(s), Bytes(SubSeq(s, 1, j)) = off PROVE j = k
  <2>1. f[j] = f[k] /\ f[j] \in Nat
    BY <1>2, <1>4
  <2>2. ~(j < k) /\ ~(k < j)
    BY <1>3, <2>1
  <2> QED
    BY <2>2
<1> QED
  BY <1>4

\* The bytes of the line and the place of the cursor among them.
ByteInv ==
    /\ line \in Seq(Solid) /\ Len(line) <= MaxChars
    /\ line_size = Bytes(line)
    /\ \E k \in 0 .. Len(line) : offset = Bytes(First(k))

\* Bytes and cells up to each character, in one list each.
LEMMA LineFacts ==
    ASSUME ByteInv
    PROVE  /\ at \in 0 .. Len(line) /\ Len(line) \in Nat
           /\ \E f, h : /\ Sums(f, line, Size) /\ Sums(h, line, Width)
                        /\ \A k \in 0 .. Len(line) : Bytes(First(k)) = f[k] /\ Cells(First(k)) = h[k]
                        /\ \A k \in 0 .. Len(line) : f[k] \in Nat /\ h[k] \in Nat
                        /\ offset = f[at]
                        /\ line_size = f[Len(line)] /\ Cells(line) = h[Len(line)]
                        /\ f[0] = 0 /\ h[0] = 0
                        /\ \A i \in 0 .. Len(line), j \in 0 .. Len(line) :
                              i < j => f[i] < f[j] /\ h[i] < h[j]
           /\ \A k \in 0 .. Len(line) : offset = Bytes(First(k)) => k = at
<1>1. line \in Seq(Solid) /\ Len(line) \in Nat
  BY DEF ByteInv
<1>2. PICK f : Sums(f, line, Size)
  BY <1>1, CharFacts, Summed
<1>3. PICK h : Sums(h, line, Width)
  BY <1>1, CharFacts, Summed
<1>4. \A k \in 0 .. Len(line) : Bytes(First(k)) = f[k] /\ f[k] \in Nat
  BY <1>1, <1>2, CharFacts, TotalFirst DEF Bytes, First
<1>5. \A k \in 0 .. Len(line) : Cells(First(k)) = h[k] /\ h[k] \in Nat
  BY <1>1, <1>3, CharFacts, TotalFirst DEF Cells, First
<1>6. ASSUME NEW k \in 0 .. Len(line), offset = Bytes(First(k)) PROVE k = at
  BY <1>1, <1>6, OnePlace DEF at, CharsBefore, First
<1>7. at \in 0 .. Len(line) /\ offset = f[at]
  <2>1. PICK k \in 0 .. Len(line) : offset = Bytes(First(k))
    BY DEF ByteInv
  <2>2. k = at
    BY <1>6, <2>1
  <2> QED
    BY <1>4, <2>1, <2>2
<1>8. line_size = f[Len(line)] /\ Cells(line) = h[Len(line)]
  BY <1>1, <1>2, <1>3, CharFacts, TotalIs DEF Bytes, Cells, ByteInv
<1>9. \A i \in 0 .. Len(line), j \in 0 .. Len(line) : i < j => f[i] < f[j] /\ h[i] < h[j]
  <2>1. SUFFICES ASSUME NEW i \in 0 .. Len(line), NEW j \in 0 .. Len(line), i < j
                 PROVE  f[i] < f[j] /\ h[i] < h[j]
    OBVIOUS
  <2>2. j \in i .. Len(line) /\ i # j
    BY <2>1
  <2>3. f[i] < f[j]
    BY <1>1, <1>2, <2>2, CharFacts, Increasing
  <2>4. h[i] < h[j]
    BY <1>1, <1>3, <2>2, CharFacts, Increasing
  <2> QED
    BY <2>3, <2>4
<1>10. f[0] = 0 /\ h[0] = 0
  BY <1>2, <1>3 DEF Sums
<1> QED
  BY <1>1, <1>2, <1>3, <1>4, <1>5, <1>6, <1>7, <1>8, <1>9, <1>10

\* Going right or left over whole characters ends behind a character.
LEMMA Going ==
    ASSUME ByteInv, NEW n \in 0 .. Len(line),
           (at <= n /\ GoRight(n)) \/ (n <= at /\ GoLeft(n))
    PROVE  /\ offset' = Bytes(First(n))
           /\ column = Cells(First(at)) => column' = Cells(First(n))
<1>1. at \in 0 .. Len(line) /\ Len(line) \in Nat /\ line \in Seq(Solid)
  BY LineFacts DEF ByteInv
<1>2. PICK f, h : /\ Sums(f, line, Size) /\ Sums(h, line, Width)
                  /\ \A k \in 0 .. Len(line) : Bytes(First(k)) = f[k] /\ Cells(First(k)) = h[k]
                  /\ \A k \in 0 .. Len(line) : f[k] \in Nat /\ h[k] \in Nat
                  /\ offset = f[at]
  BY LineFacts
<1>3. ASSUME NEW i \in 0 .. Len(line), NEW j \in i .. Len(line)
      PROVE  Bytes(SubSeq(line, i + 1, j)) = f[j] - f[i] /\ Cells(SubSeq(line, i + 1, j)) = h[j] - h[i]
  <2>1. /\ i \in 0 .. Len(line) /\ j \in i .. Len(line) /\ line \in Seq(Solid)
        /\ Sums(f, line, Size) /\ Sums(h, line, Width)
    BY <1>1, <1>2
  <2>2. (\A x \in Solid : Size[x] \in Nat) /\ (\A x \in Solid : Width[x] \in Nat)
    BY CharFacts
  <2>3. Total(SubSeq(line, i + 1, j), Size) = f[j] - f[i]
    BY ONLY <2>1, <2>2, TotalBetween
  <2>4. Total(SubSeq(line, i + 1, j), Width) = h[j] - h[i]
    BY ONLY <2>1, <2>2, TotalBetween
  <2> QED
    BY <2>3, <2>4 DEF Bytes, Cells
<1>4. /\ f[at] \in Nat /\ h[at] \in Nat /\ f[n] \in Nat /\ h[n] \in Nat
      /\ Bytes(First(n)) = f[n] /\ Cells(First(n)) = h[n] /\ Cells(First(at)) = h[at]
  BY <1>1, <1>2
<1>5. CASE at <= n /\ GoRight(n)
  <2>1. n \in at .. Len(line)
    BY <1>1, <1>5
  <2>2. /\ Bytes(SubSeq(line, at + 1, n)) = f[n] - f[at]
        /\ Cells(SubSeq(line, at + 1, n)) = h[n] - h[at]
    BY <1>1, <1>3, <2>1
  <2>3. offset' = f[at] + (f[n] - f[at]) /\ column' = column + (h[n] - h[at])
    BY <1>2, <1>5, <2>2 DEF GoRight
  <2> QED
    BY <1>4, <2>3
<1>6. CASE n <= at /\ GoLeft(n)
  <2>1. at \in n .. Len(line)
    BY <1>1, <1>6
  <2>2. /\ Bytes(SubSeq(line, n + 1, at)) = f[at] - f[n]
        /\ Cells(SubSeq(line, n + 1, at)) = h[at] - h[n]
    BY <1>1, <1>3, <2>1
  <2>3. offset' = f[at] - (f[at] - f[n]) /\ column' = column - (h[at] - h[n])
    BY <1>2, <1>6, <2>2 DEF GoLeft, PrevSize
  <2> QED
    BY <1>4, <2>3
<1> QED
  BY <1>5, <1>6

\* insert_char puts a character in before the cursor, which stays behind it.
LEMMA InsertLine ==
    ASSUME ByteInv, NEW ch \in Alphabet, insert_char(ch)
    PROVE  /\ ByteInv'
           /\ ("bad" \notin Alphabet /\ CursorOnBoundary) => CursorOnBoundary'
<1>1. at \in 0 .. Len(line) /\ Len(line) \in Nat /\ line \in Seq(Solid)
      /\ \A k \in 0 .. Len(line) : offset = Bytes(First(k)) => k = at
  BY LineFacts DEF ByteInv
<1>2. PICK f, h : /\ Sums(f, line, Size) /\ Sums(h, line, Width)
                  /\ \A k \in 0 .. Len(line) : Bytes(First(k)) = f[k] /\ Cells(First(k)) = h[k]
                  /\ offset = f[at]
                  /\ line_size = f[Len(line)] /\ Cells(line) = h[Len(line)]
  BY LineFacts
<1>3. /\ Len(line) < MaxChars /\ MaxChars \in Nat
      /\ offset' = offset + Size[ch] /\ line_size' = line_size + Size[ch]
      /\ line_len' = line_len + Width[ch] /\ column' = column + Width[ch]
  BY LineAssumption DEF insert_char
<1>4. CASE Size[ch] = 0
  <2>1. line' = line /\ "bad" \in Alphabet
    BY <1>4, CharFacts DEF insert_char
  <2>2. line_size \in Nat /\ offset \in Nat
    <3>1. f \in [0 .. Len(line) -> Nat] /\ Len(line) \in 0 .. Len(line)
      BY <1>1, <1>2 DEF Sums
    <3> QED
      BY <1>1, <1>2, <3>1
  <2>3. offset' = offset /\ line_size' = line_size
    BY <1>3, <1>4, <2>2
  <2> QED
    BY <2>1, <2>3 DEF ByteInv, First, Bytes
<1>5. CASE Size[ch] # 0
  <2>1. ch \in Solid
    BY <1>5, CharFacts DEF Solid
  <2> DEFINE t == With(line, at, ch)
  <2>2. line' = t
    BY <1>5 DEF insert_char, First, With
  <2>3. (\A x \in Solid : Size[x] \in Nat) /\ (\A x \in Solid : Width[x] \in Nat)
    BY CharFacts
  <2>4. /\ t \in Seq(Solid) /\ Len(t) = Len(line) + 1
        /\ Counts(t, Size, at + 1, f[at] + Size[ch], f[Len(line)] + Size[ch])
    BY ONLY <1>1, <1>2, <2>1, <2>3, Inserted
  <2>5. Counts(t, Width, at + 1, h[at] + Width[ch], h[Len(line)] + Width[ch])
    BY ONLY <1>1, <1>2, <2>1, <2>3, Inserted
  <2> HIDE DEF t
  <2>6. at + 1 \in 0 .. Len(t) /\ Len(t) <= MaxChars
    BY <1>1, <1>3, <2>4
  <2>7. Total(t, Size) = f[Len(line)] + Size[ch] /\ Total(SubSeq(t, 1, at + 1), Size) = f[at] + Size[ch]
    BY ONLY <2>3, <2>4, <2>6, Counted
  <2>8. Total(t, Width) = h[Len(line)] + Width[ch] /\ Total(SubSeq(t, 1, at + 1), Width) = h[at] + Width[ch]
    BY ONLY <2>3, <2>4, <2>5, <2>6, Counted
  <2>9. line_size' = Total(t, Size) /\ offset' = Total(SubSeq(t, 1, at + 1), Size)
    BY <1>2, <1>3, <2>7
  <2>10. ByteInv'
    BY <2>2, <2>4, <2>6, <2>9 DEF ByteInv, First, Bytes
  <2>11. ASSUME CursorOnBoundary PROVE CursorOnBoundary'
    <3>1. line_len = h[Len(line)] /\ column = h[at]
      BY <1>1, <1>2, <2>11 DEF CursorOnBoundary
    <3>2. line_len' = Total(t, Width) /\ column' = Total(SubSeq(t, 1, at + 1), Width)
      BY <1>3, <2>8, <3>1
    <3> QED
      BY <2>2, <2>6, <2>9, <3>2 DEF CursorOnBoundary, First, Bytes, Cells
  <2> QED
    BY <2>10, <2>11
<1> QED
  BY <1>4, <1>5

\* delete_char takes out the character with number k, and the cursor is
\* before the place where it was.
LEMMA WithoutLine ==
    ASSUME ByteInv, NEW k \in 1 .. Len(line), Without(k), offset' = Bytes(First(k - 1))
    PROVE  /\ ByteInv' /\ line_size' <= line_size /\ line_size \in Nat
           /\ (CursorOnBoundary /\ column' = Cells(First(k - 1))) => CursorOnBoundary'
<1>1. Len(line) \in Nat /\ line \in Seq(Solid) /\ Len(line) <= MaxChars /\ MaxChars \in Nat
  BY LineAssumption DEF ByteInv
<1>2. PICK f, h : /\ Sums(f, line, Size) /\ Sums(h, line, Width)
                  /\ \A j \in 0 .. Len(line) : Bytes(First(j)) = f[j] /\ Cells(First(j)) = h[j]
                  /\ \A j \in 0 .. Len(line) : f[j] \in Nat /\ h[j] \in Nat
                  /\ line_size = f[Len(line)] /\ Cells(line) = h[Len(line)]
  BY LineFacts
<1>3. /\ line' = Less(line, k)
      /\ line_size' = line_size - Size[line[k]] /\ line_len' = line_len - Width[line[k]]
  BY DEF Without, Shorter, First, Less
<1>4. line[k] \in Solid /\ k - 1 \in 0 .. Len(line) /\ Len(line) \in 0 .. Len(line)
  BY <1>1
<1> DEFINE t == Less(line, k)
<1>5. (\A x \in Solid : Size[x] \in Nat) /\ (\A x \in Solid : Width[x] \in Nat) /\ k \in 1 .. Len(line)
  BY CharFacts
<1>6. /\ t \in Seq(Solid) /\ Len(t) = Len(line) - 1
      /\ Counts(t, Size, k - 1, f[k - 1], f[Len(line)] - Size[line[k]])
  BY ONLY <1>1, <1>2, <1>5, Removed
<1>7. Counts(t, Width, k - 1, h[k - 1], h[Len(line)] - Width[line[k]])
  BY ONLY <1>1, <1>2, <1>5, Removed
<1>8. line' = t
  BY <1>3
<1> HIDE DEF t
<1>9. k - 1 \in 0 .. Len(t) /\ Len(t) <= MaxChars
  BY <1>1, <1>6
<1>10. Total(t, Size) = f[Len(line)] - Size[line[k]] /\ Total(SubSeq(t, 1, k - 1), Size) = f[k - 1]
  BY ONLY <1>5, <1>6, <1>9, Counted
<1>11. Total(t, Width) = h[Len(line)] - Width[line[k]] /\ Total(SubSeq(t, 1, k - 1), Width) = h[k - 1]
  BY ONLY <1>5, <1>6, <1>7, <1>9, Counted
<1>12. line_size' = Total(t, Size) /\ offset' = Total(SubSeq(t, 1, k - 1), Size)
  BY <1>2, <1>3, <1>4, <1>10
<1>13. ByteInv'
  BY <1>6, <1>8, <1>9, <1>12 DEF ByteInv, First, Bytes
<1>14. line_size' <= line_size /\ line_size \in Nat
  <2>1. line_size \in Nat /\ Size[line[k]] \in Nat
    BY <1>2, <1>4, CharFacts
  <2> QED
    BY <1>3, <2>1
<1>15. ASSUME CursorOnBoundary, column' = Cells(First(k - 1)) PROVE CursorOnBoundary'
  <2>1. line_len = h[Len(line)] /\ column' = h[k - 1]
    BY <1>2, <1>4, <1>15 DEF CursorOnBoundary
  <2>2. line_len' = Total(t, Width) /\ column' = Total(SubSeq(t, 1, k - 1), Width)
    BY <1>3, <1>11, <2>1
  <2> QED
    BY <1>8, <1>9, <1>12, <2>2 DEF CursorOnBoundary, First, Bytes, Cells
<1> QED
  BY <1>13, <1>14, <1>15

\* The cursor goes from word to word within the line.
LEMMA WordPlaces ==
    ASSUME line \in Seq(Solid), NEW k \in 0 .. Len(line), NEW S
    PROVE  Ahead(k, S) \in k .. Len(line) /\ Behind(k, S) \in 0 .. k
<1>1. Len(line) \in Nat /\ k \in Nat /\ k <= Len(line)
  OBVIOUS
<1> DEFINE A == {n \in k .. Len(line) : n = Len(line) \/ line[n + 1] \in S}
           B == {n \in 0 .. k : k - n = 0 \/ line[k - n] \in S}
<1>2. A \subseteq Nat /\ A # {} /\ B \subseteq Nat /\ B # {}
  <2>1. Len(line) \in A /\ k \in B
    BY <1>1
  <2>2. A \subseteq Nat /\ B \subseteq Nat
    BY <1>1
  <2> QED
    BY <2>1, <2>2
<1>3. \E m \in A : \A y \in A : m <= y
  <2> HIDE DEF A
  <2> QED
    BY <1>2, Least
<1>4. \E m \in B : \A y \in B : m <= y
  <2> HIDE DEF B
  <2> QED
    BY <1>2, Least
<1>5. PICK n \in k .. Len(line) : /\ n = Len(line) \/ line[n + 1] \in S
                                  /\ \A m \in k .. n - 1 : line[m + 1] \notin S
  <2>1. PICK n \in A : \A y \in A : n <= y
    BY <1>3
  <2>2. ASSUME NEW m \in k .. n - 1 PROVE line[m + 1] \notin S
    <3>1. m \in k .. Len(line) /\ ~(n <= m) /\ n \in k .. Len(line)
      BY <1>1, <2>1
    <3> QED
      BY <2>1, <3>1
  <2> QED
    BY <2>1, <2>2
<1>6. PICK i \in 0 .. k : /\ i = 0 \/ line[i] \in S
                          /\ \A m \in i + 1 .. k : line[m] \notin S
  <2>1. PICK b \in B : \A y \in B : b <= y
    BY <1>4
  <2>2. k - b \in 0 .. k /\ (k - b = 0 \/ line[k - b] \in S)
    BY <1>1, <2>1
  <2>3. ASSUME NEW m \in (k - b) + 1 .. k PROVE line[m] \notin S
    <3>1. k - m \in 0 .. k /\ ~(b <= k - m) /\ k - (k - m) = m
      BY <1>1, <2>1
    <3> QED
      BY <2>1, <3>1
  <2> QED
    BY <2>2, <2>3
<1>7. Ahead(k, S) \in k .. Len(line)
  BY <1>5 DEF Ahead
<1>8. Behind(k, S) \in 0 .. k
  BY <1>6 DEF Behind
<1> QED
  BY <1>7, <1>8

-----------------------------------------------------------------------------
(***************************************************************************)
(* Rows and columns.                                                       *)
(***************************************************************************)

\* A number of cells, as rows and what is left.
LEMMA Divided ==
    ASSUME NEW n \in Nat
    PROVE  /\ n \div console_width \in Nat /\ n % console_width \in 0 .. console_width - 1
           /\ n = (n \div console_width) * console_width + (n % console_width)
  BY LineAssumption

\* The rows of b cells, counted upwards, are as many as its cells at most, and
\* go beyond the row of a cell before them.
LEMMA RowsOf ==
    ASSUME NEW a \in Nat, NEW b \in Nat, b > 0, a <= b
    PROVE  LET rows == (b + console_width - 1) \div console_width
           IN  /\ rows \in Nat /\ rows <= b /\ a \div console_width <= rows
               /\ (a < b \/ a % console_width # 0) => a \div console_width + 1 <= rows
<1> DEFINE W == console_width
           q == a \div W
           r == a % W
           d == b + W - 1
           u == d \div W
           v == d % W
<1>1. W \in Nat \ {0}
  BY LineAssumption
<1>2. q \in Nat /\ r \in 0 .. W - 1 /\ a = q * W + r
  BY Divided
<1>3. d \in Nat
  BY <1>1
<1>4. u \in Nat /\ v \in 0 .. W - 1 /\ d = u * W + v
  BY <1>3, Divided
<1>5. d = b + W - 1
  OBVIOUS
<1> HIDE DEF W, q, r, d, u, v
<1>6. u <= b
  <2>1. SUFFICES ASSUME u >= b + 1 PROVE FALSE
    BY <1>4
  <2>2. u * W >= (b + 1) * W
    BY <1>1, <1>4, <2>1
  <2>3. (b + 1) * W = b * W + W /\ b * W >= b /\ b * W \in Nat /\ u * W \in Nat
    BY <1>1, <1>4
  <2> QED
    BY <1>1, <1>4, <1>5, <2>2, <2>3
<1>7. q <= u
  <2>1. SUFFICES ASSUME q >= u + 1 PROVE FALSE
    BY <1>2, <1>4
  <2>2. q * W >= (u + 1) * W
    BY <1>1, <1>2, <1>4, <2>1
  <2>3. (u + 1) * W = u * W + W /\ u * W \in Nat /\ q * W \in Nat
    BY <1>1, <1>2, <1>4
  <2> QED
    BY <1>1, <1>2, <1>4, <1>5, <2>2, <2>3
<1>8. ASSUME a < b \/ r # 0 PROVE q + 1 <= u
  <2>1. SUFFICES ASSUME q >= u PROVE FALSE
    BY <1>2, <1>4
  <2>2. q * W >= u * W
    BY <1>1, <1>2, <1>4, <2>1
  <2>3. u * W \in Nat /\ q * W \in Nat
    BY <1>1, <1>2, <1>4
  <2>4. b <= q * W
    BY <1>1, <1>4, <1>5, <2>2, <2>3
  <2> QED
    BY <1>2, <1>8, <2>3, <2>4
<1> QED
  BY <1>4, <1>6, <1>7, <1>8 DEF W, q, r, d, u

\* A size_t holds every number of rows.
LEMMA SizeTExact ==
    ASSUME NEW k \in Nat, k < SizeValues
    PROVE  SizeT(k) = k
<1> DEFINE M == SizeValues
           q == k \div M
           r == k % M
<1>1. M \in Nat \ {0}
  BY LineAssumption
<1>2. q \in Nat /\ r \in 0 .. M - 1 /\ k = q * M + r
  BY <1>1
<1>3. r = SizeT(k) /\ k < M
  BY DEF SizeT
<1> HIDE DEF M, q, r
<1>4. q = 0
  <2>1. SUFFICES ASSUME q >= 1 PROVE FALSE
    BY <1>2
  <2>2. q * M >= M
    BY <1>1, <1>2, <2>1
  <2> QED
    BY <1>1, <1>2, <1>3, <2>2
<1> QED
  BY <1>1, <1>2, <1>3, <1>4

\* A difference of size_t is a number.
LEMMA SizeTNat ==
    ASSUME NEW k \in Int
    PROVE  SizeT(k) \in Nat
  BY LineAssumption DEF SizeT

\* The rows in use go as far as the cursor was drawn, but for an empty line that
\* has not been drawn yet or stands behind a prompt that fills its rows; the
\* moves of the last redraw are within them.
RowsInv ==
    /\ rendered = column
    /\ row \in Nat /\ row <= Prompt + 2 * MaxChars + 1
    /\ moves \in [down : Nat, up : Nat]
    /\ \/ row >= RowOf(column) + 1
       \/ column = 0 /\ (row = 0 \/ PromptFills)
    /\ DistancesInRange

\* flush_console keeps the rows in use, wherever the cursor was.
LEMMA FlushRows ==
    ASSUME RowsInv, column \in Nat, flush_console,
           line_len' \in 0 .. 2 * MaxChars, column' \in 0 .. line_len',
           column' = line_len' => offset' = line_size',
           offset' = 0 => column' = 0
    PROVE  RowsInv'
<1>1. /\ MaxChars \in Nat /\ SizeValues \in Nat /\ Prompt + 2 * MaxChars + 1 < SizeValues
      /\ Prompt \in Nat /\ Prompt >= 1
  BY LineAssumption
<1> DEFINE full == Prompt % console_width = 0
<1>3. PICK cells \in Nat, place \in Nat : /\ cells = line_len' /\ place = column'
                                         /\ cells <= 2 * MaxChars /\ place <= cells
  BY <1>1
<1>4. cells \in Nat /\ place \in Nat /\ cells <= 2 * MaxChars /\ place <= cells
  BY <1>3
<1> DEFINE rows == (Prompt + cells + console_width - 1) \div console_width
           used == Larger(rows, row)
           written == IF Wraps THEN rows + 1 ELSE rows
           old == RowOf(column)
           new == RowOf(place)
           top == Prompt + 2 * MaxChars + 1
<1>5. old \in Nat /\ new \in Nat
  BY <1>1, <1>4, Divided DEF RowOf
<1>6. rows \in Nat /\ rows <= Prompt + cells /\ rows + 1 <= top
  <2>1. Prompt + cells \in Nat /\ Prompt + cells > 0 /\ 0 \in Nat /\ 0 <= Prompt + cells
    BY <1>1, <1>4
  <2>2. rows \in Nat /\ rows <= Prompt + cells
    BY <2>1, RowsOf
  <2> QED
    BY <1>1, <1>4, <2>2
<1>7. used \in Nat /\ used >= rows /\ used >= row /\ used <= top /\ (used = rows \/ used = row)
  <2>1. row \in Nat /\ row <= top
    BY DEF RowsInv
  <2>2. rows <= top
    BY <1>1, <1>6
  <2> HIDE DEF rows, top
  <2> QED
    BY <1>1, <1>6, <2>1, <2>2 DEF Larger
<1>8. written \in Nat /\ (written = rows \/ written = rows + 1)
  BY <1>6
<1>9. ASSUME ~(cells = 0 /\ full) PROVE used >= old + 1
  <2>1. CASE row >= old + 1
    BY <1>5, <1>7, <2>1 DEF RowsInv
  <2>2. CASE column = 0
    <3>1. Prompt \in Nat /\ Prompt + cells \in Nat /\ Prompt + cells > 0 /\ Prompt <= Prompt + cells
      BY <1>1, <1>4
    <3>2. Prompt < Prompt + cells \/ Prompt % console_width # 0
      BY <1>1, <1>4, <1>9
    <3>3. Prompt \div console_width + 1 <= rows
      BY <3>1, <3>2, RowsOf
    <3>4. old = Prompt \div console_width
      BY <1>1, <2>2 DEF RowOf
    <3> QED
      BY <1>5, <1>6, <1>7, <3>3, <3>4
  <2> QED
    BY <2>1, <2>2 DEF RowsInv
<1>10. ASSUME ~(cells = 0 /\ full) PROVE written >= new + 1
  <2> DEFINE cell == Prompt + place
             end == Prompt + cells
  <2>1. cell \in Nat /\ end \in Nat /\ end > 0 /\ cell <= end
    BY <1>1, <1>4
  <2>2. cell \div console_width <= rows
    BY <2>1, RowsOf
  <2>3. (cell < end \/ cell % console_width # 0) => cell \div console_width + 1 <= rows
    BY <2>1, RowsOf
  <2>4. new = cell \div console_width
    BY DEF RowOf
  <2>5. CASE cell < end \/ cell % console_width # 0
    BY <1>5, <1>6, <1>8, <2>3, <2>4, <2>5
  <2>6. CASE ~(cell < end) /\ cell % console_width = 0
    <3>1. ~(cell < end)
      BY <2>6
    <3>2. place = cells
      BY <1>1, <1>4, <3>1
    <3>3. offset' # 0
      <4>1. ASSUME offset' = 0 PROVE FALSE
        <5>1. cell = Prompt /\ cells = 0
          BY <1>1, <1>3, <3>2, <4>1
        <5> QED
          BY <1>10, <2>6, <5>1
      <4> QED
        BY <4>1
    <3>4. Wraps
      BY <1>3, <2>6, <3>2, <3>3 DEF Wraps
    <3>5. written = rows + 1
      BY <3>4
    <3> QED
      BY <1>5, <1>6, <2>2, <2>4, <3>5
  <2> QED
    BY <2>5, <2>6
<1>11. /\ row' = Larger(written, used) /\ rendered' = place
      /\ moves' = [down |-> SizeT(used - (RowOf(rendered) + 1)), up |-> SizeT(written - (new + 1))]
  BY <1>3 DEF flush_console
<1>12. RowOf(rendered) = old
  BY DEF RowsInv
<1>13. top \in Nat /\ top < SizeValues
  BY <1>1
<1> HIDE DEF used, written, rows, old, new, top
<1>14. row' \in Nat /\ row' <= top /\ row' >= used /\ row' >= written
  BY <1>1, <1>6, <1>7, <1>8, <1>11 DEF Larger
<1>15. moves' \in [down : Nat, up : Nat]
  <2>1. used - (old + 1) \in Int /\ written - (new + 1) \in Int
    BY <1>5, <1>7, <1>8
  <2> QED
    BY <1>11, <1>12, <2>1, SizeTNat
<1>16. ASSUME ~(cells = 0 /\ full) PROVE moves'.down < row' /\ moves'.up < row'
  <2>1. used - (old + 1) \in Nat /\ used - (old + 1) < SizeValues
    BY <1>1, <1>5, <1>7, <1>9, <1>13, <1>16
  <2>2. written - (new + 1) \in Nat /\ written - (new + 1) < SizeValues
    BY <1>1, <1>5, <1>6, <1>8, <1>10, <1>13, <1>16
  <2>3. moves'.down = used - (old + 1) /\ moves'.up = written - (new + 1)
    BY <1>11, <1>12, <2>1, <2>2, SizeTExact
  <2> QED
    BY <1>5, <1>7, <1>8, <1>14, <2>3
<1>17. RowOf(column)' = new /\ column' = place /\ PromptFills' = (cells = 0 /\ full)
  BY <1>3 DEF RowOf, new, PromptFills
<1>18. row' >= RowOf(column)' + 1 \/ (column' = 0 /\ PromptFills')
  <2>1. CASE cells = 0 /\ full
    <3>1. place = 0
      BY <1>4, <2>1
    <3>2. PromptFills'
      BY <1>17, <2>1
    <3> QED
      BY <1>17, <3>1, <3>2
  <2>2. CASE ~(cells = 0 /\ full)
    <3>1. written >= new + 1
      BY <1>10, <2>2
    <3>2. row' >= new + 1
      BY <1>5, <1>8, <1>14, <3>1
    <3> QED
      BY <1>17, <3>2
  <2> QED
    BY <2>1, <2>2
<1>19. DistancesInRange'
  BY <1>16, <1>17 DEF DistancesInRange
<1> QED
  BY <1>11, <1>14, <1>15, <1>17, <1>18, <1>19 DEF RowsInv, top

-----------------------------------------------------------------------------
(***************************************************************************)
(* The keys, by what they do to line and cursor.                           *)
(***************************************************************************)

\* A key that moves the cursor behind the n-th character.
Moves(n) ==
    /\ alloc' = Resized
    /\ UNCHANGED <<line, line_size, line_len, nul, skipped>>
    /\ flush_console
    /\ offset' = Bytes(First(n))
    /\ CursorOnBoundary => column' = Cells(First(n))

\* A key that takes out the k-th character.
TakesOut(k) ==
    /\ alloc' = Resized
    /\ UNCHANGED skipped
    /\ Without(k)
    /\ offset' = Bytes(First(k - 1))
    /\ CursorOnBoundary => column' = Cells(First(k - 1))

\* A key without effect on the line, or the end of the prompt.
Rests ==
    /\ alloc' = Resized \/ alloc' = alloc
    /\ UNCHANGED <<edit, row, rendered, nul, moves, skipped>>

\* xprompt starts again.
Restarts ==
    /\ line' = << >> /\ line_size' = 0 /\ line_len' = 0
    /\ offset' = 0 /\ column' = 0 /\ row' = 0 /\ rendered' = 0
    /\ alloc' = Initial /\ nul' = -1
    /\ moves' = [down |-> 0, up |-> 0]
    /\ skipped' = FALSE

\* The cursor between two characters, by its place.
LEMMA Boundary ==
    ASSUME ByteInv, CursorOnBoundary
    PROVE  column = Cells(First(at))
<1>1. PICK k \in 0 .. Len(line) : offset = Bytes(First(k)) /\ column = Cells(First(k))
  BY DEF CursorOnBoundary
<1>2. k = at
  BY <1>1, LineFacts
<1> QED
  BY <1>1, <1>2

\* Where the cursor can go to.
LEMMA CursorRoom ==
    ASSUME ByteInv
    PROVE  /\ at \in 0 .. Len(line) /\ Len(line) \in Nat
           /\ offset \in Nat /\ line_size \in Nat
           /\ offset > 0 => at - 1 \in 0 .. Len(line) /\ at \in 1 .. Len(line)
           /\ offset # line_size => at + 1 \in 0 .. Len(line) /\ at + 1 \in 1 .. Len(line)
           /\ Bytes(First(0)) = 0 /\ Cells(First(0)) = 0
           /\ Bytes(First(Len(line))) = line_size /\ Cells(First(Len(line))) = Cells(line)
<1>1. at \in 0 .. Len(line) /\ Len(line) \in Nat
  BY LineFacts
<1>2. PICK f, h : /\ \A k \in 0 .. Len(line) : Bytes(First(k)) = f[k] /\ Cells(First(k)) = h[k]
                  /\ \A k \in 0 .. Len(line) : f[k] \in Nat /\ h[k] \in Nat
                  /\ offset = f[at]
                  /\ line_size = f[Len(line)] /\ Cells(line) = h[Len(line)]
                  /\ f[0] = 0 /\ h[0] = 0
  BY LineFacts
<1>3. 0 \in 0 .. Len(line) /\ Len(line) \in 0 .. Len(line)
  BY <1>1
<1>4. offset \in Nat /\ line_size \in Nat
  BY <1>1, <1>2, <1>3
<1>5. ASSUME offset > 0 PROVE at - 1 \in 0 .. Len(line) /\ at \in 1 .. Len(line)
  <2>1. at # 0
    BY <1>2, <1>5
  <2> QED
    BY <1>1, <2>1
<1>6. ASSUME offset # line_size PROVE at + 1 \in 0 .. Len(line) /\ at + 1 \in 1 .. Len(line)
  <2>1. at # Len(line)
    BY <1>2, <1>6
  <2> QED
    BY <1>1, <2>1
<1> QED
  BY <1>1, <1>2, <1>3, <1>4, <1>5, <1>6

\* Each key that moves the cursor ends behind a character.
LEMMA MoveKeys ==
    ASSUME ByteInv,
           \/ move_cursor_right \/ move_cursor_left \/ move_home \/ move_end
           \/ move_cursor_word_end \/ move_cursor_word_start \/ enter
    PROVE  \E n \in 0 .. Len(line) : Moves(n)
<1>1. /\ at \in 0 .. Len(line) /\ Len(line) \in Nat
      /\ offset > 0 => at - 1 \in 0 .. Len(line)
      /\ offset # line_size => at + 1 \in 0 .. Len(line)
      /\ Bytes(First(0)) = 0 /\ Cells(First(0)) = 0
      /\ Bytes(First(Len(line))) = line_size /\ Cells(First(Len(line))) = Cells(line)
  BY CursorRoom
<1>2. /\ alloc' = Resized /\ flush_console
      /\ UNCHANGED <<line, line_size, line_len, nul, skipped>>
  BY DEF move_cursor_right, move_cursor_left, move_home, move_end, move_cursor_word_end,
         move_cursor_word_start, enter, Moved, Key
<1>3. CursorOnBoundary => column = Cells(First(at)) /\ line_len = Cells(line)
  BY Boundary DEF CursorOnBoundary
<1>4. ASSUME NEW n \in 0 .. Len(line), (at <= n /\ GoRight(n)) \/ (n <= at /\ GoLeft(n))
      PROVE  Moves(n)
  <2>1. offset' = Bytes(First(n)) /\ (column = Cells(First(at)) => column' = Cells(First(n)))
    BY <1>4, Going
  <2> QED
    BY <1>2, <1>3, <2>1 DEF Moves
<1>5. CASE move_cursor_right
  <2> DEFINE n == IF offset # line_size THEN at + 1 ELSE at
  <2>1. n \in 0 .. Len(line) /\ at <= n
    BY <1>1
  <2>2. GoRight(n)
    BY <1>5 DEF move_cursor_right
  <2> HIDE DEF n
  <2> QED
    BY <1>4, <2>1, <2>2
<1>6. CASE move_cursor_left
  <2> DEFINE n == IF offset > 0 THEN at - 1 ELSE at
  <2>1. n \in 0 .. Len(line) /\ n <= at
    BY <1>1
  <2>2. GoLeft(n)
    BY <1>6 DEF move_cursor_left
  <2> HIDE DEF n
  <2> QED
    BY <1>4, <2>1, <2>2
<1>7. CASE move_home
  <2>1. 0 \in 0 .. Len(line) /\ offset' = 0 /\ column' = 0
    BY <1>1, <1>7 DEF move_home
  <2>2. Moves(0)
    BY <1>1, <1>2, <2>1 DEF Moves
  <2> QED
    BY <2>1, <2>2
<1>8. CASE move_end \/ enter
  <2>1. Len(line) \in 0 .. Len(line) /\ offset' = line_size /\ column' = line_len
    BY <1>1, <1>8 DEF move_end, enter
  <2>2. Moves(Len(line))
    BY <1>1, <1>2, <1>3, <2>1 DEF Moves
  <2> QED
    BY <2>1, <2>2
<1>9. line \in Seq(Solid)
  BY DEF ByteInv
<1>10. CASE move_cursor_word_end
  <2>1. PICK i \in at .. Len(line) : i = Ahead(at, NonBlank)
    BY <1>1, <1>9, WordPlaces
  <2>2. i \in 0 .. Len(line)
    BY <1>1
  <2>3. PICK n \in i .. Len(line) : n = Ahead(i, {"blank"})
    BY <1>9, <2>2, WordPlaces
  <2>4. n \in 0 .. Len(line) /\ at <= n
    BY <1>1, <2>2
  <2>5. GoRight(n)
    BY <1>10, <2>1, <2>3 DEF move_cursor_word_end
  <2> QED
    BY <1>4, <2>4, <2>5
<1>11. CASE move_cursor_word_start
  <2>1. PICK i \in 0 .. at : i = Behind(at, NonBlank)
    BY <1>1, <1>9, WordPlaces
  <2>2. i \in 0 .. Len(line)
    BY <1>1
  <2>3. PICK n \in 0 .. i : n = Behind(i, {"blank"})
    BY <1>9, <2>2, WordPlaces
  <2>4. n \in 0 .. Len(line) /\ n <= at
    BY <1>1, <2>2
  <2>5. GoLeft(n)
    BY <1>11, <2>1, <2>3 DEF move_cursor_word_start
  <2> QED
    BY <1>4, <2>4, <2>5
<1> QED
  BY <1>5, <1>6, <1>7, <1>8, <1>10, <1>11

\* delete_char takes out the character before or behind the cursor, or does
\* nothing.
LEMMA DeleteKeys ==
    ASSUME ByteInv, backspace \/ delete
    PROVE  Rests \/ \E k \in 1 .. Len(line) : TakesOut(k)
<1>1. /\ at \in 0 .. Len(line) /\ Len(line) \in Nat /\ offset \in Nat /\ line_size \in Nat
      /\ offset > 0 => at - 1 \in 0 .. Len(line) /\ at \in 1 .. Len(line)
      /\ offset # line_size => at + 1 \in 1 .. Len(line)
  BY CursorRoom
<1>2. alloc' = Resized /\ UNCHANGED skipped
  BY DEF backspace, delete, Key
<1>3. CursorOnBoundary => column = Cells(First(at))
  BY Boundary
<1>4. CASE backspace /\ offset > 0 /\ line_size > 0
  <2>1. GoLeft(at - 1) /\ Without(at)
    BY <1>4 DEF backspace
  <2>2. at - 1 \in 0 .. Len(line) /\ at - 1 <= at /\ at \in 1 .. Len(line)
    BY <1>1, <1>4
  <2>3. /\ offset' = Bytes(First(at - 1))
        /\ column = Cells(First(at)) => column' = Cells(First(at - 1))
    BY <2>1, <2>2, Going
  <2>4. TakesOut(at)
    BY <1>2, <1>3, <2>1, <2>3 DEF TakesOut
  <2> QED
    BY <2>2, <2>4
<1>5. CASE delete /\ line_size > 0 /\ offset < line_size
  <2>1. UNCHANGED <<offset, column>> /\ Without(at + 1)
    BY <1>5 DEF delete
  <2>2. at + 1 \in 1 .. Len(line) /\ (at + 1) - 1 = at
    BY <1>1, <1>5
  <2>3. offset = Bytes(First(at))
    BY LineFacts
  <2>4. TakesOut(at + 1)
    BY <1>2, <1>3, <2>1, <2>2, <2>3 DEF TakesOut
  <2> QED
    BY <2>2, <2>4
<1>6. CASE \/ backspace /\ ~(offset > 0 /\ line_size > 0)
           \/ delete /\ ~(line_size > 0 /\ offset < line_size)
  <2>1. UNCHANGED <<edit, row, rendered, nul, moves>>
    BY <1>6 DEF backspace, delete
  <2> QED
    BY <1>2, <2>1 DEF Rests
<1> QED
  BY <1>4, <1>5, <1>6

\* Every step is of one of these kinds.
LEMMA StepKinds ==
    ASSUME ByteInv, [Next]_vars
    PROVE  \/ \E ch \in Alphabet : insert_char(ch)
           \/ \E n \in 0 .. Len(line) : Moves(n)
           \/ \E k \in 1 .. Len(line) : TakesOut(k)
           \/ Rests
           \/ Restarts
<1>1. CASE UNCHANGED vars
  BY <1>1 DEF vars, Rests
<1>2. CASE \/ move_cursor_right \/ move_cursor_left \/ move_home \/ move_end
           \/ move_cursor_word_end \/ move_cursor_word_start \/ enter
  BY <1>2, MoveKeys
<1>3. CASE backspace \/ delete
  BY <1>3, DeleteKeys
<1>4. CASE end_of_input
  BY <1>4 DEF end_of_input, Key, Rests
<1>5. CASE xprompt
  BY <1>5 DEF xprompt, Rests, Restarts
<1> QED
  BY <1>1, <1>2, <1>3, <1>4, <1>5 DEF Next

-----------------------------------------------------------------------------
(***************************************************************************)
(* The buffer, for any alphabet.                                           *)
(***************************************************************************)

\* The line ends two bytes before the end of its buffer at the latest, unless
\* the size at which it grows was stepped over, and a NUL is behind it.
BufferInv ==
    /\ alloc \in Nat /\ alloc > 2
    /\ ~skipped => line_size <= alloc - 2
    /\ line_size > 0 => nul = line_size

\* The test before a key leaves room for one byte more and its NUL.
LEMMA Grown ==
    ASSUME BufferInv, line_size \in Nat
    PROVE  Resized \in Nat /\ Resized > 2 /\ Resized >= alloc
           /\ (~skipped => line_size < Resized - 2)
<1>1. alloc \in Nat /\ alloc > 2 /\ (~skipped => line_size <= alloc - 2)
  BY DEF BufferInv
<1>2. CASE line_size = alloc - 2
  <2>1. Resized = 2 * alloc
    BY <1>2 DEF Resized, MustGrow
  <2> QED
    BY <1>1, <1>2, <2>1
<1>3. CASE line_size # alloc - 2
  <2>1. Resized = alloc
    BY <1>3 DEF Resized, MustGrow
  <2> QED
    BY <1>1, <1>3, <2>1
<1> QED
  BY <1>2, <1>3

\* An empty line.
LEMMA EmptyLine == Bytes(<< >>) = 0 /\ Cells(<< >>) = 0 /\ << >> \in Seq(Solid) /\ Len(<< >>) = 0
<1>1. << >> \in Seq(Solid) /\ Len(<< >>) = 0
  OBVIOUS
<1>2. (\A x \in Solid : Size[x] \in Nat) /\ (\A x \in Solid : Width[x] \in Nat)
  BY CharFacts
<1>3. ASSUME NEW w, \A x \in Solid : w[x] \in Nat PROVE Total(<< >>, w) = 0
  <2>1. PICK f : Sums(f, << >>, w)
    BY <1>1, <1>3, Summed
  <2>2. f[0] = 0
    BY <2>1 DEF Sums
  <2>3. Total(<< >>, w) = f[Len(<< >>)]
    BY <1>1, <1>3, <2>1, TotalIs
  <2> QED
    BY <1>1, <2>2, <2>3
<1> QED
  BY <1>1, <1>2, <1>3 DEF Bytes, Cells

\* xprompt starts with an empty line, and with the cursor behind the prompt.
LEMMA Restarted ==
    ASSUME Restarts
    PROVE  ByteInv' /\ BufferInv' /\ CursorOnBoundary' /\ RowsInv'
<1>1. /\ line' = << >> /\ line_size' = 0 /\ line_len' = 0
      /\ offset' = 0 /\ column' = 0 /\ row' = 0 /\ rendered' = 0 /\ alloc' = Initial
      /\ moves' = [down |-> 0, up |-> 0]
  BY DEF Restarts
<1>2. SubSeq(<< >>, 1, 0) = << >> /\ 0 \in 0 .. 0
  BY SubSeqEmpty
<1>3. MaxChars \in Nat /\ Initial \in Nat /\ Initial > 2 /\ Prompt \in Nat /\ Prompt + 0 = Prompt
  BY LineAssumption
<1>4. ByteInv'
  <2>1. line' \in Seq(Solid) /\ Len(line') = 0 /\ 0 <= MaxChars
    BY <1>1, <1>3, EmptyLine
  <2>2. line_size' = Bytes(line)' /\ offset' = Bytes(First(0))'
    BY <1>1, <1>2, EmptyLine DEF First, Bytes
  <2> QED
    BY <1>2, <2>1, <2>2 DEF ByteInv
<1>5. CursorOnBoundary'
  BY <1>1, <1>2, EmptyLine DEF CursorOnBoundary, First, Bytes, Cells
<1>6. BufferInv'
  BY <1>1, <1>3 DEF BufferInv
<1>7. RowsInv'
  <2>1. 0 <= Prompt + 2 * MaxChars + 1 /\ 0 \in Nat
    BY <1>3
  <2> QED
    BY <1>1, <1>3, <2>1 DEF RowsInv, RowOf, DistancesInRange, PromptFills
<1> QED
  BY <1>4, <1>5, <1>6, <1>7

\* Bytes and buffer are kept by every step.
LEMMA BufferNext ==
    ASSUME ByteInv, BufferInv, [Next]_vars
    PROVE  ByteInv' /\ BufferInv'
<1>1. line_size \in Nat
  BY CursorRoom
<1>2. Resized \in Nat /\ Resized > 2 /\ Resized >= alloc /\ (~skipped => line_size < Resized - 2)
  BY <1>1, Grown
<1>3. /\ alloc \in Nat /\ alloc > 2 /\ (~skipped => line_size <= alloc - 2)
      /\ line_size > 0 => nul = line_size
  BY DEF BufferInv
<1>4. ASSUME NEW ch \in Alphabet, insert_char(ch) PROVE ByteInv' /\ BufferInv'
  <2>1. ByteInv'
    BY <1>4, InsertLine
  <2>2. /\ alloc' = Resized /\ nul' = line_size' /\ line_size' = line_size + Size[ch]
        /\ skipped' = (skipped \/ (line_size < alloc' - 2 /\ line_size' > alloc' - 2))
    BY <1>4 DEF insert_char, Key, NulAt
  <2>3. PICK z \in Nat : z = line_size' /\ Size[ch] \in Nat
    BY <1>1, <2>2, CharFacts
  <2>4. ~skipped' => z <= Resized - 2
    <3>1. skipped' = (skipped \/ (line_size < Resized - 2 /\ z > Resized - 2))
      BY <2>2, <2>3
    <3>2. ~skipped' => ~skipped /\ ~(line_size < Resized - 2 /\ z > Resized - 2)
      BY <3>1
    <3>3. ~skipped' => ~(z > Resized - 2)
      BY <1>2, <3>2
    <3>4. ~(z > Resized - 2) => z <= Resized - 2
      BY <1>2, <2>3
    <3> QED
      BY <3>3, <3>4
  <2> QED
    BY <1>2, <2>1, <2>2, <2>3, <2>4 DEF BufferInv
<1>5. ASSUME NEW n \in 0 .. Len(line), Moves(n) PROVE ByteInv' /\ BufferInv'
  <2>1. /\ alloc' = Resized /\ line' = line /\ line_size' = line_size /\ nul' = nul
        /\ skipped' = skipped /\ offset' = Bytes(First(n))
    BY <1>5 DEF Moves
  <2>2. ByteInv'
    BY <2>1 DEF ByteInv, First, Bytes
  <2>3. ~skipped => line_size <= Resized - 2
    BY <1>1, <1>2
  <2> QED
    BY <1>2, <1>3, <2>1, <2>2, <2>3 DEF BufferInv
<1>6. ASSUME NEW k \in 1 .. Len(line), TakesOut(k) PROVE ByteInv' /\ BufferInv'
  <2>1. /\ alloc' = Resized /\ skipped' = skipped /\ nul' = line_size'
        /\ Without(k) /\ offset' = Bytes(First(k - 1))
    BY <1>6 DEF TakesOut, Without, NulAt
  <2>2. ByteInv' /\ line_size' <= line_size
    BY <2>1, WithoutLine
  <2>3. PICK y \in Nat : y = Size[line[k]]
    <3>1. line[k] \in Solid
      BY DEF ByteInv
    <3> QED
      BY <3>1, CharFacts
  <2>4. PICK z \in Int : z = line_size' /\ z <= line_size
    <3>1. line_size' = line_size - y
      BY <2>1, <2>3 DEF Without
    <3> QED
      BY <1>1, <2>3, <3>1
  <2>5. ~skipped => z <= Resized - 2
    BY <1>1, <1>2, <2>4
  <2> QED
    BY <1>2, <2>1, <2>2, <2>4, <2>5 DEF BufferInv
<1>7. ASSUME Rests PROVE ByteInv' /\ BufferInv'
  <2>1. /\ line' = line /\ line_size' = line_size /\ offset' = offset /\ nul' = nul
        /\ skipped' = skipped /\ (alloc' = Resized \/ alloc' = alloc)
    BY <1>7 DEF Rests, edit
  <2>2. ByteInv'
    BY <2>1 DEF ByteInv, First, Bytes
  <2>3. ~skipped => line_size <= Resized - 2
    BY <1>1, <1>2
  <2> QED
    BY <1>2, <1>3, <2>1, <2>2, <2>3 DEF BufferInv
<1> QED
  BY <1>4, <1>5, <1>6, <1>7, StepKinds, Restarted

-----------------------------------------------------------------------------
(***************************************************************************)
(* The cursor and the rows in use, if every character typed is one.        *)
(***************************************************************************)

\* Cells and bytes of a place in a line.
LEMMA PlaceFacts ==
    ASSUME NEW s \in Seq(Solid), Len(s) <= MaxChars, NEW k \in 0 .. Len(s),
           NEW y, y = Cells(s), NEW x, x = Cells(SubSeq(s, 1, k)),
           NEW z, z = Bytes(s), NEW o, o = Bytes(SubSeq(s, 1, k))
    PROVE  /\ y \in 0 .. 2 * MaxChars /\ x \in 0 .. y
           /\ x = y => o = z
           /\ o = 0 => x = 0
<1> DEFINE N == Len(s)
<1>1. N \in Nat /\ MaxChars \in Nat /\ N <= MaxChars /\ k \in 0 .. N /\ N \in k .. N /\ 0 \in 0 .. N /\ N \in 0 .. N
  BY LineAssumption
<1>2. (\A c1 \in Solid : Size[c1] \in Nat) /\ (\A c1 \in Solid : Width[c1] \in Nat)
  BY CharFacts
<1>3. PICK f : Sums(f, s, Size)
  BY <1>2, Summed
<1>4. PICK h : Sums(h, s, Width)
  BY <1>2, Summed
<1>5. z = f[N] /\ o = f[k] /\ f[k] \in Nat /\ f[N] \in Nat
  BY <1>1, <1>2, <1>3, TotalIs, TotalFirst DEF Bytes
<1>6. y = h[N] /\ x = h[k] /\ h[k] \in Nat /\ h[N] \in Nat
  BY <1>1, <1>2, <1>4, TotalIs, TotalFirst DEF Cells
<1>7. f[0] = 0 /\ h[0] = 0 /\ h \in [0 .. N -> Nat] /\ \A i \in 1 .. N : h[i] = h[i - 1] + Width[s[i]]
  BY <1>3, <1>4 DEF Sums
<1>8. k # N => h[k] < h[N]
  BY <1>1, <1>4, CharFacts, Increasing
<1>9. k # 0 => f[0] < f[k]
  BY <1>1, <1>3, CharFacts, Increasing
<1>10. h[N] <= 2 * N
  <2> DEFINE T == {i \in 0 .. N : h[i] <= 2 * i}
  <2>1. 0 \in T
    BY <1>1, <1>7
  <2>2. ASSUME NEW i \in 1 .. N, i - 1 \in T PROVE i \in T
    <3>1. s[i] \in Solid
      OBVIOUS
    <3>2. Width[s[i]] \in Nat /\ Width[s[i]] <= 2
      BY <3>1, CharFacts
    <3>3. i \in 0 .. N /\ i - 1 \in 0 .. N
      BY <1>1
    <3>4. h[i - 1] \in Nat /\ h[i - 1] <= 2 * (i - 1) /\ h[i] = h[i - 1] + Width[s[i]]
      BY <1>7, <2>2, <3>3
    <3>5. h[i] <= 2 * i
      BY <3>2, <3>4
    <3> QED
      BY <3>3, <3>5
  <2> HIDE DEF T, N
  <2>3. \A i \in 0 .. N : i \in T
    BY <1>1, <2>1, <2>2, Induction
  <2> QED
    BY <1>1, <2>3 DEF T
<1>11. h[N] \in 0 .. 2 * MaxChars
  BY <1>1, <1>6, <1>10
<1>12. h[k] \in 0 .. h[N]
  BY <1>6, <1>8
<1>13. h[k] = h[N] => k = N
  BY <1>6, <1>8
<1>14. f[k] = 0 => k = 0
  BY <1>5, <1>7, <1>9
<1> QED
  BY <1>5, <1>6, <1>7, <1>11, <1>12, <1>13, <1>14

\* What flush_console needs to know of line and cursor.
LEMMA Drawable ==
    ASSUME ByteInv', CursorOnBoundary'
    PROVE  /\ line_len' \in 0 .. 2 * MaxChars /\ column' \in 0 .. line_len'
           /\ column' = line_len' => offset' = line_size'
           /\ offset' = 0 => column' = 0
<1>1. PICK s \in Seq(Solid) : s = line' /\ Len(s) <= MaxChars
  BY DEF ByteInv
<1>2. line_size' = Bytes(s) /\ line_len' = Cells(s)
  BY <1>1 DEF CursorOnBoundary, Bytes, Cells
<1>3. PICK k \in 0 .. Len(s) : offset' = Bytes(SubSeq(s, 1, k)) /\ column' = Cells(SubSeq(s, 1, k))
  BY <1>1 DEF CursorOnBoundary, Bytes, Cells, First
<1> QED
  BY <1>1, <1>2, <1>3, PlaceFacts

\* Cursor and rows are kept by every step.
LEMMA RowsNext ==
    ASSUME "bad" \notin Alphabet, ByteInv, CursorOnBoundary, RowsInv, ByteInv', [Next]_vars
    PROVE  CursorOnBoundary' /\ RowsInv'
<1>1. column \in Nat
  <2>1. at \in 0 .. Len(line) /\ column = Cells(First(at))
    BY Boundary, LineFacts
  <2> QED
    BY <2>1, LineFacts
<1>2. ASSUME flush_console, CursorOnBoundary' PROVE RowsInv'
  BY <1>1, <1>2, Drawable, FlushRows
<1>3. ASSUME NEW ch \in Alphabet, insert_char(ch) PROVE CursorOnBoundary' /\ RowsInv'
  <2>1. CursorOnBoundary'
    BY <1>3, InsertLine
  <2>2. flush_console
    BY <1>3 DEF insert_char
  <2> QED
    BY <1>2, <2>1, <2>2
<1>4. ASSUME NEW n \in 0 .. Len(line), Moves(n) PROVE CursorOnBoundary' /\ RowsInv'
  <2>1. /\ line' = line /\ line_size' = line_size /\ line_len' = line_len
        /\ offset' = Bytes(First(n)) /\ column' = Cells(First(n)) /\ flush_console
    BY <1>4 DEF Moves
  <2>2. CursorOnBoundary'
    BY <2>1 DEF CursorOnBoundary, First, Bytes, Cells
  <2> QED
    BY <1>2, <2>1, <2>2
<1>5. ASSUME NEW k \in 1 .. Len(line), TakesOut(k) PROVE CursorOnBoundary' /\ RowsInv'
  <2>1. Without(k) /\ offset' = Bytes(First(k - 1)) /\ column' = Cells(First(k - 1))
    BY <1>5 DEF TakesOut
  <2>2. CursorOnBoundary'
    BY <2>1, WithoutLine
  <2>3. flush_console
    BY <2>1 DEF Without
  <2> QED
    BY <1>2, <2>2, <2>3
<1>6. ASSUME Rests PROVE CursorOnBoundary' /\ RowsInv'
  BY <1>6 DEF Rests, edit, CursorOnBoundary, RowsInv, First, Bytes, Cells, RowOf, DistancesInRange, PromptFills
<1> QED
  BY <1>3, <1>4, <1>5, <1>6, StepKinds, Restarted

\* The first prompt is like a later one.
LEMMA LineInit == Init => ByteInv /\ BufferInv /\ CursorOnBoundary /\ RowsInv
<1> SUFFICES ASSUME Init PROVE ByteInv /\ BufferInv /\ CursorOnBoundary /\ RowsInv
  OBVIOUS
<1>1. /\ line = << >> /\ line_size = 0 /\ line_len = 0
      /\ offset = 0 /\ column = 0 /\ row = 0 /\ rendered = 0 /\ alloc = Initial
      /\ moves = [down |-> 0, up |-> 0]
  BY DEF Init
<1>2. SubSeq(<< >>, 1, 0) = << >> /\ 0 \in 0 .. 0
  BY SubSeqEmpty
<1>3. MaxChars \in Nat /\ Initial \in Nat /\ Initial > 2 /\ Prompt \in Nat /\ Prompt + 0 = Prompt
  BY LineAssumption
<1>4. Bytes(First(0)) = 0 /\ Cells(First(0)) = 0 /\ Bytes(line) = 0 /\ Cells(line) = 0
  BY <1>1, <1>2, EmptyLine DEF First
<1>5. line \in Seq(Solid) /\ Len(line) = 0 /\ 0 <= MaxChars
  BY <1>1, <1>3, EmptyLine
<1>6. ByteInv /\ CursorOnBoundary
  BY <1>1, <1>2, <1>4, <1>5 DEF ByteInv, CursorOnBoundary
<1>7. BufferInv
  BY <1>1, <1>3 DEF BufferInv
<1>8. RowsInv
  <2>1. 0 <= Prompt + 2 * MaxChars + 1 /\ 0 \in Nat
    BY <1>3
  <2> QED
    BY <1>1, <1>3, <2>1 DEF RowsInv, RowOf, DistancesInRange, PromptFills
<1> QED
  BY <1>6, <1>7, <1>8

(***************************************************************************)
(* The line and the NUL behind it are within the allocation, unless a      *)
(* character of several bytes has stepped over the size at which the       *)
(* buffer is grown, and a line that xprompt returns is terminated; for     *)
(* whatever is typed.                                                      *)
(***************************************************************************)
THEOREM TerminatedTheorem == Spec => []TerminatedInBuffer
<1>1. ByteInv /\ BufferInv => TerminatedInBuffer
  <2>1. SUFFICES ASSUME ByteInv, BufferInv PROVE TerminatedInBuffer
    OBVIOUS
  <2>2. line_size \in Nat
    BY <2>1, CursorRoom
  <2> QED
    BY <2>1, <2>2 DEF BufferInv, TerminatedInBuffer
<1> QED
  BY <1>1, LineInit, BufferNext, PTL DEF Spec

\* The invariant of cursor and rows.
LEMMA LineInvariance ==
    ASSUME "bad" \notin Alphabet
    PROVE  Spec => [](CursorOnBoundary /\ RowsInv)
<1>1. /\ ByteInv /\ BufferInv /\ CursorOnBoundary /\ RowsInv /\ [Next]_vars
      => (ByteInv /\ BufferInv /\ CursorOnBoundary /\ RowsInv)'
  BY BufferNext, RowsNext
<1> QED
  BY <1>1, LineInit, PTL DEF Spec

(***************************************************************************)
(* After any sequence of keys the counts of bytes and cells agree with the *)
(* line, and the cursor is between two characters, if xgetcp delivers      *)
(* whole characters.                                                       *)
(***************************************************************************)
THEOREM CursorTheorem ==
    ASSUME "bad" \notin Alphabet
    PROVE  Spec => []CursorOnBoundary
  BY LineInvariance, PTL

(***************************************************************************)
(* No distance of flush_console wraps around, for every prompt, every      *)
(* console width and every sequence of edits.                              *)
(***************************************************************************)
THEOREM DistancesTheorem ==
    ASSUME "bad" \notin Alphabet
    PROVE  Spec => []DistancesInRange
<1>1. RowsInv => DistancesInRange
  BY DEF RowsInv
<1> QED
  BY <1>1, LineInvariance, PTL

\* What the invariants above say nothing of.
Labels ==
    /\ nul \in Int
    /\ status \in {"editing", "returned", "done"}
    /\ skipped \in BOOLEAN

\* They keep their types.
LEMMA LabelsNext ==
    ASSUME Labels, line_size' \in Int, [Next]_vars
    PROVE  Labels'
<1>1. nul' = nul \/ nul' = line_size' \/ nul' = -1
  BY DEF Next, vars, edit, insert_char, NulAt, move_cursor_right, move_cursor_left,
         move_home, move_end, move_cursor_word_end, move_cursor_word_start, Moved,
         backspace, delete, Without, enter, end_of_input, xprompt
<1>2. status' \in {"editing", "returned", "done"}
  BY DEF Labels, Next, vars, insert_char, move_cursor_right, move_cursor_left,
         move_home, move_end, move_cursor_word_end, move_cursor_word_start, Moved,
         backspace, delete, enter, end_of_input, xprompt
<1>3. skipped' \in BOOLEAN
  BY DEF Labels, Next, vars, insert_char, move_cursor_right, move_cursor_left,
         move_home, move_end, move_cursor_word_end, move_cursor_word_start, Moved,
         backspace, delete, enter, end_of_input, xprompt
<1>4. nul' \in Int
  <2>1. -1 \in Int /\ nul \in Int
    BY DEF Labels
  <2> QED
    BY <1>1, <2>1
<1> QED
  BY <1>2, <1>3, <1>4 DEF Labels

(***************************************************************************)
(* The line editor's type invariant: no count of bytes, cells or rows ever *)
(* falls below 0, where the code's size_t would wrap around.               *)
(***************************************************************************)
THEOREM LineTypeTheorem ==
    ASSUME "bad" \notin Alphabet
    PROVE  Spec => []TypeOK
<1> DEFINE I == ByteInv /\ BufferInv /\ CursorOnBoundary /\ RowsInv /\ Labels
<1>1. Init => I
  <2>1. Init => Labels
    <3>1. -1 \in Int
      OBVIOUS
    <3>2. Init => nul = -1 /\ status = "editing" /\ skipped = FALSE
      BY DEF Init
    <3> QED
      BY <3>1, <3>2 DEF Labels
  <2> QED
    BY <2>1, LineInit
<1>2. I /\ [Next]_vars => I'
  <2>1. SUFFICES ASSUME I, [Next]_vars PROVE I'
    OBVIOUS
  <2>2. ByteInv' /\ BufferInv'
    BY <2>1, BufferNext
  <2>3. CursorOnBoundary' /\ RowsInv'
    BY <2>1, <2>2, RowsNext
  <2>4. line_size' \in Int
    <3>1. PICK s \in Seq(Solid) : s = line' /\ line_size' = Bytes(s)
      BY <2>2 DEF ByteInv, Bytes
    <3>2. (\A x \in Solid : Size[x] \in Nat) /\ Len(s) \in 0 .. Len(s)
      BY CharFacts
    <3>3. PICK f : Sums(f, s, Size)
      BY <3>2, Summed
    <3>4. Bytes(s) = f[Len(s)] /\ f[Len(s)] \in Nat
      BY <3>2, <3>3, TotalIs, TotalFirst DEF Bytes
    <3> QED
      BY <3>1, <3>4
  <2>5. Labels'
    BY <2>1, <2>4, LabelsNext
  <2> QED
    BY <2>2, <2>3, <2>5
<1>3. I => TypeOK
  <2>1. SUFFICES ASSUME I PROVE TypeOK
    OBVIOUS
  <2>2. line \in Seq(Alphabet)
    <3>1. line \in Seq(Solid) /\ Solid \subseteq Alphabet
      BY <2>1 DEF ByteInv, Solid
    <3> QED
      BY <3>1, SeqMonotonic
  <2>3. line_size \in Nat /\ offset \in Nat /\ at \in 0 .. Len(line) /\ Len(line) \in 0 .. Len(line)
    BY <2>1, CursorRoom
  <2>4. line_len \in Nat /\ column \in Nat
    <3>1. line_len = Cells(First(Len(line))) /\ column = Cells(First(at))
      BY <2>1, CursorRoom, Boundary DEF CursorOnBoundary
    <3>2. \A k \in 0 .. Len(line) : Cells(First(k)) \in Nat
      BY <2>1, LineFacts
    <3> QED
      BY <2>3, <3>1, <3>2
  <2>5. moves \in [down : Nat, up : Nat]
    BY <2>1 DEF RowsInv
  <2>6. row \in Nat /\ rendered \in Nat /\ alloc \in Nat
    BY <2>1, <2>4 DEF RowsInv, BufferInv
  <2> QED
    BY <2>1, <2>2, <2>3, <2>4, <2>5, <2>6 DEF TypeOK, Labels
<1> HIDE DEF I
<1> QED
  BY <1>1, <1>2, <1>3, PTL DEF Spec

=============================================================================
