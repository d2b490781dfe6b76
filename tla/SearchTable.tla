----------------------------- MODULE SearchTable -----------------------------
(***************************************************************************)
(* search_table of src/common/utf8.c: binary search for a code point in a  *)
(* table of ranges, with bounds kept in unsigned size_t.  It decides how   *)
(* wide a character is drawn.  Table and code point are arbitrary; one     *)
(* step is one pass of the loop.                                           *)
(***************************************************************************)
EXTENDS Naturals

CONSTANTS
    MaxLen,   \* longest table
    MaxCp,    \* largest code point
    SIZE_MAX  \* largest size_t

ASSUME SizeAssumption ==
    MaxLen \in Nat \ {0} /\ MaxCp \in Nat /\ SIZE_MAX \in Nat /\ SIZE_MAX >= 2 * MaxLen

VARIABLES
    table, len,  \* the codepoint_range_t array and its length
    c,           \* the code point
    hi, lo,      \* bounds[0], bounds[1]
    pc           \* "check", "loop", or the result: "found", "absent"

searchvars == <<table, len, c, hi, lo, pc>>

Cp == 0 .. MaxCp
CpRange == [start : Cp, end : Cp]
Idx == 0 .. len - 1

\* The tables of cp_rendered_width are sorted, and their ranges disjoint.
Sorted(t, n) ==
    /\ \A i \in 0 .. n - 1 : t[i].start <= t[i].end
    /\ \A i, j \in 0 .. n - 1 : i < j => t[i].end < t[j].start

SearchInit ==
    /\ len \in 1 .. MaxLen
    /\ table \in [Idx -> CpRange]
    /\ Sorted(table, len)
    /\ c \in Cp
    /\ hi = 0 /\ lo = 0
    /\ pc = "check"

MutantOutside == c > table[len - 1].end

\* The range test before the loop.
Outside == c < table[0].start \/ c > table[len - 1].end

check ==
    /\ pc = "check"
    /\ IF Outside THEN pc' = "absent" /\ UNCHANGED <<hi, lo>>
       ELSE pc' = "loop" /\ hi' = len - 1 /\ lo' = 0
    /\ UNCHANGED <<table, len, c>>

avg == (lo + hi) \div 2

\* size_t wraps around below 0
Pred(n) == IF n = 0 THEN SIZE_MAX ELSE n - 1

MutantUpper == avg

\* bounds[0] = avg - 1
Upper == Pred(avg)

MutantLower == lo + avg + 1

\* bounds[1] = avg + 1
Lower == avg + 1

loop ==
    /\ pc = "loop"
    /\ \/ /\ hi < lo
          /\ pc' = "absent" /\ UNCHANGED <<hi, lo>>
       \/ /\ hi >= lo /\ c > table[avg].end
          /\ lo' = Lower /\ UNCHANGED <<hi, pc>>
       \/ /\ hi >= lo /\ c <= table[avg].end /\ c < table[avg].start
          /\ hi' = Upper /\ UNCHANGED <<lo, pc>>
       \/ /\ hi >= lo /\ c <= table[avg].end /\ c >= table[avg].start
          /\ pc' = "found" /\ UNCHANGED <<hi, lo>>
    /\ UNCHANGED <<table, len, c>>

SearchNext == check \/ loop
SearchSpec == SearchInit /\ [][SearchNext]_searchvars

-----------------------------------------------------------------------------
In(i) == table[i].start <= c /\ c <= table[i].end

SearchTypeOK ==
    /\ len \in 1 .. MaxLen
    /\ table \in [Idx -> CpRange]
    /\ c \in Cp
    /\ hi \in 0 .. SIZE_MAX /\ lo \in 0 .. MaxLen
    /\ pc \in {"check", "loop", "found", "absent"}

(***************************************************************************)
(* The result is that of a linear search.                                  *)
(***************************************************************************)
Correct ==
    /\ pc = "found" => \E i \in Idx : In(i)
    /\ pc = "absent" => \A i \in Idx : ~In(i)

(***************************************************************************)
(* avg - 1 never wraps around, and no entry beyond the table is read: the  *)
(* range test is what keeps the loop from a lower bound of 0 with the code *)
(* point still below it.                                                   *)
(***************************************************************************)
InBounds == pc = "loop" => hi < len /\ lo <= len

(***************************************************************************)
(* The interval shrinks until the search returns.                          *)
(***************************************************************************)
Terminates == <>(pc \in {"found", "absent"})

(***************************************************************************)
(* The loop's invariant: an entry that holds c is still between the        *)
(* bounds, and the code point is not below the first entry.                *)
(***************************************************************************)
LoopInv ==
    /\ pc = "loop" => /\ table[0].start <= c
                      /\ \A i \in Idx : In(i) => lo <= i /\ i <= hi
    /\ Sorted(table, len)

SearchInv == SearchTypeOK /\ Correct /\ InBounds /\ LoopInv

=============================================================================
