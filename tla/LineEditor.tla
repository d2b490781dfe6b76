------------------------------ MODULE LineEditor ------------------------------
(***************************************************************************)
(* The prompt of the client (src/common/console.c): the line being edited, *)
(* the cursor, the line's growing buffer, and the distances flush_console  *)
(* computes.  A character is what xgetcp returns from one call: its bytes  *)
(* and the cells it is drawn in.  Keys without effect (TAB, ENTER on an    *)
(* empty line, unknown escape sequences) are left out, and so is the       *)
(* terminal: where the prompt starts (behind the warning of xprompt, which *)
(* has no newline), how many rows are below it, and what recv_thread       *)
(* prints meanwhile.                                                       *)
(***************************************************************************)
EXTENDS Integers, Sequences

CONSTANTS
    Alphabet,       \* the characters typed, among those of Size
    Prompt,         \* prompt_len: cells of the prompt
    console_width,  \* columns of the terminal
    Initial,        \* initial allocation of the line (64)
    Limit,          \* *len of xprompt; 0 if any length is accepted
    SizeValues,     \* the values of size_t, more than a screen can have rows
    MaxChars        \* bound on the characters of a line

VARIABLES
    line,       \* the characters in the buffer
    line_size,  \* its bytes
    line_len,   \* its cells
    offset,     \* cursor.offset: cursor position in bytes
    column,     \* cursor.column: cursor position in cells
    row,        \* cursor.row: the most rows used so far
    rendered,   \* cursor.rendered_column
    alloc,      \* line_allocation
    nul,        \* where the last NUL was written; -1 in the buffer from xmalloc
    moves,      \* the distances in the escape sequence of the last flush_console
    status,     \* "editing", "returned" (from xgetline), "done" (from xprompt)
    skipped     \* history: the size at which the buffer grows was stepped over

edit == <<line, line_size, line_len, offset, column>>
vars == <<edit, row, rendered, alloc, nul, moves, status, skipped>>

-----------------------------------------------------------------------------
(***************************************************************************)
(* Characters: a letter, a blank, an accented letter of two bytes, an      *)
(* ideograph of three bytes and two cells, and a byte that cannot start a  *)
(* character, which xgetcp reports with length 0.                          *)
(***************************************************************************)
Chars == {"a", "blank", "accent", "wide", "bad"}

Size == [ch \in Chars |-> CASE ch = "bad" -> 0 [] ch \in {"a", "blank"} -> 1
                            [] ch = "accent" -> 2 [] ch = "wide" -> 3]

\* codepoint_width: never 0
Width == [ch \in Chars |-> IF ch = "wide" THEN 2 ELSE 1]

ASSUME LineAssumption ==
    /\ Alphabet \subseteq Chars
    /\ Prompt \in Nat \ {0} /\ console_width \in Nat \ {0}
    /\ Initial \in Nat /\ Initial > 2 /\ Limit \in Nat /\ MaxChars \in Nat
    /\ SizeValues \in Nat /\ SizeValues > Prompt + 2 * MaxChars + 1

\* the characters of s, each counted as w says
Total(s, w) ==
    LET sum[k \in 0 .. Len(s)] == IF k = 0 THEN 0 ELSE sum[k - 1] + w[s[k]]
    IN  sum[Len(s)]

Bytes(s) == Total(s, Size)
Cells(s) == Total(s, Width)
First(k) == SubSeq(line, 1, k)

\* how many characters are before byte `off` of the line
CharsBefore(off) == CHOOSE k \in 0 .. Len(line) : Bytes(First(k)) = off

at == CharsBefore(offset)

Init ==
    /\ line = << >> /\ line_size = 0 /\ line_len = 0
    /\ offset = 0 /\ column = 0 /\ row = 0 /\ rendered = 0
    /\ alloc = Initial
    /\ nul = -1
    /\ moves = [down |-> 0, up |-> 0]
    /\ status = "editing"
    /\ skipped = FALSE

-----------------------------------------------------------------------------
(***************************************************************************)
(* flush_console: go down to the last row in use, clear upwards, write     *)
(* prompt and line again, and go up to the row of the cursor.  The         *)
(* distances are size_t, written with xutoa into 11 bytes.                 *)
(***************************************************************************)
Larger(a, b) == IF a > b THEN a ELSE b
RowOf(cells) == (Prompt + cells) \div console_width

\* size_t wraps around
SizeT(k) == k % SizeValues

MutantWraps == FALSE

\* the cursor is behind a line that fills its last row
Wraps == offset' # 0 /\ offset' = line_size' /\ (Prompt + column') % console_width = 0

flush_console ==
    LET rows == (Prompt + line_len' + console_width - 1) \div console_width
        used == Larger(rows, row)
        written == IF Wraps THEN rows + 1 ELSE rows
    IN  /\ row' = Larger(written, used)
        /\ rendered' = column'
        /\ moves' = [down |-> SizeT(used - (RowOf(rendered) + 1)),
                     up |-> SizeT(written - (RowOf(column') + 1))]

MutantMustGrow == line_size = alloc

\* the test before every key
MustGrow == line_size = alloc - 2

Resized == IF MustGrow THEN 2 * alloc ELSE alloc

\* A key of xgetline's loop.
Key ==
    /\ status = "editing"
    /\ alloc' = Resized

\* ctx->line[ctx->line_size] = '\0', once the size is the new one
NulAt == line_size'

insert_char(ch) ==
    /\ Key
    /\ Len(line) < MaxChars
    /\ line' = IF Size[ch] = 0 THEN line ELSE First(at) \o <<ch>> \o SubSeq(line, at + 1, Len(line))
    /\ offset' = offset + Size[ch]
    /\ line_size' = line_size + Size[ch]
    /\ line_len' = line_len + Width[ch]
    /\ column' = column + Width[ch]
    /\ nul' = NulAt
    /\ flush_console
    /\ skipped' = (skipped \/ (line_size < alloc' - 2 /\ line_size' > alloc' - 2))
    /\ UNCHANGED status

(***************************************************************************)
(* Moving the cursor: over characters from the k-th to the n-th.           *)
(***************************************************************************)
MutantPrevSize(s) == Len(s)

\* prev_codepoint walks back over all bytes of a character
PrevSize(s) == Bytes(s)

GoRight(n) ==
    /\ offset' = offset + Bytes(SubSeq(line, at + 1, n))
    /\ column' = column + Cells(SubSeq(line, at + 1, n))

GoLeft(n) ==
    /\ offset' = offset - PrevSize(SubSeq(line, n + 1, at))
    /\ column' = column - Cells(SubSeq(line, n + 1, at))

Moved ==
    /\ Key
    /\ UNCHANGED <<line, line_size, line_len, nul, status, skipped>>
    /\ flush_console

move_cursor_right == GoRight(IF offset # line_size THEN at + 1 ELSE at) /\ Moved
move_cursor_left == GoLeft(IF offset > 0 THEN at - 1 ELSE at) /\ Moved
move_home == offset' = 0 /\ column' = 0 /\ Moved
move_end == offset' = line_size /\ column' = line_len /\ Moved

\* the first position from k on that is at the end or before a character in S
Ahead(k, S) == CHOOSE n \in k .. Len(line) :
    /\ n = Len(line) \/ line[n + 1] \in S
    /\ \A m \in k .. n - 1 : line[m + 1] \notin S

\* the last position up to k that is at the start or behind a character in S
Behind(k, S) == CHOOSE n \in 0 .. k :
    /\ n = 0 \/ line[n] \in S
    /\ \A m \in n + 1 .. k : line[m] \notin S

NonBlank == Alphabet \ {"blank"}

\* Blanks, then a word.  At offset 0 the byte before the buffer is read; both
\* loops end there whatever it is.
move_cursor_word_end == GoRight(Ahead(Ahead(at, NonBlank), {"blank"})) /\ Moved
move_cursor_word_start == GoLeft(Behind(Behind(at, NonBlank), {"blank"})) /\ Moved

\* ctx->line_len -= cp_len
Shorter(k) == line_len - Width[line[k]]

\* the character with number k is taken out, and the NUL written again
Without(k) ==
    /\ line' = First(k - 1) \o SubSeq(line, k + 1, Len(line))
    /\ line_size' = line_size - Size[line[k]]
    /\ line_len' = Shorter(k)
    /\ nul' = NulAt
    /\ flush_console

backspace ==
    /\ Key
    /\ IF offset > 0 /\ line_size > 0 THEN GoLeft(at - 1) /\ Without(at)
       ELSE UNCHANGED <<edit, row, rendered, nul, moves>>
    /\ UNCHANGED <<status, skipped>>

delete ==
    /\ Key
    /\ IF line_size > 0 /\ offset < line_size
       THEN UNCHANGED <<offset, column>> /\ Without(at + 1)
       ELSE UNCHANGED <<edit, row, rendered, nul, moves>>
    /\ UNCHANGED <<status, skipped>>

\* ENTER on a line that is not empty
enter ==
    /\ Key
    /\ line_size > 0
    /\ offset' = line_size /\ column' = line_len
    /\ UNCHANGED <<line, line_size, line_len, nul, skipped>>
    /\ flush_console
    /\ status' = "returned"

\* xgetcp leaves *c zero: end of input, or a NUL typed
end_of_input ==
    /\ Key
    /\ status' = "returned"
    /\ UNCHANGED <<edit, row, rendered, nul, moves, skipped>>

\* *len && line_length > *len
TooLong == Limit # 0 /\ line_size > Limit

\* xprompt: a line beyond the limit is dropped, and the prompt starts again
\* behind a warning.
xprompt ==
    /\ status = "returned"
    /\ IF TooLong
       THEN /\ line' = << >> /\ line_size' = 0 /\ line_len' = 0
            /\ offset' = 0 /\ column' = 0 /\ row' = 0 /\ rendered' = 0
            /\ alloc' = Initial /\ nul' = -1
            /\ moves' = [down |-> 0, up |-> 0]
            /\ status' = "editing" /\ skipped' = FALSE
       ELSE status' = "done" /\ UNCHANGED <<edit, row, rendered, alloc, nul, moves, skipped>>

Next ==
    \/ \E ch \in Alphabet : insert_char(ch)
    \/ move_cursor_right \/ move_cursor_left \/ move_home \/ move_end
    \/ move_cursor_word_end \/ move_cursor_word_start
    \/ backspace \/ delete \/ enter \/ end_of_input \/ xprompt

Spec == Init /\ [][Next]_vars

-----------------------------------------------------------------------------
TypeOK ==
    /\ line \in Seq(Alphabet)
    /\ line_size \in Nat /\ line_len \in Nat /\ offset \in Nat /\ column \in Nat
    /\ row \in Nat /\ rendered \in Nat /\ alloc \in Nat
    /\ nul \in Int
    /\ moves \in [down : Nat, up : Nat]
    /\ status \in {"editing", "returned", "done"}
    /\ skipped \in BOOLEAN

(***************************************************************************)
(* console.h describes line_size and line_len as the line's size in bytes  *)
(* and its rendered length, and offset and column as the cursor's place in *)
(* bytes and in characters.  After any sequence of edits the four agree    *)
(* with the buffer, and the cursor is between two characters, never inside *)
(* one.                                                                    *)
(***************************************************************************)
CursorOnBoundary ==
    /\ line_size = Bytes(line) /\ line_len = Cells(line)
    /\ \E k \in 0 .. Len(line) : offset = Bytes(First(k)) /\ column = Cells(First(k))

\* An empty line behind a prompt that fills its rows to the last cell
PromptFills == line_len = 0 /\ Prompt % console_width = 0

(***************************************************************************)
(* flush_console subtracts the row it believes the cursor to be in from    *)
(* the rows in use, all of them size_t, and move_cursor_pos has room for   *)
(* ten digits.  After any sequence of edits neither difference wraps       *)
(* around: both moves stay within the rows in use.  The one exception is   *)
(* an empty line behind a prompt that fills its rows to the last cell: the *)
(* cursor is then counted into a row that nothing has opened.              *)
(***************************************************************************)
DistancesInRange ==
    row > 0 /\ ~PromptFills => moves.down < row /\ moves.up < row

(***************************************************************************)
(* xgetline: "Dynamically resize line buffer as needed", and console.h:    *)
(* xprompt "Returns pointer to null-terminated UTF-8 string".  The line    *)
(* and the NUL behind it are within the allocation, unless a character of  *)
(* several bytes has stepped over the one size at which the buffer is      *)
(* grown; and the NUL is there when xprompt returns, except at the end of  *)
(* input before the first edit, when nothing was ever written.             *)
(***************************************************************************)
TerminatedInBuffer ==
    /\ ~skipped => line_size < alloc
    /\ status = "done" /\ line_size > 0 => nul = line_size

=============================================================================
