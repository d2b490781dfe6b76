------------------------------ MODULE MCConsole ------------------------------
(***************************************************************************)
(* The prompt and the search behind it, for model checking.  The editor    *)
(* waits for search_table, which it asks for the width of a character, and *)
(* goes on.  It knows the widths of its own characters, so one answer is   *)
(* enough for it to start: that of a table with one range, for a code      *)
(* point above it.                                                         *)
(***************************************************************************)
EXTENDS LineEditor, SearchTable

allvars == <<vars, searchvars>>

ConsoleInit == Init /\ SearchInit

Answered == pc = "absent" /\ len = 1 /\ c = 1 /\ table[0] = [start |-> 0, end |-> 0]

Searching == SearchNext /\ UNCHANGED vars

Editing == Answered /\ Next /\ UNCHANGED searchvars

\* search_table runs to its return; nobody has to type.
ConsoleSpec ==
    ConsoleInit /\ [][Searching \/ Editing]_allvars /\ WF_allvars(Searching)

=============================================================================
