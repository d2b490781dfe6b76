------------------------------- MODULE Startup -------------------------------
(***************************************************************************)
(* How parcel and parceld start: main of src/parcel/parcel.c and of        *)
(* src/parceld/parceld.c with xgetopt and xstrrange (src/common/xutils.c), *)
(* prompt_args and connect_server (src/parcel/client.c), init_daemon and   *)
(* display_daemon_info (src/parceld/daemon.c).                             *)
(*                                                                         *)
(* A word of the command line is a sequence of characters (letters, digits *)
(* and dashes): xgetopt walks through them, and settings are copied over   *)
(* older ones byte by byte.  Getting a socket is one step, which may fail: *)
(* the addresses tried in turn, and the length of the queue that -q sets   *)
(* and init_daemon does not use, are left out.                             *)
(***************************************************************************)
EXTENDS Integers, Sequences, SequencesExt

CONSTANTS
    Letters,              \* the characters of words
    Words,                \* words that may be on a command line
    MaxWords,             \* bound on their number
    ADDRESS_MAX_LENGTH, USERNAME_MAX_LENGTH, PORT_MAX_LENGTH,
    DefaultPort,          \* "2315"
    Login,                \* what xgetlogin yields
    Answers               \* what the user may type at a prompt

NUL == "nul"
DigitChars == <<"0", "1", "2", "3", "4", "5", "6", "7", "8", "9">>

ASSUME StartupAssumption ==
    /\ MaxWords \in Nat
    /\ NUL \notin Letters /\ ":" \notin Letters
    /\ Words \subseteq Seq(Letters) /\ Answers \subseteq Seq(Letters)
    /\ Login \in Seq(Letters) /\ DefaultPort \in Seq(Letters)

VARIABLES
    prog,      \* "parcel" or "parceld"
    argv,      \* the words behind the program's name
    index, position, arg,  \* xgetopt_t; argv[0] is already passed: index 1
    option,    \* what xgetopt returned last
    pc,        \* "getopt", "case", "prompt", "lookup", "running", "ended",
               \* "undefined" (memory behind an array is used)
    set,       \* address, username, port: the bytes of each array, up to where it
               \* still is as it was cleared
    got,       \* history: what xgetopt has returned
    given      \* history: the values accepted for each setting, in order

xgo == <<index, position, option, arg>>
startvars == <<prog, argv, xgo, pc, set, got, given>>

Settings == {"address", "username", "port"}
Default == [s \in Settings |-> IF s = "port" THEN DefaultPort ELSE << >>]

StartInit ==
    /\ prog \in {"parcel", "parceld"}
    /\ argv \in BoundedSeq(Words, MaxWords)
    /\ index = 1 /\ position = 0 /\ option = NUL /\ arg = << >>
    /\ pc = "getopt"
    /\ set = Default
    /\ got = << >>
    /\ given = [s \in Settings |-> << Default[s] >>]

argc == Len(argv) + 1

-----------------------------------------------------------------------------
(***************************************************************************)
(* xgetopt                                                                 *)
(***************************************************************************)
optstr == [parcel |-> <<"l", "h", "a", ":", "p", ":", "u", ":">>,
           parceld |-> <<"h", "v", "p", ":", "q", ":">>]

Known(p, o) == \E i \in DOMAIN optstr[p] : optstr[p][i] = o
Takes(p, o) == \E i \in 1 .. Len(optstr[p]) - 1 : optstr[p][i] = o /\ optstr[p][i + 1] = ":"

Word(i) == IF i <= Len(argv) THEN argv[i] ELSE << >>
Char(w, i) == IF i <= Len(w) THEN w[i] ELSE NUL

\* The words at which xgetopt stops: no more of them, "--", or no option.
Stops(w) == Char(w, 1) # "-" \/ Char(w, 2) \in {"-", NUL}

Returned(o, a) == got' = Append(got, <<o, a>>) /\ option' = o /\ arg' = a

MutantNextWord == IF position = 0 THEN index + 1 ELSE index

\* where the scan goes on after a letter that ends its word
NextWord == index + 1

xgetopt_stop ==
    /\ pc = "getopt" /\ Stops(Word(index))
    /\ index' = IF Word(index) = <<"-", "-">> THEN index + 1 ELSE index
    /\ pc' = IF prog = "parceld" THEN "lookup" ELSE "prompt"
    /\ UNCHANGED <<prog, argv, position, option, arg, set, got, given>>

xgetopt ==
    /\ pc = "getopt" /\ ~Stops(Word(index))
    /\ pc' = "case"
    /\ LET w == Word(index)
           o == Char(w, position + 2)
           rest == SubSeq(w, position + 3, Len(w))
       IN  \/ /\ ~Known(prog, o)
              /\ Returned("?", << >>) /\ UNCHANGED <<index, position>>
           \/ /\ Known(prog, o) /\ Takes(prog, o) /\ rest # << >>
              /\ Returned(o, rest) /\ index' = index + 1 /\ position' = 0
           \/ /\ Known(prog, o) /\ Takes(prog, o) /\ rest = << >> /\ index < Len(argv)
              /\ Returned(o, argv[index + 1]) /\ index' = index + 2 /\ position' = 0
           \/ /\ Known(prog, o) /\ Takes(prog, o) /\ rest = << >> /\ index >= Len(argv)
              /\ Returned(":", << >>) /\ UNCHANGED <<index, position>>
           \/ /\ Known(prog, o) /\ ~Takes(prog, o)
              /\ Returned(o, << >>)
              /\ index' = IF rest = << >> THEN NextWord ELSE index
              /\ position' = IF rest = << >> THEN 0 ELSE position + 1
    /\ UNCHANGED <<prog, argv, set, given>>

-----------------------------------------------------------------------------
(***************************************************************************)
(* The cases of main                                                       *)
(***************************************************************************)
IsDigit(c) == \E d \in 1 .. 10 : DigitChars[d] = c
DigitValue(c) == (CHOOSE d \in 1 .. 10 : DigitChars[d] = c) - 1
Number(w) == FoldLeft(LAMBDA v, c : 10 * v + DigitValue(c), 0, w)

\* strtol: a sign, digits up to the first other character, 0 if there is none
strtol(w) ==
    LET body == IF Char(w, 1) = "-" THEN Tail(w) ELSE w
        digits == SubSeq(body, 1, CHOOSE k \in 0 .. Len(body) :
                    /\ \A i \in 1 .. k : IsDigit(body[i])
                    /\ k < Len(body) => ~IsDigit(body[k + 1]))
    IN  IF Char(w, 1) = "-" THEN 0 - Number(digits) ELSE Number(digits)

xstrrange(w, max) == strtol(w) \in 0 .. max

MutantCopy(old, new) ==
    IF new = << >> THEN old ELSE SubSeq(new, 1, Len(new) - 1) \o SubSeq(old, Len(new), Len(old))

\* memcpy(dst, src, strlen(src)): no NUL is copied, so what is longer shows behind it
Copy(old, new) == new \o SubSeq(old, Len(new) + 1, Len(old))

\* An array read as a string: up to the first NUL.
String(bytes) ==
    SubSeq(bytes, 1, CHOOSE k \in 0 .. Len(bytes) :
        /\ \A i \in 1 .. k : bytes[i] # NUL
        /\ k < Len(bytes) => bytes[k + 1] = NUL)

Case(o) == pc = "case" /\ option = o /\ UNCHANGED <<prog, argv, xgo, got>>

Accept(s, v) ==
    /\ set' = [set EXCEPT ![s] = Copy(@, v)]
    /\ given' = [given EXCEPT ![s] = Append(@, v)]
    /\ pc' = "getopt"

\* a warning at most
Refuse == pc' = "getopt" /\ UNCHANGED <<set, given>>

case_a ==
    /\ Case("a")
    /\ IF Len(arg) < ADDRESS_MAX_LENGTH THEN Accept("address", arg) ELSE Refuse

case_u ==
    /\ Case("u")
    /\ IF Len(arg) < USERNAME_MAX_LENGTH THEN Accept("username", arg) ELSE Refuse

\* Both programs test the value and not the length; six characters leave no NUL.
case_p ==
    /\ Case("p")
    /\ IF ~xstrrange(arg, 65535) THEN Refuse
       ELSE IF Len(arg) >= PORT_MAX_LENGTH THEN pc' = "undefined" /\ UNCHANGED <<set, given>>
       ELSE Accept("port", arg)

\* getlogin_r fails, or writes the login and a NUL over the name.
case_l ==
    /\ Case("l")
    /\ \/ Refuse
       \/ /\ set' = [set EXCEPT !["username"] = Copy(@, Append(Login, NUL))]
          /\ given' = [given EXCEPT !["username"] = Append(@, Login)]
          /\ pc' = "getopt"

\* Nothing reads server.max_queue, in range or not: init_daemon listens with MAX_QUEUE.
case_q == Case("q") /\ Refuse

\* -h, -v, a missing argument, an unknown option
case_ends ==
    /\ \E o \in {"h", "v", ":", "?"} : Case(o)
    /\ pc' = "ended"
    /\ UNCHANGED <<set, given>>

\* main prompts only if there are fewer than four words.
Asks == argc < 5

Missing == IF Asks THEN {s \in {"address", "username"} : String(set[s]) = << >>} ELSE {}

Room(s) == IF s = "address" THEN ADDRESS_MAX_LENGTH ELSE USERNAME_MAX_LENGTH

(***************************************************************************)
(* xprompt lets a line as long as the array through, and an empty one (a   *)
(* NUL, or the end of the input).  An address that fills its array has no  *)
(* NUL for getaddrinfo to find.                                            *)
(***************************************************************************)
prompt_args ==
    /\ pc = "prompt"
    /\ \E typed \in [Missing -> Answers] :
          /\ \A s \in Missing : Len(typed[s]) <= Room(s)
          /\ set' = [s \in Settings |-> IF s \in Missing THEN Copy(set[s], typed[s]) ELSE set[s]]
          /\ given' = [s \in Settings |->
                          IF s \in Missing THEN Append(given[s], typed[s]) ELSE given[s]]
    /\ pc' = IF Len(String(set'["address"])) >= ADDRESS_MAX_LENGTH THEN "undefined" ELSE "lookup"
    /\ UNCHANGED <<prog, argv, xgo, got>>

-----------------------------------------------------------------------------
(***************************************************************************)
(* connect_server with two_party_client, or init_daemon and                *)
(* display_daemon_info: each call in them may fail, which ends the program.*)
(***************************************************************************)
connect_server ==
    /\ pc = "lookup"
    /\ pc' \in {"running", "ended"}
    /\ UNCHANGED <<prog, argv, xgo, set, got, given>>

StartNext ==
    \/ xgetopt_stop \/ xgetopt
    \/ case_a \/ case_u \/ case_p \/ case_l \/ case_q \/ case_ends
    \/ prompt_args \/ connect_server

StartSpec == StartInit /\ [][StartNext]_startvars

-----------------------------------------------------------------------------
(***************************************************************************)
(* What the options of a command line a are, from its last word to its     *)
(* first and from the last letter of a word to its first: a reference for  *)
(* xgetopt of program p.                                                   *)
(***************************************************************************)
FromEnd(w, k) == w[Len(w) + 1 - k]

\* The options from a letter on that is j letters from the end of the k-th word
\* from the end: `more` are those of the letters behind it, `after` those of the
\* words behind it, and `skip` those of the words behind the next one.
Letter(p, a, k, j, more, after, skip) ==
    LET w == FromEnd(a, k)
        o == FromEnd(w, j)
    IN  IF ~Known(p, o) THEN << <<"?", << >>>> >>
        ELSE IF ~Takes(p, o) THEN << <<o, << >>>> >> \o more
        ELSE IF j > 1 THEN << <<o, SubSeq(w, Len(w) + 2 - j, Len(w))>> >> \o after
        ELSE IF k > 1 THEN << <<o, FromEnd(a, k - 1)>> >> \o skip
        ELSE << <<":", << >>>> >>

Cluster(p, a, k, after, skip) ==
    LET some[j \in 0 .. Len(FromEnd(a, k))] ==
            IF j = 0 THEN after ELSE Letter(p, a, k, j, some[j - 1], after, skip)
    IN  some

\* The options from a word on that is k words from the end, the word's and then
\* `after`, or `skip` if the next word is an argument.
FromWord(p, a, k, after, skip) ==
    IF Stops(FromEnd(a, k)) THEN << >>
    ELSE Cluster(p, a, k, after, skip)[Len(FromEnd(a, k)) - 1]

LastOptions(p, a) ==
    LET last[k \in 0 .. Len(a)] ==
            IF k = 0 THEN << >>
            ELSE FromWord(p, a, k, last[k - 1], IF k = 1 THEN << >> ELSE last[k - 2])
    IN  last

Options(p, a) == LastOptions(p, a)[Len(a)]

(***************************************************************************)
(* xgetopt keeps a word and a letter between calls and jumps over          *)
(* arguments, attached or not.  It returns every option of the command     *)
(* line once, in order and with its own argument, however options are      *)
(* clustered, and stops where the options stop.                            *)
(***************************************************************************)
OptionsAsGetopt ==
    /\ IsPrefix(got, Options(prog, argv))
    /\ pc \notin {"getopt", "case", "ended", "undefined"} => got = Options(prog, argv)

\* No value is shorter than one before it.
Growing(values) == \A i, j \in DOMAIN values : i < j => Len(values[i]) <= Len(values[j])

(***************************************************************************)
(* By the time an address is looked up, each setting read as a string is   *)
(* the last value that an option, the login or a prompt has given for it,  *)
(* or its default: provided no value is shorter than one it replaces,      *)
(* because memcpy leaves the end of the longer one behind it ("-p 80"      *)
(* gives port 8015).                                                       *)
(***************************************************************************)
SettingsAsGiven ==
    pc \in {"lookup", "running"} =>
        \A s \in Settings : Growing(given[s]) => String(set[s]) = Last(given[s])

=============================================================================
