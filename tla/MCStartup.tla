------------------------------ MODULE MCStartup ------------------------------
(***************************************************************************)
(* Startup for model checking: words that are options alone, clustered,    *)
(* with an argument attached, arguments, ends of the options, ports in and *)
(* out of range and longer than the array.                                 *)
(***************************************************************************)
EXTENDS Startup

SomeLetters == {"-", "l", "a", "p", "u", "q", "h", "b", "o", "v", "x", "y", "r", "m", "e",
                "0", "1", "2", "3", "5", "7", "8", "9"}

SomeWords == {
    <<"-", "l">>, <<"-", "a">>, <<"-", "p">>, <<"-", "u">>, <<"-", "q">>,
    <<"-", "l", "l">>, <<"-", "l", "h">>, <<"-", "l", "u">>, <<"-", "u", "b", "o">>, <<"-", "v", "x">>,
    <<"-", "-">>, <<"x">>,
    <<"8", "0">>, <<"9", "0", "8", "0">>, <<"7", "0", "0", "0", "0">>,
    <<"0", "0", "0", "0", "0", "8", "0">> }

Port2315 == <<"2", "3", "1", "5">>
SomeLogin == <<"m", "e">>
SomeAnswers == {<< >>, <<"y", "o", "u">>, <<"y", "o", "u", "r">>}
=============================================================================
