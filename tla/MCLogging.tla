------------------------------ MODULE MCLogging ------------------------------
(***************************************************************************)
(* The logger with two writing threads and a watchdog over its files:      *)
(* patterns with a counter and a time, and with a time only.               *)
(***************************************************************************)
EXTENDS LogFilesWatchdog

MCPatterns == {<<"%N", ")_", "%T", ".log">>, <<"%T", ".log">>, <<"%T", "=", "%N", ".log">>}

\* A packed file, a file of the user's, one of another log, a directory, and a
\* copy the user has made of a log file, with a time stamp later than those of the
\* first files; the second pattern half matches its name.
MCForeign ==
    << [regular |-> TRUE, named |-> TRUE, ext |-> ".gz", time |-> 0,
        rest |-> <<"num", ")_", "time", ".log", ".gz">>],
       [regular |-> TRUE, named |-> TRUE, ext |-> ".log", time |-> 0, rest |-> <<"notes", ".log">>],
       [regular |-> TRUE, named |-> FALSE, ext |-> ".log", time |-> 0,
        rest |-> <<"num", ")_", "time", ".log">>],
       [regular |-> FALSE, named |-> TRUE, ext |-> ".log", time |-> 0, rest |-> <<"time", ".log">>],
       [regular |-> TRUE, named |-> TRUE, ext |-> ".log", time |-> 1,
        rest |-> <<"time", "-old", "-copy", ".log">>] >>
MCEnvironment == {"DEBUG", "invalid"}
=============================================================================
