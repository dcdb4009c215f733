------------------------------ MODULE MCCommand -----------------------------
(* Requests for the instance of Command that TLC checks. *)
EXTENDS Command, SequencesExt

CONSTANTS k1, k2

\* Around the largest integer (47) and one character past the longest spelling.
MCTexts == BoundedSeq({"-", "0", "4", "7", "8", "x"}, 4)

\* Around the largest lifetime in seconds (14 as the server starts, 15 in any
\* int64) and in milliseconds (44).
Amounts == {<<"0">>, <<"-", "1">>, <<"1">>, <<"1", "4">>, <<"1", "5">>, <<"1", "6">>,
            <<"4", "4">>, <<"0", "1">>}

MCRequests ==
  {<<"nosuch">>, <<"get">>, <<"get", k1, k2>>, <<"ping">>, <<"ping", <<"x">> >>,
   <<"info">>, <<"command">>, <<"config", "set">>, <<"config", "get">>,
   <<"config", "get", "save">>, <<"config", "get", "port">>,
   <<"flushall">>,
   <<"get", k1>>, <<"incr", k1>>, <<"ttl", k1>>, <<"ttl", k2>>,
   <<"del", k1>>, <<"del", k1, k1>>, <<"del", k1, k2>>,
   <<"exists", k1, k1>>, <<"exists", k2, k1>>,
   <<"set", k1, <<"x">> >>, <<"set", k1, <<"4", "6">> >>, <<"set", k1, <<"4", "7">>, "nx">>,
   <<"SET", k2, <<"-", "1">> >>,
   <<"set", k1, <<"9">>, "nx", <<"1">> >>}
  \cup {<<"set", k1, <<"9">>, u, a>> : u \in {"EX", "px"}, a \in Amounts}
  \cup {<<"set", k2, <<"9">>, "px", a>> : a \in {<<"1">>, <<"2">>}}
  \cup {<<"expire", k1, a>> : a \in Amounts}

=============================================================================
