------------------------------- MODULE MCResp -------------------------------
(* Streams for the instance of Resp that TLC checks. *)
EXTENDS Resp

Crlf == <<CR, LF>>

Meaning(bytes, cmds) == [bytes |-> bytes, cmds |-> cmds, bad |-> FALSE]
Malformed(bytes) == [bytes |-> bytes, cmds |-> <<>>, bad |-> TRUE]

Count(n) == <<"*">> \o n \o Crlf
Bulk(n, payload) == <<"$">> \o n \o Crlf \o payload \o Crlf

\* A null count, *-1, is in neither group: the parser skips it like *0 and
\* resp.h says it is rejected.
MCRequests == {
  Meaning(Count(<<"1">>) \o Bulk(<<"1">>, <<"x">>), << << <<"x">> >> >>),
  Meaning(Count(<<"2">>) \o Bulk(<<"1">>, <<"x">>) \o Bulk(<<"2">>, Crlf),
          << << <<"x">>, Crlf >> >>),
  Meaning(Count(<<"2">>) \o Bulk(<<"1">>, <<"x">>) \o Bulk(<<"0">>, <<>>),
          << << <<"x">>, <<>> >> >>),
  Meaning(<<"0", " ", "x", LF>>, << << <<"0">>, <<"x">> >> >>),
  Meaning(Count(<<"1">>) \o Bulk(<<"0">>, <<>>), << << <<>> >> >>),
  Meaning(Count(<<"1">>) \o Bulk(<<"3">>, <<CR, LF, "+">>), << << <<CR, LF, "+">> >> >>),
  Meaning(Count(<<"0">>), <<>>),
  Meaning(<<"x", " ", "x", LF>>, << << <<"x">>, <<"x">> >> >>),
  Meaning(<<" ", "1", "x", CR, LF>>, << << <<"1", "x">> >> >>),
  Meaning(Crlf, <<>>),
  Malformed(Count(<<"x">>)),
  Malformed(Count(<<"3">>)),
  Malformed(Count(<<"1">>) \o <<"x">>),
  Malformed(Count(<<"1">>) \o <<"$", "-", "1">> \o Crlf),
  Malformed(Count(<<"1">>) \o <<"$", "1">> \o Crlf \o <<"x", "x", CR>>)}

MCTails == {
  <<"x", "x", "x", "x", "x">>,
  <<"*", "1", "1", "1", "1", "1">>,
  Count(<<"1">>) \o <<"$", "1", "1", "1", CR>>}

=============================================================================
