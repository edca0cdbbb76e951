--------------------------- MODULE MCRemoteSystem ---------------------------
(***************************************************************************)
(* Instances of RemoteSystem for TLC: three commands each with writes that *)
(* fail on the host, or one command each with every failure of a file.     *)
(***************************************************************************)
EXTENDS RemoteSystem

LongSession   == [ops |-> 3, fails |-> {"host writes"}]
PutSession    == [ops |-> 1, fails |-> {"host reads"}]
FaultySession == [ops |-> 1, fails |-> FileFailures]
LostSession   == [ops |-> 1, fails |-> {"agent writes"}]

MCCommandLines ==
    {<<>>, <<"prog">>, <<"prog", "a">>, <<"prog", "return">>, <<"prog", "return", "stdout">>,
     <<"prog", "return", "stderr">>, <<"prog", "return", "stdout", "a">>,
     <<"prog", "args", "a", "b", "c">>, <<"prog", "args", "a", "envs", "E=1", "return", "stdout">>}

AllSessions == {LongSession, PutSession, FaultySession}
PutSessions == {LostSession}
=============================================================================
