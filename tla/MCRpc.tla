------------------------------- MODULE MCRpc -------------------------------
(***************************************************************************)
(* Rpc with two clients.  One makes a request for each way a call can go,  *)
(* the other a request that is answered.                                   *)
(***************************************************************************)
EXTENDS Rpc

CONSTANTS c1, c2

Req(fn, args, fits) == [fn |-> fn, args |-> args, fits |-> fits]

\* Answered without data, with nothing, with the text for an unknown name and
\* with a crash; refused for the length of the message and for that of the
\* name.
MCRequests ==
  c1 :> { Req("login", <<"pb_good">>, TRUE),
          Req("login", <<>>, TRUE),
          Req("unknown", <<>>, TRUE),
          Req("sum", <<"int">>, TRUE),
          Req("concat", <<"str">>, FALSE),
          Req("overlong", <<>>, TRUE) }
  @@ c2 :> { Req("concat", <<"str", "str">>, TRUE) }

MCServerFns == <<"sum", "concat", "login">>
=============================================================================
