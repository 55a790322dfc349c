------------------------------ MODULE RpcWire ------------------------------
(***************************************************************************)
(* What travels in the messages of cmake/rpc_c, and what the handlers of   *)
(* its main.c answer.                                                      *)
(*                                                                         *)
(* A request names a function and has typed arguments, of which only the   *)
(* type matters here: "int" for the integer types, "str" for the character *)
(* pointers, and a protobuf message with the right ("pb_good") or a wrong  *)
(* ("pb_bad") name and password.                                           *)
(***************************************************************************)
EXTENDS Naturals, Sequences, SequencesExt

\* rpc_parse_req_args goes through the arguments and stops at the first one
\* that the handler refuses.
AllAre(args, type) == \A i \in 1..Len(args) : args[i] = type

-----------------------------------------------------------------------------
(***************************************************************************)
(* Answers.  RPC_MAKE_RSP writes a result and a list of typed arguments; a *)
(* login without arguments writes nothing at all; and for an unknown       *)
(* function handle_client writes a result, a length and a text.            *)
(***************************************************************************)

Rsp(res, data) == [layout |-> "rsp", res |-> res, data |-> data]
NotFound == [layout |-> "text", res |-> "err", data |-> "str"]
Nothing == [layout |-> "nothing", res |-> "unset", data |-> "unset"]

\* The handler does not return.
Crash == [layout |-> "crash", res |-> "unset", data |-> "unset"]

\* The result is an int64_t, which is a long on 64-bit Linux, and long is not
\* among the types of DISPATCH_TYPE: IS_PROTOBUF_MSG takes a sum that is not 0
\* for an address, and for 0 the assertion in buffer_append_dt fails.
sum_handler(args) == IF AllAre(args, "int") THEN Crash ELSE Rsp("err", "str")

concat_handler(args) ==
  IF AllAre(args, "str") THEN Rsp("ok", "str") ELSE Rsp("err", "str")

\* Every argument gets an answer, until one is refused; the client reads the
\* first.
login_handler(args) ==
  CASE args = <<>> -> Nothing
    [] args # <<>> /\ args[1] = "pb_good" -> Rsp("ok", "unset")
    [] args # <<>> /\ args[1] # "pb_good" -> Rsp("err", "str")

\* find_handler, and the call of what it finds.
Answer(r, handlers) ==
  CASE r.fn \notin handlers -> NotFound
    [] r.fn \in handlers /\ r.fn = "sum" -> sum_handler(r.args)
    [] r.fn \in handlers /\ r.fn = "concat" -> concat_handler(r.args)
    [] r.fn \in handlers /\ r.fn = "login" -> login_handler(r.args)

-----------------------------------------------------------------------------
(***************************************************************************)
(* What rpc_call returns, and leaves in the caller's *result, which nobody *)
(* has initialised.                                                        *)
(***************************************************************************)

\* The return value, and the fields res and data of the rpc_rsp_t.
Result == [ret : {"ok", "failed"}, res : {"ok", "err", "unset"}, data : {"str", "unset"}]

\* rpc_get_rsp, once the body has arrived.  Of the text for an unknown
\* function the client takes the low byte of the length for a number of
\* arguments and the next byte, a 0, for a type, and refuses it.
Accept(a) ==
  CASE a.layout = "rsp" -> [ret |-> "ok", res |-> a.res, data |-> a.data]
    [] a.layout = "text" -> [ret |-> "failed", res |-> a.res, data |-> "unset"]

\* The call failed before there was a result to read.
Failed == [ret |-> "failed", res |-> "unset", data |-> "unset"]
=============================================================================
