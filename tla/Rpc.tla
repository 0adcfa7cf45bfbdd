-------------------------------- MODULE Rpc --------------------------------
(***************************************************************************)
(* The JSON-RPC layer that both transports hand their messages to:         *)
(* handleRPCRequest of internal/mcp/server.go and the handlers it chooses  *)
(* from.  The server keeps nothing between two requests: a client need not *)
(* have initialized before it calls a tool.  What happens to each call is  *)
(* history, kept here for both transports.                                 *)
(***************************************************************************)
EXTENDS Naturals, Sequences

VARIABLES
    asked,          \* the calls received
    ran,            \* the calls whose tool has been started
    told,           \* the answers given, as records [call, code]
    runs,           \* how many times a tool has been started
    given           \* how many answers have been given

ledger == <<asked, ran, told, runs, given>>

Methods == {"initialize", "tools/list", "tools/call", "resources/list",
            "resources/read", "ping", "other"}

Supported == {"2025-11-25", "2025-06-18", "2024-11-05"}

Preferred == "2025-11-25"

Unsupported == "2025-03-26"

Versions == Supported \cup {Unsupported}

\* What a request is about: the requested version of initialize, and whether the
\* params of the methods that look at them decode and name something that exists.
Args == Versions \cup {"none", "undecodable", "blank", "unknown", "known"}

\* The id 0 stands for an absent or null id: the request is a notification.
Request == [id : Nat, method : Methods, arg : Args]

\* What the reader of a transport gets: nothing, something that does not decode,
\* something too long, one message, or an array of messages.
Payload == [form : {"blank", "garbage", "long", "single", "batch"}, requests : Seq(Request)]

Result         == 0
InvalidRequest == 32600
MethodNotFound == 32601
InvalidParams  == 32602
InternalError  == 32603
ParseError     == 32700

\* The middleware's 401, which is no JSON-RPC answer.
Unauthenticated == 401

Codes == {Result, InvalidRequest, MethodNotFound, InvalidParams, InternalError, ParseError,
          Unauthenticated}

\* Mutant of Negotiate: the client gets what it asked for.
NegotiateAsAsked(requested) == requested

Negotiate(requested) == IF requested \in Supported THEN requested ELSE Preferred

\* invokeTool is reached: the params decode and name a registered tool.
InvokesTool(r) == r.method = "tools/call" /\ r.arg = "known"

\* The codes a request may be answered with; only a tool leaves a choice.
Replies(r) ==
    CASE InvokesTool(r)       -> {Result, InternalError}
      [] r.method = "other"   -> {MethodNotFound}
      [] r.method \in {"tools/call", "resources/read"} /\ r.arg # "known"
                              -> {InvalidParams}
      [] OTHER                -> {Result}
=============================================================================
